---------------------------- MODULE ContractProofs ----------------------------
(***************************************************************************)
(* The workflow executor and the verification server, for every graph and  *)
(* any number of clients, and the contract store, for every set of         *)
(* specifications that keep to one shape and any number of threads.        *)
(*                                                                         *)
(* Workflow: the degree of a node is the number of edges into it from      *)
(* nodes that have not been visited (Counted), so that a node in the queue *)
(* has all its sources behind it (Ready); a node that would enter the      *)
(* queue again would have an edge from the current node left, and has none.*)
(* What is left over when the queue is empty has a source that is left     *)
(* over too, and so, the nodes being finite, there is a cycle behind it.   *)
(*                                                                         *)
(* Server: a client that its handler passed on is in one place only of the *)
(* two queues and the two hands (InOnePlace), and unanswered; what a       *)
(* handler knows of its connection (HandlersKnow) tells which answers it   *)
(* gives itself, and which entries of the table it leaves behind.          *)
(*                                                                         *)
(* Store: documents come from specifications (Drawn), so that a document   *)
(* of a clause has a sub-contract of its contract in the store that names  *)
(* the clause, or a create or deletion under way that answers for it       *)
(* (Anchored); and of a contract that was deleted nothing stays that a     *)
(* deletion under way will not find in what it has still to list, or has   *)
(* not listed as often as there are copies of it (AllSeenTo).  A request   *)
(* that is alone has made of the collections it found what the calls it    *)
(* has behind it make of them (Progress, Alone).                           *)
(*                                                                         *)
(* Reports: what a report shows, and the clauses by which it finds more,   *)
(* are of its contract (ReportOwn); a document that was there since it     *)
(* began is shown or still to be found (ReportFinds).                      *)
(***************************************************************************)
EXTENDS ContractReport, Workflow, VerificationServer, StackLemmas, FiniteSetTheorems, TLAPS

Visited == Range_(order)
Waiting(n) == {e \in Into(n) : e[1] \notin Visited}

Shape ==
    /\ graph \in Graphs
    /\ degree \in [Nodes -> Nat]
    /\ queue \in Seq(Nodes)
    /\ order \in Seq(Nodes)
Counted == phase \notin {"new", "undefined"} => \A n \in Nodes : degree[n] = Cardinality(Waiting(n))
Ready ==
    /\ \A i \in DOMAIN queue : Waiting(queue[i]) = {} /\ queue[i] \notin Visited
    /\ Distinct(queue)
Started == phase = "new" => queue = <<>> /\ order = <<>>
Sized ==
    /\ IsFiniteSet(Visited) /\ Cardinality(Visited) = Len(order)
    /\ Visited \cup Range_(queue) \subseteq Seen
SortInv == Shape /\ Counted /\ Ready /\ Started /\ Sized /\ InputsFirst

-----------------------------------------------------------------------------
(* The edges of a graph are finite in number and join nodes.               *)
LEMMA GraphFacts ==
    ASSUME graph \in Graphs
    PROVE  /\ IsFiniteSet(graph.edges)
           /\ graph.keys \subseteq Nodes
           /\ \A e \in graph.edges : e[1] \in graph.keys /\ e[1] \in Nodes /\ e[2] \in Nodes
           /\ Seen \subseteq Nodes /\ IsFiniteSet(Seen)
           /\ \A n : IsFiniteSet(Into(n))
  <1>1. /\ IsFiniteSet(graph.edges) /\ graph.keys \subseteq Nodes
        /\ graph.edges \subseteq Edge /\ \A e \in graph.edges : e[1] \in graph.keys
    BY WorkflowConstants
  <1>2. \A e \in graph.edges : e[1] \in Nodes /\ e[2] \in Nodes
    BY <1>1 DEF Edge
  <1>3. Seen \subseteq Nodes
    BY <1>2 DEF Seen
  <1>4. IsFiniteSet(Seen)
    BY <1>3, FS_Subset, WorkflowConstants
  <1>5. ASSUME NEW n PROVE IsFiniteSet(Into(n))
    <2>1. Into(n) \in SUBSET graph.edges
      BY DEF Into
    <2> QED BY <1>1, <2>1, FS_Subset
  <1> QED BY <1>1, <1>2, <1>3, <1>4, <1>5

(* What appending the members of a set to a list gives.                    *)
LEMMA AppendedFacts ==
    ASSUME NEW list \in Seq(Nodes), NEW set \in SUBSET Nodes, NEW q \in Appended(list, set)
    PROVE  /\ q \in Seq(Nodes)
           /\ Range_(q) = Range_(list) \cup set
           /\ Distinct(list) /\ Range_(list) \cap set = {} => Distinct(q)
  <1>1. PICK t \in [1..Cardinality(set) -> set] : Distinct(t) /\ Range_(t) = set /\ q = list \o t
    BY DEF Appended
  <1>2. Cardinality(set) \in Nat
    BY FS_Subset, FS_CardinalityType, WorkflowConstants
  <1>3. t \in Seq(Nodes) /\ Len(t) = Cardinality(set) /\ DOMAIN t = 1..Len(t)
    <2>1. \A n \in Nat : t \in [1..n -> set] => t \in Seq(Nodes) /\ Len(t) = n /\ DOMAIN t = 1..n
      <3> TAKE n \in Nat
      <3> HAVE t \in [1..n -> set]
      <3>1. t \in Seq(Nodes)
        BY SeqDef
      <3>2. DOMAIN t = 1..Len(t) /\ Len(t) \in Nat
        BY <3>1, LenProperties
      <3>3. Len(t) = n
        BY <3>2
      <3> QED BY <3>1, <3>2, <3>3
    <2> QED BY <1>1, <1>2, <2>1
  <1>4. /\ q \in Seq(Nodes)
        /\ Len(q) = Len(list) + Len(t)
        /\ \A i \in 1..Len(q) : q[i] = IF i <= Len(list) THEN list[i] ELSE t[i - Len(list)]
    <2>1. q = list \o t /\ t \in Seq(Nodes)
      BY <1>1, <1>3
    <2> HIDE DEF Appended
    <2> QED BY <2>1, ConcatProperties
  <1>5. ASSUME NEW x \in Range_(q) PROVE x \in Range_(list) \cup set
    <2>1. PICK i \in 1..Len(q) : x = q[i]
      BY <1>4 DEF Range_
    <2>2. CASE i <= Len(list)
      BY <1>4, <2>1, <2>2 DEF Range_
    <2>3. CASE i > Len(list)
      <3>1. i - Len(list) \in DOMAIN t
        BY <1>3, <1>4, <2>1, <2>3
      <3> QED BY <1>1, <1>4, <2>1, <2>3, <3>1 DEF Range_
    <2> QED BY <1>4, <2>1, <2>2, <2>3
  <1>6. ASSUME NEW x \in Range_(list) PROVE x \in Range_(q)
    <2>1. PICK i \in 1..Len(list) : x = list[i]
      BY DEF Range_
    <2>2. i \in 1..Len(q) /\ q[i] = x
      BY <1>3, <1>4, <2>1
    <2>3. DOMAIN q = 1..Len(q)
      BY <1>4, LenProperties
    <2> QED BY <2>2, <2>3 DEF Range_
  <1>7. ASSUME NEW x \in set PROVE x \in Range_(q)
    <2>1. PICK i \in DOMAIN t : x = t[i]
      BY <1>1 DEF Range_
    <2>2. Len(list) + i \in 1..Len(q) /\ q[Len(list) + i] = t[i]
      BY <1>3, <1>4, <2>1, LenProperties
    <2>3. DOMAIN q = 1..Len(q)
      BY <1>4, LenProperties
    <2> QED BY <2>1, <2>2, <2>3 DEF Range_
  <1>8. ASSUME Distinct(list), Range_(list) \cap set = {} PROVE Distinct(q)
    <2> SUFFICES ASSUME NEW i \in 1..Len(q), NEW j \in 1..Len(q), q[i] = q[j] PROVE i = j
      BY <1>4 DEF Distinct
    <2>1. ASSUME NEW k \in 1..Len(q), k > Len(list)
          PROVE  q[k] \in set /\ k - Len(list) \in DOMAIN t
      <3>1. k - Len(list) \in 1..Len(t) /\ q[k] = t[k - Len(list)]
        BY <1>3, <1>4, <2>1, LenProperties
      <3> QED BY <1>1, <1>3, <3>1
    <2>2. \A k \in 1..Len(q) : k <= Len(list) => q[k] \in Range_(list) /\ k \in DOMAIN list
      BY <1>4 DEF Range_
    <2>3. CASE i <= Len(list) /\ j <= Len(list)
      BY <1>4, <1>8, <2>2, <2>3 DEF Distinct
    <2>4. CASE i > Len(list) /\ j > Len(list)
      <3>1. t[i - Len(list)] = t[j - Len(list)]
        BY <1>4, <2>4
      <3>2. i - Len(list) = j - Len(list)
        BY <1>1, <2>1, <2>4, <3>1 DEF Distinct
      <3> QED BY <3>2, <1>4
    <2>5. CASE i <= Len(list) /\ j > Len(list)
      BY <1>8, <2>1, <2>2, <2>5
    <2>6. CASE i > Len(list) /\ j <= Len(list)
      BY <1>8, <2>1, <2>2, <2>6
    <2> QED BY <1>4, <2>3, <2>4, <2>5, <2>6
  <1> QED BY <1>4, <1>5, <1>6, <1>7, <1>8

-----------------------------------------------------------------------------
LEMMA SortInit == WorkflowInit => SortInv
  <1> SUFFICES ASSUME WorkflowInit PROVE SortInv
    OBVIOUS
  <1>1. Visited = {} /\ Range_(queue) = {} /\ Len(order) = 0
    BY DEF WorkflowInit, Visited, Range_
  <1>2. Sized
    BY <1>1, FS_EmptySet DEF Sized
  <1> QED BY <1>2 DEF WorkflowInit, SortInv, Shape, Counted, Ready, Started, InputsFirst, Distinct

LEMMA SortValidate == ASSUME SortInv, Validate PROVE SortInv'
  <1>1. CASE phase' = "undefined"
    BY <1>1 DEF Validate, SortInv, Shape, Counted, Ready, Started, InputsFirst, Distinct,
                Waiting, Into, Visited, Sized, Range_, Seen
  <1>2. CASE phase' = "sorting"
    <2>1. /\ queue = <<>> /\ order = <<>> /\ order' = order /\ graph' = graph
          /\ degree' = [n \in Nodes |-> Cardinality(Into(n))]
          /\ queue' \in Appended(<<>>, {n \in Seen : degree'[n] = 0})
      BY <1>2 DEF Validate, SortInv, Started
    <2>2. graph \in Graphs
      BY DEF SortInv, Shape
    <2>3. Visited' = {}
      BY <2>1 DEF Visited, Range_
    <2>4. \A n : Waiting(n)' = Into(n)
      BY <2>1, <2>3 DEF Waiting, Into
    <2>5. \A n \in Nodes : Cardinality(Into(n)) \in Nat
      BY <2>2, GraphFacts, FS_CardinalityType
    <2> DEFINE first == {n \in Seen : degree'[n] = 0}
    <2>6. first \in SUBSET Nodes
      BY <2>2, GraphFacts
    <2> HIDE DEF first
    <2>7. queue' \in Appended(<<>>, first)
      BY <2>1 DEF first
    <2>8. /\ queue' \in Seq(Nodes)
          /\ Range_(queue') = Range_(<<>>) \cup first
          /\ Distinct(<<>>) /\ Range_(<<>>) \cap first = {} => Distinct(queue')
      BY <2>6, <2>7, AppendedFacts, <<>> \in Seq(Nodes)
    <2>9. Range_(<<>>) = {} /\ Distinct(<<>>)
      BY DEF Range_, Distinct
    <2>10. \A i \in DOMAIN queue' : queue'[i] \in first
      BY <2>8, <2>9 DEF Range_
    <2>11. \A n \in first : Into(n) = {}
      BY <2>1, <2>2, <2>6, GraphFacts, FS_EmptySet DEF first
    <2>12. Shape'
      BY <2>1, <2>2, <2>5, <2>8 DEF Shape, SortInv
    <2>13. Counted'
      BY <2>1, <2>4 DEF Counted
    <2>14. Ready'
      BY <2>3, <2>4, <2>8, <2>9, <2>10, <2>11 DEF Ready
    <2>15. Started'
      BY <1>2 DEF Started
    <2>16. InputsFirst'
      BY <2>1 DEF InputsFirst, Distinct
    <2>17. Sized'
      <3>1. Seen' = Seen /\ first \subseteq Seen
        BY <2>1 DEF Seen, first
      <3>2. Range_(queue') \subseteq Seen' /\ Len(order') = 0
        BY <2>1, <2>8, <2>9, <3>1
      <3> QED BY <2>3, <3>2, FS_EmptySet DEF Sized
    <2> QED BY <2>12, <2>13, <2>14, <2>15, <2>16, <2>17 DEF SortInv
  <1> QED BY <1>1, <1>2 DEF Validate

LEMMA SortVisit == ASSUME SortInv, Visit PROVE SortInv'
  <1> DEFINE current == Head(queue)
             hits(n) == Into(n) \cap Out(current)
             fresh == {n \in Nodes : hits(n) # {} /\ degree'[n] = 0}
  <1>1. /\ phase = "sorting" /\ phase' = phase /\ graph' = graph
        /\ queue # <<>>
        /\ order' = Append(order, current)
        /\ degree' = [n \in Nodes |-> degree[n] - Cardinality(hits(n))]
        /\ queue' \in Appended(Tail(queue), fresh)
    BY DEF Visit
  <1>2. /\ graph \in Graphs /\ degree \in [Nodes -> Nat]
        /\ queue \in Seq(Nodes) /\ order \in Seq(Nodes)
        /\ Distinct(queue) /\ Distinct(order)
    BY DEF SortInv, Shape, Ready, InputsFirst
  <1>3. /\ current \in Nodes /\ current = queue[1] /\ 1 \in DOMAIN queue
        /\ Tail(queue) \in Seq(Nodes) /\ Len(Tail(queue)) = Len(queue) - 1
        /\ \A i \in 1..Len(Tail(queue)) : Tail(queue)[i] = queue[i + 1]
    BY <1>1, <1>2
  <1>4. Waiting(current) = {} /\ current \notin Visited
    BY <1>3 DEF SortInv, Ready
  <1>5. /\ order' \in Seq(Nodes) /\ Len(order') = Len(order) + 1
        /\ \A i \in 1..Len(order) : order'[i] = order[i]
        /\ order'[Len(order) + 1] = current
    BY <1>1, <1>2, <1>3
  <1>d. /\ DOMAIN order = 1..Len(order) /\ Len(order) \in Nat
        /\ DOMAIN order' = 1..(Len(order) + 1)
    BY <1>2, <1>5, LenProperties
  <1>6. Visited' = Visited \cup {current}
    <2>1. ASSUME NEW x \in Visited' PROVE x \in Visited \cup {current}
      <3>1. PICK i \in 1..(Len(order) + 1) : x = order'[i]
        BY <1>d DEF Visited, Range_
      <3>2. i \in 1..Len(order) \/ i = Len(order) + 1
        BY <1>d
      <3> QED BY <1>5, <1>d, <3>1, <3>2 DEF Visited, Range_
    <2>2. ASSUME NEW x \in Visited PROVE x \in Visited'
      <3>1. PICK i \in 1..Len(order) : x = order[i]
        BY <1>d DEF Visited, Range_
      <3>2. i \in DOMAIN order' /\ order'[i] = x
        BY <1>5, <1>d, <3>1
      <3> QED BY <3>2 DEF Visited, Range_
    <2>3. current \in Visited'
      <3>1. Len(order) + 1 \in DOMAIN order'
        BY <1>d
      <3> QED BY <1>5, <3>1 DEF Visited, Range_
    <2> QED BY <2>1, <2>2, <2>3
  <1>7. \A n : hits(n) \subseteq Waiting(n) /\ Waiting(n)' = Waiting(n) \ hits(n)
    BY <1>1, <1>4, <1>6 DEF Waiting, Into, Out
  <1>8. ASSUME NEW n \in Nodes
        PROVE  /\ IsFiniteSet(Waiting(n)) /\ Cardinality(hits(n)) \in Nat
               /\ Cardinality(Waiting(n)') = Cardinality(Waiting(n)) - Cardinality(hits(n))
    <2>1. Waiting(n) \in SUBSET Into(n) /\ hits(n) \in SUBSET Into(n)
      BY DEF Waiting
    <2>2. IsFiniteSet(Waiting(n)) /\ IsFiniteSet(hits(n))
      BY <1>2, <2>1, GraphFacts, FS_Subset
    <2>3. Waiting(n) \cap hits(n) = hits(n)
      BY <1>7
    <2>4. ASSUME NEW S, NEW T, IsFiniteSet(S), S \cap T = T
          PROVE  Cardinality(S \ T) = Cardinality(S) - Cardinality(T)
      BY <2>4, FS_Difference
    <2>5. Cardinality(Waiting(n) \ hits(n)) = Cardinality(Waiting(n)) - Cardinality(hits(n))
      <3> HIDE DEF hits
      <3> QED BY <2>2, <2>3, <2>4
    <2> QED BY <1>7, <2>2, <2>5, FS_CardinalityType
  <1>9. ASSUME NEW n \in Nodes PROVE degree'[n] = Cardinality(Waiting(n)')
    BY <1>1, <1>8 DEF SortInv, Counted
  <1>10. \A n \in fresh : Waiting(n)' = {}
    <2> SUFFICES ASSUME NEW n \in fresh PROVE Waiting(n)' = {}
      OBVIOUS
    <2>1. Waiting(n)' \in SUBSET Waiting(n)
      BY <1>7
    <2>2. IsFiniteSet(Waiting(n)')
      BY <1>8, <2>1, FS_Subset
    <2> QED BY <1>9, <2>2, FS_EmptySet
  <1>11. \A n \in fresh : Waiting(n) # {}
    BY <1>7
  <1>12. \A i \in DOMAIN order : Waiting(order[i]) = {}
    <2> SUFFICES ASSUME NEW i \in DOMAIN order, NEW e \in Into(order[i]) PROVE e[1] \in Visited
      BY DEF Waiting
    <2>1. PICK j \in 1..(i - 1) : order[j] = e[1]
      BY DEF SortInv, InputsFirst
    <2>2. j \in DOMAIN order
      BY <1>2, <2>1
    <2> QED BY <2>1, <2>2 DEF Visited, Range_
  <1>13. fresh \cap (Range_(queue) \cup Visited \cup {current}) = {}
    <2>1. \A n \in Visited : Waiting(n) = {}
      BY <1>12 DEF Visited, Range_
    <2>2. \A n \in Range_(queue) : Waiting(n) = {}
      BY DEF Range_, SortInv, Ready
    <2> QED BY <1>4, <1>11, <2>1, <2>2
  <1>14. Range_(Tail(queue)) \subseteq Range_(queue) \ {current} /\ Distinct(Tail(queue))
    <2>1. \A i \in DOMAIN Tail(queue) : i + 1 \in DOMAIN queue /\ Tail(queue)[i] = queue[i + 1]
                                        /\ i + 1 # 1
      BY <1>2, <1>3
    <2>2. \A i \in DOMAIN Tail(queue) : Tail(queue)[i] \in Range_(queue) /\ Tail(queue)[i] # current
      BY <1>2, <1>3, <2>1 DEF Range_, Distinct
    <2>3. Distinct(Tail(queue))
      <3> SUFFICES ASSUME NEW i \in DOMAIN Tail(queue), NEW j \in DOMAIN Tail(queue),
                          Tail(queue)[i] = Tail(queue)[j]
                   PROVE  i = j
        BY DEF Distinct
      <3>1. queue[i + 1] = queue[j + 1]
        BY <2>1
      <3>2. i + 1 = j + 1
        BY <1>2, <2>1, <3>1 DEF Distinct
      <3>3. i \in Nat /\ j \in Nat
        BY <1>3
      <3> QED BY <3>2, <3>3
    <2> QED BY <2>2, <2>3 DEF Range_
  <1>15. /\ queue' \in Seq(Nodes)
         /\ Range_(queue') = Range_(Tail(queue)) \cup fresh
         /\ Distinct(queue')
    <2>1. Range_(Tail(queue)) \cap fresh = {}
      BY <1>13, <1>14
    <2>2. fresh \in SUBSET Nodes
      OBVIOUS
    <2> HIDE DEF fresh, current
    <2> QED BY <1>1, <1>3, <1>14, <2>1, <2>2, AppendedFacts
  <1>16. \A n \in Range_(queue') : Waiting(n)' = {} /\ n \notin Visited'
    <2>1. \A n \in Range_(Tail(queue)) : Waiting(n) = {} /\ n \notin Visited /\ n # current
      BY <1>14 DEF Range_, SortInv, Ready
    <2>2. \A n \in Range_(Tail(queue)) : Waiting(n)' = {}
      BY <1>7, <2>1
    <2>3. \A n \in fresh : n \notin Visited'
      BY <1>6, <1>13
    <2> QED BY <1>6, <1>10, <1>15, <2>1, <2>2, <2>3
  <1>17. Shape'
    <2>1. \A n \in Nodes : Cardinality(Waiting(n)') \in Nat
      <3> TAKE n \in Nodes
      <3>1. Waiting(n)' \in SUBSET Waiting(n)
        BY <1>7
      <3> QED BY <1>8, <3>1, FS_Subset, FS_CardinalityType
    <2>2. degree' \in [Nodes -> Nat]
      <3>1. \A n \in Nodes : degree'[n] \in Nat
        BY <1>9, <2>1
      <3> HIDE DEF hits
      <3> QED BY <1>1, <3>1
    <2> QED BY <1>1, <1>2, <1>5, <1>15, <2>2 DEF Shape
  <1>18. Counted'
    BY <1>9 DEF Counted
  <1>19. Ready'
    BY <1>15, <1>16 DEF Ready, Range_
  <1>20. Started'
    BY <1>1 DEF Started
  <1>21. InputsFirst'
    <2>1. Distinct(order')
      <3> SUFFICES ASSUME NEW i \in DOMAIN order', NEW j \in DOMAIN order', order'[i] = order'[j]
                   PROVE  i = j
        BY DEF Distinct
      <3>1. \A k \in DOMAIN order' : k \in DOMAIN order \/ k = Len(order) + 1
        BY <1>d
      <3>2. \A k \in DOMAIN order : order'[k] = order[k] /\ order'[k] # current
        BY <1>4, <1>5, <1>d DEF Visited, Range_
      <3> QED BY <1>2, <1>5, <3>1, <3>2 DEF Distinct
    <2>2. ASSUME NEW i \in DOMAIN order', NEW e \in Into(order'[i])
          PROVE  \E j \in 1..(i - 1) : order'[j] = e[1]
      <3>1. CASE i = Len(order) + 1
        <4>1. e[1] \in Visited
          BY <1>4, <1>5, <2>2, <3>1 DEF Waiting
        <4>2. PICK j \in DOMAIN order : order[j] = e[1]
          BY <4>1 DEF Visited, Range_
        <4>3. order'[j] = e[1] /\ j \in 1..(i - 1)
          BY <1>5, <1>d, <3>1, <4>2
        <4> QED BY <4>3
      <3>2. CASE i \in DOMAIN order
        <4>1. order'[i] = order[i]
          BY <1>5, <1>d, <3>2
        <4>2. PICK j \in 1..(i - 1) : order[j] = e[1]
          BY <2>2, <3>2, <4>1 DEF SortInv, InputsFirst
        <4>3. j \in 1..Len(order)
          BY <1>d, <3>2
        <4> QED BY <1>5, <4>2, <4>3
      <3> QED BY <1>d, <3>1, <3>2
    <2>3. \A n : Into(n)' = Into(n)
      BY <1>1 DEF Into
    <2> QED BY <2>1, <2>2, <2>3 DEF InputsFirst
  <1>22. Sized'
    <2>1. Seen' = Seen
      BY <1>1 DEF Seen
    <2>2. IsFiniteSet(Visited') /\ Cardinality(Visited') = Len(order')
      BY <1>4, <1>5, <1>6, FS_AddElement DEF SortInv, Sized
    <2>3. fresh \subseteq Seen
      BY DEF Into, Seen
    <2>4. current \in Seen /\ Range_(Tail(queue)) \subseteq Seen
      BY <1>3, <1>14 DEF SortInv, Sized, Range_
    <2>5. Visited' \cup Range_(queue') \subseteq Seen
      BY <1>6, <1>15, <2>3, <2>4 DEF SortInv, Sized
    <2> QED BY <2>1, <2>2, <2>5 DEF Sized
  <1> QED BY <1>17, <1>18, <1>19, <1>20, <1>21, <1>22 DEF SortInv

(* What the other steps leave alone.                                       *)
LEMMA SortRest ==
    ASSUME SortInv, UNCHANGED <<graph, degree, queue, order>>,
           phase \notin {"new", "undefined"} \/ phase' = phase, phase' # "new" \/ phase' = phase
    PROVE  SortInv'
  <1>1. Visited' = Visited /\ Seen' = Seen /\ Range_(queue') = Range_(queue)
    BY DEF Visited, Range_, Seen
  <1>2. \A n : Into(n)' = Into(n) /\ Waiting(n)' = Waiting(n)
    BY <1>1 DEF Into, Waiting
  <1>3. Shape' /\ Started' /\ Sized'
    BY <1>1 DEF SortInv, Shape, Started, Sized
  <1>4. Counted'
    BY <1>2 DEF SortInv, Counted
  <1>5. Ready'
    BY <1>1, <1>2 DEF SortInv, Ready, Distinct
  <1>6. InputsFirst'
    BY <1>2 DEF SortInv, InputsFirst, Distinct
  <1> QED BY <1>3, <1>4, <1>5, <1>6 DEF SortInv

LEMMA SortNext == SortInv /\ [WorkflowNext]_workflowVars => SortInv'
  <1> SUFFICES ASSUME SortInv, [WorkflowNext]_workflowVars PROVE SortInv'
    OBVIOUS
  <1>1. CASE Validate
    BY <1>1, SortValidate
  <1>2. CASE Visit
    BY <1>2, SortVisit
  <1>3. CASE Sorted
    BY <1>3, SortRest DEF Sorted
  <1>4. CASE LoadModules
    BY <1>4, SortRest DEF LoadModules
  <1>5. CASE Evaluate
    BY <1>5, SortRest DEF Evaluate
  <1>6. CASE Answer
    BY <1>6, SortRest DEF Answer
  <1>7. CASE UNCHANGED workflowVars
    BY <1>7, SortRest DEF workflowVars
  <1> QED BY <1>1, <1>2, <1>3, <1>4, <1>5, <1>6, <1>7 DEF WorkflowNext

-----------------------------------------------------------------------------
(* What has run is the first part of the order, and an accepted graph has  *)
(* been visited as a whole.                                                *)
Ran ==
    /\ IsFiniteSet(outputs) /\ Cardinality(outputs) <= Len(order)
    /\ outputs = {order[i] : i \in 1..Cardinality(outputs)}
Phases == {"new", "undefined", "sorting", "cyclic", "loading", "unloadable", "running",
           "raised", "keyError", "noSink", "notRun", "answered"}
RunInv ==
    /\ SortInv
    /\ Ran
    /\ phase \in Phases
    /\ ~Accepted => outputs = {}
    /\ Accepted => Visited = Seen
    /\ outputs \subseteq Modules
    /\ answer \subseteq graph.keys
    /\ FailsOnlyWhenUnsound

(* Nothing has run while the graph is sorted.                              *)
LEMMA NothingRan == ASSUME outputs = {}, order \in Seq(Nodes) PROVE Ran
  <1>1. IsFiniteSet(outputs) /\ Cardinality(outputs) = 0 /\ Len(order) \in Nat
    BY FS_EmptySet, LenProperties
  <1>2. 1..0 = {}
    OBVIOUS
  <1> QED BY <1>1, <1>2 DEF Ran

LEMMA RunInit == WorkflowInit => RunInv
  <1> SUFFICES ASSUME WorkflowInit PROVE RunInv
    OBVIOUS
  <1>1. SortInv
    BY SortInit
  <1>2. Ran
    BY <1>1, NothingRan DEF WorkflowInit, SortInv, Shape
  <1> QED BY <1>1, <1>2 DEF WorkflowInit, RunInv, Phases, Accepted, FailsOnlyWhenUnsound

(* Steps of the constructor up to the end of the sort.                     *)
LEMMA RunSort ==
    ASSUME RunInv, SortInv', graph' = graph, outputs' = outputs, answer' = answer,
           ~Accepted, phase' \in {"undefined", "sorting", "cyclic"}
    PROVE  RunInv'
  <1>1. Ran'
    <2>1. outputs' = {} /\ order' \in Seq(Nodes)
      BY DEF RunInv, SortInv, Shape
    <2>2. IsFiniteSet(outputs') /\ Cardinality(outputs') = 0 /\ Len(order') \in Nat
      BY <2>1, FS_EmptySet, LenProperties
    <2>3. 1..Cardinality(outputs') = {}
      BY <2>2
    <2>4. {order'[i] : i \in 1..Cardinality(outputs')} = {}
      BY <2>3
    <2> QED BY <2>1, <2>2, <2>4 DEF Ran
  <1> QED BY <1>1 DEF RunInv, Phases, Accepted, FailsOnlyWhenUnsound

LEMMA RunSorted == ASSUME RunInv, Sorted PROVE RunInv'
  <1>1. SortInv'
    BY SortNext DEF RunInv, WorkflowNext
  <1>2. CASE phase' = "cyclic"
    BY <1>1, <1>2, RunSort DEF Sorted, Accepted
  <1>3. CASE phase' = "loading"
    <2>1. /\ Len(order) = Cardinality(Seen) /\ UNCHANGED <<graph, order, outputs, answer>>
          /\ phase = "sorting"
      BY <1>3 DEF Sorted
    <2>2. Visited \in SUBSET Seen /\ Cardinality(Visited) = Len(order) /\ graph \in Graphs
      BY DEF RunInv, SortInv, Sized, Shape
    <2>3. Visited = Seen
      BY <2>1, <2>2, GraphFacts, FS_Subset
    <2>4. Visited' = Visited /\ Seen' = Seen /\ Ran'
      BY <2>1 DEF Visited, Seen, Ran, RunInv, Range_
    <2> QED BY <1>1, <1>3, <2>1, <2>3, <2>4 DEF RunInv, Phases, Accepted, FailsOnlyWhenUnsound
  <1> QED BY <1>2, <1>3 DEF Sorted

(* The next module is none of those that have run.                         *)
LEMMA RunEvaluate == ASSUME RunInv, Evaluate PROVE RunInv'
  <1>1. SortInv'
    BY SortNext DEF RunInv, WorkflowNext
  <1> DEFINE n == Cardinality(outputs)
  <1>2. /\ phase = "running" /\ n < Len(order) /\ UNCHANGED <<graph, order, answer>>
        /\ IsFiniteSet(outputs) /\ n \in Nat /\ outputs = {order[i] : i \in 1..n}
        /\ order \in Seq(Nodes) /\ Distinct(order) /\ Visited = Seen
    BY FS_CardinalityType DEF RunInv, Evaluate, Ran, SortInv, Shape, InputsFirst, Accepted
  <1>3. DOMAIN order = 1..Len(order) /\ Len(order) \in Nat /\ n + 1 \in DOMAIN order
    BY <1>2, LenProperties
  <1>4. Visited' = Visited /\ Seen' = Seen /\ Sinks' = Sinks
    BY <1>2 DEF Visited, Seen, Range_, Sinks, Out
  <1>5. CASE outputs' = outputs \cup {Next_} /\ phase' = phase /\ Next_ \in Modules
    <2>1. Next_ \notin outputs
      BY <1>2, <1>3 DEF Next_, Distinct
    <2>2. IsFiniteSet(outputs') /\ Cardinality(outputs') = n + 1
      BY <1>2, <1>5, <2>1, FS_AddElement
    <2>3. outputs' = {order[i] : i \in 1..(n + 1)}
      <3>1. 1..(n + 1) = (1..n) \cup {n + 1}
        BY <1>2
      <3> HIDE DEF n
      <3>2. {order[i] : i \in 1..(n + 1)} = {order[i] : i \in 1..n} \cup {order[n + 1]}
        BY <3>1
      <3>3. Next_ = order[n + 1]
        BY DEF Next_, n
      <3> QED BY <1>2, <1>5, <3>2, <3>3
    <2>4. Ran'
      <3>1. n + 1 <= Len(order)
        BY <1>2, <1>3
      <3> HIDE DEF n
      <3> QED BY <1>2, <2>2, <2>3, <3>1 DEF Ran
    <2> QED BY <1>1, <1>2, <1>4, <1>5, <2>4 DEF RunInv, Phases, Accepted, FailsOnlyWhenUnsound
  <1>6. CASE outputs' = outputs /\ phase' = "raised"
    <2>1. Ran'
      BY <1>2, <1>6 DEF Ran, RunInv
    <2> QED BY <1>1, <1>2, <1>4, <1>6, <2>1 DEF RunInv, Phases, Accepted, FailsOnlyWhenUnsound
  <1>7. CASE outputs' = outputs /\ phase' = "keyError" /\ Next_ \notin Modules
    <2>1. Ran'
      BY <1>2, <1>7 DEF Ran, RunInv
    <2>2. Next_ \in Seen
      BY <1>2, <1>3 DEF Next_, Visited, Range_
    <2> QED BY <1>1, <1>2, <1>4, <1>7, <2>1, <2>2 DEF RunInv, Phases, Accepted, FailsOnlyWhenUnsound
  <1> QED BY <1>5, <1>6, <1>7 DEF Evaluate

LEMMA RunAnswer == ASSUME RunInv, Answer PROVE RunInv'
  <1>1. SortInv'
    BY SortNext DEF RunInv, WorkflowNext
  <1>2. /\ phase = "running" /\ UNCHANGED <<graph, order, outputs>>
        /\ Cardinality(outputs) = Len(order) /\ outputs = {order[i] : i \in 1..Len(order)}
        /\ order \in Seq(Nodes) /\ Visited = Seen
    BY DEF RunInv, Answer, Ran, SortInv, Shape, Accepted
  <1>3. outputs = Seen
    BY <1>2, LenProperties DEF Visited, Range_
  <1>4. Visited' = Visited /\ Seen' = Seen /\ Sinks' = Sinks /\ Ran'
    BY <1>2 DEF Visited, Seen, Range_, Sinks, Out, Ran, RunInv
  <1>5. Sinks \subseteq graph.keys
    BY DEF Sinks
  <1>6. phase' \in {"noSink", "notRun", "answered"}
    BY DEF Answer
  <1>7. phase' # "answered" => answer' = answer
    BY DEF Answer
  <1>8. phase' = "answered" => answer' \subseteq Sinks \cap outputs
    BY DEF Answer
  <1>9. (phase' = "noSink" => Sinks = {}) /\ (phase' = "notRun" => \E k \in Sinks : k \notin outputs)
    BY DEF Answer
  <1>10. FailsOnlyWhenUnsound'
    BY <1>2, <1>3, <1>4, <1>6, <1>8, <1>9 DEF FailsOnlyWhenUnsound
  <1>11. answer' \subseteq graph'.keys
    BY <1>2, <1>5, <1>6, <1>7, <1>8 DEF RunInv
  <1> QED BY <1>1, <1>2, <1>4, <1>6, <1>10, <1>11 DEF RunInv, Phases, Accepted

LEMMA RunNext == RunInv /\ [WorkflowNext]_workflowVars => RunInv'
  <1> SUFFICES ASSUME RunInv, [WorkflowNext]_workflowVars PROVE RunInv'
    OBVIOUS
  <1>0. SortInv'
    BY SortNext DEF RunInv
  <1>1. CASE Validate
    BY <1>0, <1>1, RunSort DEF Validate, Accepted
  <1>2. CASE Visit
    BY <1>0, <1>2, RunSort DEF Visit, Accepted
  <1>3. CASE Sorted
    BY <1>3, RunSorted
  <1>4. CASE LoadModules
    <2>1. UNCHANGED <<graph, order, outputs, answer>> /\ phase = "loading"
          /\ phase' \in {"running", "unloadable"}
      BY <1>4 DEF LoadModules
    <2>2. Visited' = Visited /\ Seen' = Seen /\ Ran'
      BY <2>1 DEF Visited, Seen, Range_, Ran, RunInv
    <2> QED BY <1>0, <2>1, <2>2 DEF RunInv, Phases, Accepted, FailsOnlyWhenUnsound
  <1>5. CASE Evaluate
    BY <1>5, RunEvaluate
  <1>6. CASE Answer
    BY <1>6, RunAnswer
  <1>7. CASE UNCHANGED workflowVars
    BY <1>0, <1>7 DEF workflowVars, RunInv, Ran, Visited, Seen, Range_, Accepted,
                      FailsOnlyWhenUnsound, Sinks, Out
  <1> QED BY <1>1, <1>2, <1>3, <1>4, <1>5, <1>6, <1>7 DEF WorkflowNext

LEMMA RunIsInvariant == WorkflowSpec => []RunInv
  BY RunInit, RunNext, PTL DEF WorkflowSpec

-----------------------------------------------------------------------------
(* Type correctness.                                                       *)
THEOREM WorkflowTypes == WorkflowSpec => []WorkflowTypeOK
  <1>1. RunInv => WorkflowTypeOK
    BY GraphFacts, WorkflowConstants
       DEF RunInv, SortInv, Shape, Phases, WorkflowTypeOK
  <1> QED BY <1>1, RunIsInvariant, PTL

(* No node is visited before a node that feeds it, and none twice.         *)
THEOREM VisitsInOrder == WorkflowSpec => []InputsFirst
  <1>1. RunInv => InputsFirst
    BY DEF RunInv, SortInv
  <1> QED BY <1>1, RunIsInvariant, PTL

(* A module runs on the outputs of all modules that feed it.               *)
THEOREM InputsAreThere == WorkflowSpec => []RunsOnItsInputs
  <1>1. RunInv => RunsOnItsInputs
    <2> SUFFICES ASSUME RunInv, NEW m \in outputs, NEW e \in Into(m) PROVE e[1] \in outputs
      BY DEF RunsOnItsInputs
    <2> DEFINE n == Cardinality(outputs)
    <2>1. /\ n \in Nat /\ n <= Len(order) /\ outputs = {order[i] : i \in 1..n}
          /\ DOMAIN order = 1..Len(order) /\ Len(order) \in Nat
      BY FS_CardinalityType, LenProperties DEF RunInv, Ran, SortInv, Shape
    <2>2. PICK i \in 1..n : m = order[i]
      BY <2>1
    <2>3. PICK j \in 1..(i - 1) : order[j] = e[1]
      BY <2>1, <2>2 DEF RunInv, SortInv, InputsFirst
    <2> QED BY <2>1, <2>2, <2>3
  <1> QED BY <1>1, RunIsInvariant, PTL

(* A workflow that is accepted fails only for the reasons that are listed, *)
(* and an answer comes when every node of the graph has run.               *)
THEOREM FailuresAreUnsound == WorkflowSpec => []FailsOnlyWhenUnsound
  <1>1. RunInv => FailsOnlyWhenUnsound
    BY DEF RunInv
  <1> QED BY <1>1, RunIsInvariant, PTL

-----------------------------------------------------------------------------
(* A node that is neither visited nor in the queue waits for another, and  *)
(* the sort ends when the queue is empty.                                  *)
NoneForgotten ==
    phase \in {"sorting", "cyclic"} =>
        \A n \in Seen : n \in Visited \/ n \in Range_(queue) \/ Waiting(n) # {}
Refused == phase = "cyclic" => queue = <<>> /\ Len(order) # Cardinality(Seen)
CycleInv == RunInv /\ NoneForgotten /\ Refused

LEMMA CycleInit == WorkflowInit => CycleInv
  <1> SUFFICES ASSUME WorkflowInit PROVE CycleInv
    OBVIOUS
  <1>1. RunInv
    BY RunInit
  <1> QED BY <1>1 DEF WorkflowInit, CycleInv, NoneForgotten, Refused

(* The queue starts with all nodes that nothing feeds.                     *)
LEMMA CycleValidate == ASSUME CycleInv, RunInv', Validate PROVE CycleInv'
  <1>1. CASE phase' = "undefined"
    BY <1>1 DEF CycleInv, NoneForgotten, Refused
  <1>2. CASE phase' = "sorting"
    <2>1. /\ queue = <<>> /\ order = <<>> /\ order' = order /\ graph' = graph
          /\ degree' = [n \in Nodes |-> Cardinality(Into(n))]
          /\ queue' \in Appended(<<>>, {n \in Seen : degree'[n] = 0})
      BY <1>2 DEF Validate, CycleInv, RunInv, SortInv, Started
    <2>2. graph \in Graphs
      BY DEF CycleInv, RunInv, SortInv, Shape
    <2>3. Visited' = {} /\ Seen' = Seen
      BY <2>1 DEF Visited, Range_, Seen
    <2>4. \A n : Waiting(n)' = Into(n)
      BY <2>1, <2>3 DEF Waiting, Into
    <2> DEFINE first == {n \in Seen : degree'[n] = 0}
    <2>5. first \in SUBSET Nodes /\ Seen \subseteq Nodes
      BY <2>2, GraphFacts
    <2>6. Range_(queue') = Range_(<<>>) \cup first
      <3>1. queue' \in Appended(<<>>, first) /\ <<>> \in Seq(Nodes)
        BY <2>1
      <3> HIDE DEF first
      <3> QED BY <2>5, <3>1, AppendedFacts
    <2>7. \A n \in Seen : n \in first \/ Into(n) # {}
      <3>1. Cardinality({}) = 0
        BY FS_EmptySet
      <3> QED BY <2>1, <2>5, <3>1
    <2> QED BY <1>2, <2>3, <2>4, <2>6, <2>7 DEF CycleInv, NoneForgotten, Refused
  <1> QED BY <1>1, <1>2 DEF Validate

(* A node whose last source is visited enters the queue.                   *)
LEMMA CycleVisit == ASSUME CycleInv, RunInv', Visit PROVE CycleInv'
  <1> DEFINE current == Head(queue)
             hits(n) == Into(n) \cap Out(current)
             fresh == {n \in Nodes : hits(n) # {} /\ degree'[n] = 0}
  <1>1. /\ phase = "sorting" /\ phase' = phase /\ graph' = graph
        /\ queue # <<>> /\ queue \in Seq(Nodes)
        /\ order' = Append(order, current) /\ order \in Seq(Nodes)
        /\ queue' \in Appended(Tail(queue), fresh)
        /\ graph \in Graphs
    BY DEF Visit, CycleInv, RunInv, SortInv, Shape
  <1>2. Tail(queue) \in Seq(Nodes) /\ current \in Nodes
    BY <1>1
  <1>3. Range_(queue') = Range_(Tail(queue)) \cup fresh
    <2>1. fresh \in SUBSET Nodes
      OBVIOUS
    <2> HIDE DEF fresh, current
    <2> QED BY <1>1, <1>2, <2>1, AppendedFacts
  <1>4. Visited' = Visited \cup {current}
    <2>1. /\ DOMAIN order' = 1..(Len(order) + 1) /\ DOMAIN order = 1..Len(order)
          /\ Len(order) \in Nat
          /\ \A i \in DOMAIN order : order'[i] = order[i]
          /\ order'[Len(order) + 1] = current
      <3> HIDE DEF current
      <3>1. /\ order' \in Seq(Nodes) /\ Len(order') = Len(order) + 1
            /\ \A i \in 1..Len(order) : order'[i] = order[i]
            /\ order'[Len(order) + 1] = current
        BY <1>1, <1>2
      <3> QED BY <1>1, <3>1, LenProperties
    <2> HIDE DEF current
    <2>2. \A i \in DOMAIN order' : i \in DOMAIN order \/ i = Len(order) + 1
      BY <2>1
    <2>3. DOMAIN order \subseteq DOMAIN order' /\ Len(order) + 1 \in DOMAIN order'
      BY <2>1
    <2> QED BY <2>1, <2>2, <2>3 DEF Visited, Range_
  <1>5. Range_(queue) \subseteq Range_(Tail(queue)) \cup {current}
    <2> SUFFICES ASSUME NEW i \in DOMAIN queue, queue[i] # current
                 PROVE  queue[i] \in Range_(Tail(queue))
      BY DEF Range_
    <2>1. /\ i - 1 \in 1..(Len(queue) - 1) /\ Len(Tail(queue)) = Len(queue) - 1
          /\ \A j \in 1..Len(Tail(queue)) : Tail(queue)[j] = queue[j + 1]
      BY <1>1
    <2>2. i - 1 \in DOMAIN Tail(queue) /\ Tail(queue)[i - 1] = queue[i]
      BY <1>1, <1>2, <2>1, LenProperties
    <2> QED BY <2>2 DEF Range_
  <1>6. Seen' = Seen /\ Seen \subseteq Nodes /\ \A n : Into(n)' = Into(n)
    BY <1>1, GraphFacts DEF Seen, Into
  <1>7. ASSUME NEW n \in Seen, Waiting(n) # {} PROVE Waiting(n)' # {} \/ n \in fresh
    <2> SUFFICES ASSUME Waiting(n)' = {} PROVE n \in fresh
      OBVIOUS
    <2>1. PICK e \in Into(n) : e[1] \notin Visited
      BY <1>7 DEF Waiting
    <2>2. e[1] = current
      BY <1>4, <1>6, <2>1 DEF Waiting
    <2>3. hits(n) # {}
      BY <2>1, <2>2 DEF Into, Out
    <2>4. degree'[n] = Cardinality(Waiting(n)')
      BY <1>1, <1>6 DEF RunInv, SortInv, Counted
    <2>5. degree'[n] = 0
      BY <2>4, FS_EmptySet
    <2> QED BY <1>6, <2>3, <2>5
  <1>8. NoneForgotten'
    <2> SUFFICES ASSUME NEW n \in Seen
                 PROVE  n \in Visited' \/ n \in Range_(queue') \/ Waiting(n)' # {}
      BY <1>6 DEF NoneForgotten
    <2>1. n \in Visited \/ n \in Range_(queue) \/ Waiting(n) # {}
      BY <1>1 DEF CycleInv, NoneForgotten
    <2> QED BY <1>3, <1>4, <1>5, <1>7, <2>1
  <1>9. Refused'
    BY <1>1 DEF Refused
  <1> QED BY <1>8, <1>9 DEF CycleInv

LEMMA CycleNext == CycleInv /\ [WorkflowNext]_workflowVars => CycleInv'
  <1> SUFFICES ASSUME CycleInv, [WorkflowNext]_workflowVars PROVE CycleInv'
    OBVIOUS
  <1>0. RunInv'
    BY RunNext DEF CycleInv
  <1>1. CASE Validate
    BY <1>0, <1>1, CycleValidate
  <1>2. CASE Visit
    BY <1>0, <1>2, CycleVisit
  <1>3. CASE Sorted
    <2>1. /\ phase = "sorting" /\ queue = <<>> /\ UNCHANGED <<graph, queue, order>>
          /\ phase' = "loading" \/ phase' = "cyclic"
          /\ phase' = "cyclic" => Len(order) # Cardinality(Seen)
      BY <1>3 DEF Sorted
    <2>2. Visited' = Visited /\ Seen' = Seen /\ \A n : Waiting(n)' = Waiting(n)
      BY <2>1 DEF Visited, Seen, Waiting, Into, Range_
    <2> QED BY <1>0, <2>1, <2>2 DEF CycleInv, NoneForgotten, Refused
  <1>4. CASE LoadModules
    BY <1>0, <1>4 DEF LoadModules, CycleInv, NoneForgotten, Refused
  <1>5. CASE Evaluate
    BY <1>0, <1>5 DEF Evaluate, CycleInv, NoneForgotten, Refused
  <1>6. CASE Answer
    BY <1>0, <1>6 DEF Answer, CycleInv, NoneForgotten, Refused
  <1>7. CASE UNCHANGED workflowVars
    <2>1. phase' = phase /\ UNCHANGED <<graph, queue, order>>
      BY <1>7 DEF workflowVars
    <2>2. /\ Visited' = Visited /\ Seen' = Seen /\ Range_(queue') = Range_(queue)
          /\ \A n : Waiting(n)' = Waiting(n)
      BY <2>1 DEF Visited, Seen, Waiting, Into, Range_
    <2> QED BY <1>0, <2>1, <2>2 DEF CycleInv, NoneForgotten, Refused
  <1> QED BY <1>1, <1>2, <1>3, <1>4, <1>5, <1>6, <1>7 DEF WorkflowNext

LEMMA CycleIsInvariant == WorkflowSpec => []CycleInv
  BY CycleInit, CycleNext, PTL DEF WorkflowSpec

(* Behind a node in the order is all that it can reach.                    *)
LEMMA OrderHasNoCycle ==
    ASSUME SortInv, Visited = Seen
    PROVE  ~HasCycle
  <1> SUFFICES ASSUME NEW n \in Nodes, n \in Reachable(n) PROVE FALSE
    BY DEF HasCycle
  <1>1. graph \in Graphs /\ order \in Seq(Nodes) /\ Distinct(order) /\ InputsFirst
    BY DEF SortInv, Shape, InputsFirst
  <1>2. DOMAIN order = 1..Len(order) /\ Len(order) \in Nat
    BY <1>1, LenProperties
  <1>3. \A set \in SUBSET Nodes : Targets(set \cup {n}) \subseteq set => n \in set
    BY DEF Reachable
  <1>4. CASE n \notin Visited
    <2>1. Targets({} \cup {n}) \subseteq {}
      BY <1>4 DEF Targets, Seen
    <2> QED BY <1>3, <2>1
  <1>5. CASE n \in Visited
    <2>1. PICK i \in DOMAIN order : n = order[i]
      BY <1>5 DEF Visited, Range_
    <2> DEFINE behind == {order[j] : j \in (i + 1)..Len(order)}
    <2>2. behind \in SUBSET Nodes
      <3> SUFFICES ASSUME NEW j \in (i + 1)..Len(order) PROVE order[j] \in Nodes
        OBVIOUS
      <3>1. j \in DOMAIN order
        BY <1>2
      <3> QED BY <1>1, <1>2, <3>1, ElementOfSeq
    <2>3. n \notin behind
      <3> SUFFICES ASSUME NEW j \in (i + 1)..Len(order), order[j] = order[i] PROVE FALSE
        BY <2>1
      <3>1. j \in DOMAIN order /\ j # i
        BY <1>2
      <3> QED BY <1>1, <3>1 DEF Distinct
    <2>4. Targets(behind \cup {n}) \subseteq behind
      <3> SUFFICES ASSUME NEW e \in graph.edges, e[1] \in behind \cup {n} PROVE e[2] \in behind
        BY DEF Targets
      <3>1. PICK j \in DOMAIN order : e[2] = order[j]
        BY DEF Visited, Range_, Seen
      <3>2. e \in Into(order[j])
        BY <3>1 DEF Into
      <3>3. PICK k \in 1..(j - 1) : order[k] = e[1]
        BY <1>1, <3>2 DEF InputsFirst
      <3>4. PICK l \in i..Len(order) : order[l] = e[1]
        BY <1>2, <2>1
      <3>5. k \in DOMAIN order /\ l \in DOMAIN order
        BY <1>2, <3>1
      <3>6. k = l
        BY <1>1, <3>3, <3>4, <3>5 DEF Distinct
      <3>7. j \in (i + 1)..Len(order)
        BY <1>2, <3>6
      <3> QED BY <3>1, <3>7
    <2> QED BY <1>3, <2>2, <2>3, <2>4
  <1> QED BY <1>4, <1>5

(* What is reached along an edge is reached from its source.               *)
LEMMA ReachedThrough ==
    ASSUME graph \in Graphs, NEW e \in graph.edges
    PROVE  Reachable(e[2]) \cup {e[2]} \subseteq Reachable(e[1])
  <1>0. e[2] \in Nodes
    BY GraphFacts
  <1>1. ASSUME NEW set \in SUBSET Nodes, Targets(set \cup {e[1]}) \subseteq set
        PROVE  e[2] \in set /\ Targets(set \cup {e[2]}) \subseteq set
    <2>1. e[2] \in set
      BY <1>1 DEF Targets
    <2> QED BY <1>1, <2>1 DEF Targets
  <1>2. e[2] \in Reachable(e[1])
    BY <1>0, <1>1 DEF Reachable
  <1>3. ASSUME NEW m \in Reachable(e[2]) PROVE m \in Reachable(e[1])
    BY <1>1 DEF Reachable
  <1> QED BY <1>2, <1>3

(* A set of nodes none of which lacks a source in the set has a cycle: the *)
(* nodes that a node can reach grow with each step back along an edge.     *)
LEMMA FedFromWithin ==
    ASSUME graph \in Graphs, NEW U \in SUBSET Nodes, U # {},
           \A u \in U : \E e \in graph.edges : e[2] = u /\ e[1] \in U
    PROVE  HasCycle
  <1> SUFFICES ASSUME ~HasCycle PROVE FALSE
    OBVIOUS
  <1>1. ASSUME NEW n \in Nodes
        PROVE  /\ IsFiniteSet(Reachable(n)) /\ Cardinality(Reachable(n)) \in Nat
               /\ Cardinality(Reachable(n)) <= Cardinality(Nodes)
    <2>1. Reachable(n) \in SUBSET Nodes
      BY DEF Reachable
    <2> QED BY <2>1, WorkflowConstants, FS_Subset, FS_CardinalityType
  <1>2. Cardinality(Nodes) \in Nat
    BY WorkflowConstants, FS_CardinalityType
  <1> DEFINE rest(n) == Cardinality(Nodes) - Cardinality(Reachable(n))
             rests == {rest(n) : n \in U}
  <1>3. rests \in SUBSET Nat /\ rests # {}
    <2>1. \A n \in U : rest(n) \in Nat
      BY <1>1, <1>2
    <2> QED BY <2>1
  <1>4. PICK k \in rests : \A l \in rests : k <= l
    <2> HIDE DEF rests
    <2> QED BY <1>3, LeastNumber
  <1>5. PICK u \in U : k = rest(u)
    OBVIOUS
  <1>6. PICK e \in graph.edges : e[2] = u /\ e[1] \in U
    OBVIOUS
  <1>7. Reachable(u) \cup {u} \subseteq Reachable(e[1])
    BY <1>6, ReachedThrough
  <1>8. u \notin Reachable(u)
    BY DEF HasCycle
  <1>9. Cardinality(Reachable(u) \cup {u}) = Cardinality(Reachable(u)) + 1
    BY <1>1, <1>8, FS_AddElement
  <1>10. Cardinality(Reachable(u) \cup {u}) <= Cardinality(Reachable(e[1]))
    BY <1>1, <1>6, <1>7, FS_Subset
  <1>11. rest(e[1]) < rest(u)
    BY <1>1, <1>2, <1>6, <1>9, <1>10
  <1>12. rest(e[1]) \in rests
    BY <1>6
  <1> QED BY <1>3, <1>4, <1>5, <1>11, <1>12

LEMMA RefusedHasCycle == ASSUME CycleInv, phase = "cyclic" PROVE HasCycle
  <1> DEFINE U == Seen \ Visited
  <1>1. graph \in Graphs /\ Range_(queue) = {}
    BY DEF CycleInv, RunInv, SortInv, Shape, Refused, Range_
  <1>2. U \in SUBSET Nodes
    BY <1>1, GraphFacts
  <1>3. U # {}
    <2>1. Visited \subseteq Seen /\ Cardinality(Visited) = Len(order)
      BY DEF CycleInv, RunInv, SortInv, Sized
    <2>2. Visited # Seen
      BY <2>1 DEF CycleInv, Refused
    <2> QED BY <2>1, <2>2
  <1>4. ASSUME NEW u \in U PROVE \E e \in graph.edges : e[2] = u /\ e[1] \in U
    <2>1. PICK e \in Into(u) : e[1] \notin Visited
      BY <1>1 DEF CycleInv, NoneForgotten, Waiting
    <2> QED BY <2>1 DEF Into, Seen
  <1> HIDE DEF U
  <1> QED BY <1>1, <1>2, <1>3, <1>4, FedFromWithin

(* The constructor refuses a graph exactly when it has a cycle, whatever   *)
(* the graph, however often its lists mention a target and in whatever     *)
(* order dictionaries and lists are read.                                  *)
THEOREM CyclesAreRefused == WorkflowSpec => []OnlyCyclesRefused
  <1>1. CycleInv => OnlyCyclesRefused
    <2> SUFFICES ASSUME CycleInv PROVE OnlyCyclesRefused
      OBVIOUS
    <2>1. Accepted => ~HasCycle
      BY OrderHasNoCycle DEF CycleInv, RunInv
    <2>2. phase = "cyclic" => HasCycle
      BY RefusedHasCycle
    <2> QED BY <2>1, <2>2 DEF OnlyCyclesRefused
  <1> QED BY <1>1, CycleIsInvariant, PTL

-----------------------------------------------------------------------------
(* Lists: what stands at their head, behind it and at their end.           *)
LEMMA TakenOff ==
    ASSUME NEW S, NEW q \in Seq(S), q # <<>>
    PROVE  /\ Head(q) \in S /\ Tail(q) \in Seq(S)
           /\ Queued(q) = {Head(q)} \cup Queued(Tail(q))
           /\ Distinct(q) => Distinct(Tail(q)) /\ Head(q) \notin Queued(Tail(q))
<1>1. /\ Len(q) \in Nat \ {0} /\ DOMAIN q = 1 .. Len(q)
      /\ Tail(q) \in Seq(S) /\ DOMAIN Tail(q) = 1 .. (Len(q) - 1)
      /\ Head(q) = q[1] /\ Head(q) \in S
      /\ \A i \in 1 .. (Len(q) - 1) : Tail(q)[i] = q[i + 1]
  <2>1. Len(q) \in Nat \ {0} /\ DOMAIN q = 1 .. Len(q)
    BY LenProperties, EmptySeq
  <2>2. /\ Tail(q) \in Seq(S) /\ Len(Tail(q)) = Len(q) - 1
        /\ \A i \in 1 .. Len(Tail(q)) : Tail(q)[i] = q[i + 1]
    BY HeadTailProperties
  <2>3. DOMAIN Tail(q) = 1 .. (Len(q) - 1)
    BY <2>2, LenProperties
  <2>4. Head(q) = q[1] /\ Head(q) \in S
    BY <2>1, ElementOfSeq
  <2> QED BY <2>1, <2>2, <2>3, <2>4
<1>2. \A i \in DOMAIN q : i = 1 \/ (i - 1 \in DOMAIN Tail(q) /\ Tail(q)[i - 1] = q[i])
  BY <1>1
<1>3. \A i \in DOMAIN Tail(q) : i + 1 \in DOMAIN q /\ Tail(q)[i] = q[i + 1] /\ i + 1 # 1
  BY <1>1
<1>4. Queued(q) = {Head(q)} \cup Queued(Tail(q))
  <2>1. \A x \in Queued(q) : x = Head(q) \/ x \in Queued(Tail(q))
    <3> SUFFICES ASSUME NEW i \in DOMAIN q
                 PROVE  q[i] = Head(q) \/ \E j \in DOMAIN Tail(q) : Tail(q)[j] = q[i]
      BY DEF Queued
    <3> QED BY <1>1, <1>2
  <2>2. Head(q) \in Queued(q)
    BY <1>1 DEF Queued
  <2>3. \A x \in Queued(Tail(q)) : x \in Queued(q)
    BY <1>3 DEF Queued
  <2> QED BY <2>1, <2>2, <2>3
<1>5. ASSUME Distinct(q) PROVE Distinct(Tail(q))
  <2> SUFFICES ASSUME NEW i \in DOMAIN Tail(q), NEW j \in DOMAIN Tail(q), Tail(q)[i] = Tail(q)[j]
               PROVE  i = j
    BY DEF Distinct
  <2>1. i + 1 = j + 1
    BY <1>3, <1>5 DEF Distinct
  <2> QED BY <1>1, <2>1
<1>6. ASSUME Distinct(q) PROVE Head(q) \notin Queued(Tail(q))
  <2> SUFFICES ASSUME NEW i \in DOMAIN Tail(q), Tail(q)[i] = Head(q) PROVE FALSE
    BY DEF Queued
  <2>1. 1 \in DOMAIN q
    BY <1>1
  <2> QED BY <1>1, <1>3, <1>6, <2>1 DEF Distinct
<1> QED BY <1>1, <1>4, <1>5, <1>6

LEMMA PutOn ==
    ASSUME NEW S, NEW q \in Seq(S), NEW x \in S
    PROVE  /\ Append(q, x) \in Seq(S)
           /\ Queued(Append(q, x)) = Queued(q) \cup {x}
           /\ Distinct(q) /\ x \notin Queued(q) => Distinct(Append(q, x))
<1>1. /\ Append(q, x) \in Seq(S)
      /\ Len(q) \in Nat /\ DOMAIN q = 1 .. Len(q)
      /\ DOMAIN Append(q, x) = 1 .. (Len(q) + 1)
      /\ \A i \in DOMAIN q : Append(q, x)[i] = q[i]
      /\ Append(q, x)[Len(q) + 1] = x
  <2>1. /\ Append(q, x) \in Seq(S) /\ Len(Append(q, x)) = Len(q) + 1
        /\ \A i \in 1 .. Len(q) : Append(q, x)[i] = q[i]
        /\ Append(q, x)[Len(q) + 1] = x
    BY AppendProperties
  <2> QED BY <2>1, LenProperties
<1>2. \A i \in DOMAIN Append(q, x) : i \in DOMAIN q \/ i = Len(q) + 1
  BY <1>1
<1>3. \A i \in DOMAIN q : i \in DOMAIN Append(q, x) /\ i # Len(q) + 1
  BY <1>1
<1>4. Len(q) + 1 \in DOMAIN Append(q, x)
  BY <1>1
<1>5. Queued(Append(q, x)) = Queued(q) \cup {x}
  <2>1. \A y \in Queued(Append(q, x)) : y \in Queued(q) \cup {x}
    BY <1>1, <1>2 DEF Queued
  <2>2. \A y \in Queued(q) \cup {x} : y \in Queued(Append(q, x))
    BY <1>1, <1>3, <1>4 DEF Queued
  <2> QED BY <2>1, <2>2
<1>6. ASSUME Distinct(q), x \notin Queued(q) PROVE Distinct(Append(q, x))
  <2>1. \A i \in DOMAIN q : q[i] # x
    BY <1>6 DEF Queued
  <2> QED BY <1>1, <1>2, <1>6, <2>1 DEF Distinct
<1> QED BY <1>1, <1>5, <1>6

-----------------------------------------------------------------------------
(* Results that wait for the dispatcher, and the clients still to answer.  *)
Result == [to : Clients, says : {"result", "failed"}]
Due_(c) == Due(payload[c])
PassedOn(c) == handler[c] = "done" /\ payload[c] \in {"whole", "list"} /\ received[c] = <<>>
Busy == {"receive", "refuse", "except"}

ServerShape ==
    /\ socket \in [Clients -> {"absent", "open", "left", "closed"}]
    /\ payload \in [Clients -> Payloads \cup {"nothing"}]
    /\ received \in [Clients -> Seq(Answers)]
    /\ handler \in [Clients -> {"none", "done"} \cup Busy]
    /\ connections \subseteq Clients
    /\ tasks \in Seq(Clients) /\ Distinct(tasks)
    /\ working \subseteq Clients /\ \A c, d \in working : c = d
    /\ results \in Seq(Result) /\ Distinct(results)
    /\ sending \subseteq Result /\ \A r1, r2 \in sending : r1 = r2
    /\ dispatched \subseteq Clients
    /\ outcome \in [Entries \cup Unknown -> {"none", "raised", "notFound"}]

(* What a handler knows of its connection and of what it was sent.         *)
HandlersKnow ==
    \A c \in Clients :
        /\ socket[c] = "absent" <=> handler[c] = "none"
        /\ handler[c] \in Busy => socket[c] \in {"open", "left"}
        /\ handler[c] # "done" => received[c] = <<>>
        /\ handler[c] \in {"none", "receive"} => payload[c] = "nothing"
        /\ handler[c] = "refuse" => payload[c] = "missing"
        /\ handler[c] = "except" => payload[c] # "whole"
        /\ handler[c] = "except" /\ Open(c) => payload[c] = "unreadable"

(* A client that its handler passed on is in one place only, unanswered.   *)
InOnePlace ==
    /\ Queued(tasks) \cap working = {}
    /\ Queued(results) \cap sending = {}
    /\ \A c \in Queued(tasks) \cup working : PassedOn(c) /\ \A r \in Results : r.to # c
    /\ \A r \in Results : PassedOn(r.to) /\ r.says = Due_(r.to)
    /\ \A r \in sending : r.to \notin connections

ServerInv == ServerShape /\ HandlersKnow /\ InOnePlace /\ OneDueAnswer /\ EntriesAccountedFor

LEMMA FirstAnswer == \A x : Append(<<>>, x) = <<x>>
OBVIOUS

LEMMA DueTypes ==
    /\ Due("whole") = "result" /\ Due("list") = "failed" /\ Due("missing") = "refused"
    /\ Due("unreadable") = "error"
BY DEF Due

LEMMA QueuedIn ==
    ASSUME ServerInv
    PROVE  Queued(tasks) \subseteq Clients /\ Results \subseteq Result
<1>1. \A S : \A q \in Seq(S) : Queued(q) \subseteq S
  BY ElementOfSeq, LenProperties DEF Queued
<1> QED BY <1>1 DEF ServerInv, ServerShape, Results

(* A client whose handler is still at work is in none of the queues.       *)
LEMMA NotQueued ==
    ASSUME ServerInv, NEW c, handler[c] # "done"
    PROVE  c \notin Queued(tasks) \cup working /\ \A r \in Results : r.to # c
BY DEF ServerInv, InOnePlace, PassedOn

LEMMA ByConnect == ASSUME ServerInv, NEW c \in Clients, Connect(c) PROVE ServerInv'
<1>1. ServerShape'
  BY DEF ServerInv, ServerShape, Connect, Handler, Busy
<1>2. HandlersKnow'
  BY DEF ServerInv, ServerShape, HandlersKnow, Connect, Handler, Busy, Open
<1>3. InOnePlace'
  BY DEF ServerInv, ServerShape, HandlersKnow, InOnePlace, PassedOn, Due_, Connect, Handler,
       Results, Result
<1>4. OneDueAnswer'
  BY DEF ServerInv, OneDueAnswer, Connect
<1>5. EntriesAccountedFor'
  BY DEF ServerInv, ServerShape, EntriesAccountedFor, InHand, Abandoned, Connect, Handler,
       Results
<1> QED BY <1>1, <1>2, <1>3, <1>4, <1>5 DEF ServerInv

LEMMA ByLeave == ASSUME ServerInv, NEW c \in Clients, Leave(c) PROVE ServerInv'
<1>1. ServerShape'
  BY DEF ServerInv, ServerShape, Leave, Busy
<1>2. HandlersKnow'
  BY DEF ServerInv, ServerShape, HandlersKnow, Leave, Busy, Open
<1>3. InOnePlace'
  BY DEF ServerInv, ServerShape, InOnePlace, PassedOn, Due_, Leave, Results
<1>4. OneDueAnswer'
  BY DEF ServerInv, OneDueAnswer, Leave
<1>5. EntriesAccountedFor'
  BY DEF ServerInv, ServerShape, EntriesAccountedFor, InHand, Abandoned, Leave, Results, Open
<1> QED BY <1>1, <1>2, <1>3, <1>4, <1>5 DEF ServerInv

LEMMA ByReceive ==
    ASSUME ServerInv, NEW c \in Clients, NEW p \in Payloads, Receive(c, p)
    PROVE  ServerInv'
<1>1. c \notin Queued(tasks) \cup working /\ \A r \in Results : r.to # c
  BY DEF ServerInv, InOnePlace, PassedOn, Receive
<1>2. /\ Append(tasks, c) \in Seq(Clients) /\ Distinct(Append(tasks, c))
      /\ Queued(Append(tasks, c)) = Queued(tasks) \cup {c}
  BY <1>1, PutOn DEF ServerInv, ServerShape
<1>3. /\ \/ p \in {"whole", "list"} /\ Queued(tasks') = Queued(tasks) \cup {c}
            /\ handler' = [handler EXCEPT ![c] = "done"]
         \/ p = "missing" /\ tasks' = tasks /\ handler' = [handler EXCEPT ![c] = "refuse"]
         \/ p = "unreadable" /\ tasks' = tasks /\ handler' = [handler EXCEPT ![c] = "except"]
      /\ tasks' \in Seq(Clients) /\ Distinct(tasks')
  BY <1>2 DEF Receive, Handler, ServerInv, ServerShape
<1>4. ServerShape'
  BY <1>3 DEF ServerInv, ServerShape, Receive, Busy
<1>5. HandlersKnow'
  BY <1>3 DEF ServerInv, ServerShape, HandlersKnow, Receive, Busy, Open, Payloads
<1>6. InOnePlace'
  <2>1. \A d \in Clients : d # c => payload'[d] = payload[d] /\ handler'[d] = handler[d]
    BY <1>3 DEF ServerInv, ServerShape, Receive
  <2>2. \A d \in Clients : PassedOn(d) => PassedOn(d)' /\ Due_(d)' = Due_(d)
    BY <2>1 DEF PassedOn, Due_, Receive
  <2>3. Queued(tasks') = Queued(tasks) \/ (PassedOn(c)' /\ Queued(tasks') = Queued(tasks) \cup {c})
    BY <1>3 DEF ServerInv, ServerShape, HandlersKnow, Receive, PassedOn
  <2>4. Queued(tasks') \subseteq Queued(tasks) \cup {c}
    BY <2>3
  <2>5. \A d \in Queued(tasks') \cup working : PassedOn(d)' /\ \A r \in Results : r.to # d
    BY <1>1, <2>2, <2>3, QueuedIn DEF ServerInv, ServerShape, InOnePlace
  <2>6. \A r \in Results : PassedOn(r.to)' /\ r.says = Due_(r.to)'
    BY <2>2, QueuedIn DEF ServerInv, InOnePlace, Result
  <2> QED BY <1>1, <2>4, <2>5, <2>6 DEF ServerInv, InOnePlace, Receive, Results
<1>7. OneDueAnswer'
  BY DEF ServerInv, ServerShape, HandlersKnow, OneDueAnswer, Receive
<1>8. EntriesAccountedFor'
  BY <1>3 DEF ServerInv, ServerShape, EntriesAccountedFor, InHand, Abandoned, Receive,
       Results, Open
<1> QED BY <1>4, <1>5, <1>6, <1>7, <1>8 DEF ServerInv

LEMMA ByRefuse == ASSUME ServerInv, NEW c \in Clients, Refuse(c) PROVE ServerInv'
<1>1. /\ handler[c] = "refuse" /\ payload[c] = "missing" /\ received[c] = <<>>
      /\ socket[c] \in {"open", "left"}
  BY DEF ServerInv, HandlersKnow, Refuse, Busy
<1>2. /\ \/ /\ received' = [received EXCEPT ![c] = <<"refused">>]
            /\ socket' = [socket EXCEPT ![c] = "closed"]
            /\ handler' = [handler EXCEPT ![c] = "done"]
         \/ /\ UNCHANGED <<received, socket>> /\ ~Open(c)
            /\ handler' = [handler EXCEPT ![c] = "except"]
      /\ UNCHANGED <<payload, connections, tasks, working, results, sending, dispatched, outcome>>
  BY <1>1, FirstAnswer DEF Refuse, Say, Shut, Handler
<1>3. c \notin Queued(tasks) \cup working /\ \A r \in Results : r.to # c
  BY <1>1, NotQueued
<1>4. ServerShape'
  <2>1. <<"refused">> \in Seq(Answers)
    BY DEF Answers
  <2>2. /\ received' \in [Clients -> Seq(Answers)]
        /\ socket' \in [Clients -> {"absent", "open", "left", "closed"}]
        /\ handler' \in [Clients -> {"none", "done"} \cup Busy]
        /\ connections' \subseteq Clients
    <3>1. received' \in [Clients -> Seq(Answers)]
      BY <1>2, <2>1 DEF ServerInv, ServerShape
    <3>2. socket' \in [Clients -> {"absent", "open", "left", "closed"}]
      BY <1>2 DEF ServerInv, ServerShape
    <3>3. handler' \in [Clients -> {"none", "done"} \cup Busy]
      BY <1>2 DEF ServerInv, ServerShape, Busy
    <3>4. connections' \subseteq Clients
      BY <1>2 DEF ServerInv, ServerShape
    <3> QED BY <3>1, <3>2, <3>3, <3>4
  <2> QED BY <1>2, <2>2 DEF ServerInv, ServerShape
<1>5. HandlersKnow'
  BY <1>1, <1>2 DEF ServerInv, ServerShape, HandlersKnow, Busy, Open
<1>6. InOnePlace'
  <2>1. \A d \in Clients : d # c => received'[d] = received[d] /\ handler'[d] = handler[d]
    BY <1>2 DEF ServerInv, ServerShape
  <2>2. \A d \in Clients : d # c /\ PassedOn(d) => PassedOn(d)'
    BY <1>2, <2>1 DEF PassedOn
  <2>3. \A r \in Results : r.to \in Clients
    BY QueuedIn DEF Result
  <2> QED BY <1>2, <1>3, <2>2, <2>3, QueuedIn DEF ServerInv, ServerShape, InOnePlace, Results, Due_
<1>7. OneDueAnswer'
  <2>1. payload' = payload /\ (received'[c] = received[c] \/ received'[c] = <<Due(payload[c])>>)
    BY <1>1, <1>2, DueTypes DEF ServerInv, ServerShape
  <2>2. \A d \in Clients : d # c => received'[d] = received[d]
    BY <1>2 DEF ServerInv, ServerShape
  <2> QED BY <2>1, <2>2 DEF ServerInv, OneDueAnswer
<1>8. EntriesAccountedFor'
  BY <1>1, <1>2 DEF ServerInv, ServerShape, EntriesAccountedFor, InHand, Abandoned, Results,
       Open
<1> QED BY <1>4, <1>5, <1>6, <1>7, <1>8 DEF ServerInv

LEMMA ByReceiveClosed == ASSUME ServerInv, NEW c \in Clients, ReceiveClosed(c) PROVE ServerInv'
<1>2. ServerShape'
  BY DEF ServerInv, ServerShape, ReceiveClosed, Handler, Busy
<1>3. HandlersKnow'
  BY DEF ServerInv, ServerShape, HandlersKnow, ReceiveClosed, Handler, Busy, Open
<1>4. InOnePlace'
  BY DEF ServerInv, ServerShape, InOnePlace, PassedOn, Due_, ReceiveClosed, Handler, Results,
       Result
<1>5. OneDueAnswer'
  BY DEF ServerInv, OneDueAnswer, ReceiveClosed
<1>6. EntriesAccountedFor'
  BY DEF ServerInv, ServerShape, EntriesAccountedFor, InHand, Abandoned, ReceiveClosed,
       Handler, Results
<1> QED BY <1>2, <1>3, <1>4, <1>5, <1>6 DEF ServerInv

LEMMA ByExcept == ASSUME ServerInv, NEW c \in Clients, Except(c) PROVE ServerInv'
<1>1. /\ handler[c] = "except" /\ received[c] = <<>> /\ payload[c] # "whole"
      /\ Open(c) => payload[c] = "unreadable"
      /\ socket[c] \in {"open", "left"}
  BY DEF ServerInv, HandlersKnow, Except, Busy
<1>2. /\ handler' = [handler EXCEPT ![c] = "done"]
      /\ \/ /\ received' = [received EXCEPT ![c] = <<"error">>]
            /\ socket' = [socket EXCEPT ![c] = "closed"]
            /\ connections' = connections \ {c} /\ Open(c)
         \/ UNCHANGED <<received, socket, connections>> /\ ~Open(c)
      /\ UNCHANGED <<payload, tasks, working, results, sending, dispatched, outcome>>
  BY <1>1, FirstAnswer DEF Except, Say, Shut, Handler
<1>3. c \notin Queued(tasks) \cup working /\ \A r \in Results : r.to # c
  BY <1>1, NotQueued
<1>4. ServerShape'
  <2>1. <<"error">> \in Seq(Answers)
    BY DEF Answers
  <2>2. /\ received' \in [Clients -> Seq(Answers)]
        /\ socket' \in [Clients -> {"absent", "open", "left", "closed"}]
        /\ handler' \in [Clients -> {"none", "done"} \cup Busy]
        /\ connections' \subseteq Clients
    <3>1. received' \in [Clients -> Seq(Answers)]
      BY <1>2, <2>1 DEF ServerInv, ServerShape
    <3>2. socket' \in [Clients -> {"absent", "open", "left", "closed"}]
      BY <1>2 DEF ServerInv, ServerShape
    <3>3. handler' \in [Clients -> {"none", "done"} \cup Busy]
      BY <1>2 DEF ServerInv, ServerShape, Busy
    <3>4. connections' \subseteq Clients
      BY <1>2 DEF ServerInv, ServerShape
    <3> QED BY <3>1, <3>2, <3>3, <3>4
  <2> QED BY <1>2, <2>2 DEF ServerInv, ServerShape
<1>5. HandlersKnow'
  BY <1>1, <1>2 DEF ServerInv, ServerShape, HandlersKnow, Busy, Open
<1>6. InOnePlace'
  <2>1. \A d \in Clients : d # c => received'[d] = received[d] /\ handler'[d] = handler[d]
    BY <1>2 DEF ServerInv, ServerShape
  <2>2. \A d \in Clients : d # c /\ PassedOn(d) => PassedOn(d)'
    BY <1>2, <2>1 DEF PassedOn
  <2>3. \A r \in Results : r.to \in Clients
    BY QueuedIn DEF Result
  <2> QED BY <1>2, <1>3, <2>2, <2>3, QueuedIn DEF ServerInv, ServerShape, InOnePlace, Results, Due_
<1>7. OneDueAnswer'
  <2>1. payload' = payload /\ (received'[c] = received[c] \/ received'[c] = <<Due(payload[c])>>)
    BY <1>1, <1>2, DueTypes DEF ServerInv, ServerShape
  <2>2. \A d \in Clients : d # c => received'[d] = received[d]
    BY <1>2 DEF ServerInv, ServerShape
  <2> QED BY <2>1, <2>2 DEF ServerInv, OneDueAnswer
<1>8. EntriesAccountedFor'
  BY <1>1, <1>2 DEF ServerInv, ServerShape, EntriesAccountedFor, InHand, Abandoned, Results,
       Open
<1> QED BY <1>4, <1>5, <1>6, <1>7, <1>8 DEF ServerInv

LEMMA ByCloseReturned == ASSUME ServerInv, NEW c \in Clients, CloseReturned(c) PROVE ServerInv'
<1>2. ServerShape'
  BY DEF ServerInv, ServerShape, CloseReturned, Shut, Busy
<1>3. HandlersKnow'
  BY DEF ServerInv, ServerShape, HandlersKnow, CloseReturned, Shut, Busy, Open
<1>4. InOnePlace'
  BY DEF ServerInv, ServerShape, InOnePlace, PassedOn, Due_, CloseReturned, Results
<1>5. OneDueAnswer'
  BY DEF ServerInv, OneDueAnswer, CloseReturned
<1>6. EntriesAccountedFor'
  BY DEF ServerInv, ServerShape, EntriesAccountedFor, InHand, Abandoned, CloseReturned, Shut,
       Results, Open
<1> QED BY <1>2, <1>3, <1>4, <1>5, <1>6 DEF ServerInv

LEMMA ByTake == ASSUME ServerInv, Take PROVE ServerInv'
<1>1. /\ tasks' \in Seq(Clients) /\ Distinct(tasks')
      /\ Queued(tasks) = working' \cup Queued(tasks') /\ Queued(tasks') \cap working' = {}
      /\ working' \subseteq Clients /\ working = {}
  BY TakenOff DEF ServerInv, ServerShape, Take
<1>2. ServerShape'
  BY <1>1 DEF ServerInv, ServerShape, Take
<1>3. HandlersKnow'
  BY DEF ServerInv, HandlersKnow, Take, Open
<1>4. InOnePlace'
  BY <1>1 DEF ServerInv, InOnePlace, PassedOn, Due_, Take, Results
<1>5. OneDueAnswer'
  BY DEF ServerInv, OneDueAnswer, Take
<1>6. EntriesAccountedFor'
  BY <1>1 DEF ServerInv, EntriesAccountedFor, InHand, Abandoned, Take, Results
<1> QED BY <1>2, <1>3, <1>4, <1>5, <1>6 DEF ServerInv

LEMMA ByFinish == ASSUME ServerInv, Finish PROVE ServerInv'
<1>1. PICK c \in working :
        /\ working' = {}
        /\ results' = Append(results, [to |-> c,
                        says |-> IF payload[c] = "whole" THEN "result" ELSE "failed"])
        /\ UNCHANGED <<socket, payload, received, handler, connections, tasks, sending, dispatched,
                       outcome>>
  BY DEF Finish
<1>2. PICK says \in {"result", "failed"} :
        says = IF payload[c] = "whole" THEN "result" ELSE "failed"
  OBVIOUS
<1>3. PICK result \in Result : result = [to |-> c, says |-> says]
  BY <1>1 DEF Result, ServerInv, ServerShape
<1>4. /\ c \in Clients /\ PassedOn(c) /\ c \notin Queued(tasks) /\ result.says = Due_(c)
      /\ \A r \in Results : r.to # c
      /\ result.to = c
  BY <1>1, <1>2, <1>3, DueTypes DEF ServerInv, ServerShape, InOnePlace, PassedOn, Due_
<1>5. result \notin Queued(results) \cup sending
  BY <1>4 DEF Results
<1>6. /\ results' \in Seq(Result) /\ Distinct(results')
      /\ Queued(results') = Queued(results) \cup {result}
  BY <1>1, <1>2, <1>3, <1>5, PutOn DEF ServerInv, ServerShape
<1>7. Results' = Results \cup {result}
  BY <1>1, <1>6 DEF Results
<1>8. ServerShape'
  BY <1>1, <1>6 DEF ServerInv, ServerShape
<1>9. HandlersKnow'
  BY <1>1 DEF ServerInv, HandlersKnow, Open
<1>10. InOnePlace'
  BY <1>1, <1>4, <1>5, <1>6, <1>7 DEF ServerInv, InOnePlace, PassedOn, Due_
<1>11. OneDueAnswer'
  BY <1>1 DEF ServerInv, OneDueAnswer
<1>12. EntriesAccountedFor'
  <2>1. \A d : (\E r \in Results : r.to = d) \/ d \in working => 
            d \in working' \/ \E r \in Results' : r.to = d
    <3>1. working \subseteq {c}
      BY DEF ServerInv, ServerShape
    <3> QED BY <1>4, <1>7, <3>1
  <2> QED BY <1>1, <2>1 DEF ServerInv, EntriesAccountedFor, InHand, Abandoned
<1> QED BY <1>8, <1>9, <1>10, <1>11, <1>12 DEF ServerInv

LEMMA ByDispatch == ASSUME ServerInv, Dispatch PROVE ServerInv'
<1>1. PICK r \in Result :
        /\ r = Head(results)
        /\ results' \in Seq(Result) /\ Distinct(results')
        /\ Queued(results) = {r} \cup Queued(results') /\ r \notin Queued(results')
  BY TakenOff DEF ServerInv, ServerShape, Dispatch
<1>2. /\ sending = {} /\ sending' \subseteq {r}
      /\ r.to \in connections => sending' = {r}
      /\ connections' = connections \ {r.to}
      /\ UNCHANGED <<socket, payload, received, handler, tasks, working, dispatched, outcome>>
  BY <1>1 DEF Dispatch
<1>3. Results' \subseteq Results /\ Results = Queued(results)
  BY <1>1, <1>2 DEF Results
<1>4. ServerShape'
  BY <1>1, <1>2 DEF ServerInv, ServerShape
<1>5. HandlersKnow'
  BY <1>2 DEF ServerInv, HandlersKnow, Open
<1>6. InOnePlace'
  <2>1. Queued(results') \cap sending' = {} /\ \A x \in sending' : x.to \notin connections'
    BY <1>1, <1>2
  <2> QED BY <1>2, <1>3, <2>1 DEF ServerInv, InOnePlace, PassedOn, Due_
<1>7. OneDueAnswer'
  BY <1>2 DEF ServerInv, OneDueAnswer
<1>8. EntriesAccountedFor'
  <2>1. \A x \in Results : x.to \in connections' => x \in Results'
    BY <1>1, <1>2, <1>3 DEF Results
  <2> QED BY <1>2, <2>1 DEF ServerInv, EntriesAccountedFor, InHand, Abandoned
<1> QED BY <1>4, <1>5, <1>6, <1>7, <1>8 DEF ServerInv

LEMMA BySend == ASSUME ServerInv, Send PROVE ServerInv'
<1>1. PICK r \in sending : 
        /\ sending' = {} /\ dispatched' = dispatched \cup {r.to}
        /\ \/ Open(r.to) /\ Say(r.to, r.says) /\ Shut(r.to)
           \/ ~Open(r.to) /\ UNCHANGED <<received, socket>>
        /\ UNCHANGED <<payload, handler, connections, tasks, working, results, outcome>>
  BY DEF Send
<1>2. PICK c \in Clients : c = r.to
  BY <1>1 DEF ServerInv, ServerShape, Result
<1>3. PassedOn(c) /\ r.says = Due(payload[c]) /\ c \notin connections /\ r.says \in Answers
  BY <1>1, <1>2 DEF ServerInv, ServerShape, InOnePlace, Results, Result, Due_, Answers
<1>4. \/ /\ received' = [received EXCEPT ![c] = <<Due(payload[c])>>] /\ Open(c)
         /\ socket' = [socket EXCEPT ![c] = "closed"]
      \/ UNCHANGED <<received, socket>>
  BY <1>1, <1>2, <1>3, FirstAnswer DEF PassedOn, Say, Shut
<1>5. ServerShape'
  <2>1. <<Due(payload[c])>> \in Seq(Answers)
    BY <1>3
  <2>2. /\ received' \in [Clients -> Seq(Answers)]
        /\ socket' \in [Clients -> {"absent", "open", "left", "closed"}]
    BY <1>4, <2>1 DEF ServerInv, ServerShape
  <2>3. dispatched' \subseteq Clients
    BY <1>1, <1>2 DEF ServerInv, ServerShape
  <2> QED BY <1>1, <2>2, <2>3 DEF ServerInv, ServerShape
<1>6. HandlersKnow'
  BY <1>1, <1>3, <1>4 DEF ServerInv, ServerShape, HandlersKnow, PassedOn, Busy, Open
<1>7. InOnePlace'
  <2>1. \A x \in Queued(results) : x.to # c
    BY <1>1, <1>2, <1>3, QueuedIn DEF ServerInv, InOnePlace, Results, Result, Due_
  <2>2. \A d \in Queued(tasks) \cup working : d # c
    BY <1>1, <1>2 DEF ServerInv, InOnePlace, Results
  <2>3. \A d \in Clients : d # c /\ PassedOn(d) => PassedOn(d)'
    BY <1>1, <1>4 DEF ServerInv, ServerShape, PassedOn
  <2>4. \A d \in Queued(tasks) \cup working : PassedOn(d)'
    BY <2>2, <2>3, QueuedIn DEF ServerInv, ServerShape, InOnePlace
  <2>5. \A x \in Queued(results) : PassedOn(x.to)' /\ x.says = Due_(x.to)'
    BY <1>1, <2>1, <2>3, QueuedIn DEF ServerInv, InOnePlace, Results, Result, Due_
  <2> QED BY <1>1, <2>4, <2>5 DEF ServerInv, InOnePlace, Results
<1>8. OneDueAnswer'
  <2>1. payload' = payload
    BY <1>1
  <2>2. received' = [received EXCEPT ![c] = <<Due(payload[c])>>] \/ received' = received
    BY <1>4
  <2>3. ASSUME NEW d \in Clients PROVE received'[d] = <<>> \/ received'[d] = <<Due(payload[d])>>
    <3>1. received[d] = <<>> \/ received[d] = <<Due(payload[d])>>
      BY DEF ServerInv, OneDueAnswer
    <3>2. received \in [Clients -> Seq(Answers)]
      BY DEF ServerInv, ServerShape
    <3> QED BY <2>2, <3>1, <3>2
  <2> QED BY <2>1, <2>3 DEF OneDueAnswer
<1>9. EntriesAccountedFor'
  <2>1. \A x \in Results : x.to \in connections => x \in Results'
    BY <1>1, <1>3 DEF ServerInv, InOnePlace, Results
  <2>2. \A d \in connections : socket'[d] = socket[d]
    BY <1>3, <1>4 DEF ServerInv, ServerShape
  <2> QED BY <1>1, <2>1, <2>2 DEF ServerInv, EntriesAccountedFor, InHand, Abandoned
<1> QED BY <1>5, <1>6, <1>7, <1>8, <1>9 DEF ServerInv

LEMMA ServerInvHolds == ServerSpec => []ServerInv
<1>1. ServerInit => ServerInv
  BY EmptySeq DEF ServerInit, ServerInv, ServerShape, HandlersKnow, InOnePlace, OneDueAnswer,
     EntriesAccountedFor, Queued, Results, Distinct, Busy, Open, PassedOn
<1>2. ASSUME ServerInv, [ServerNext]_serverVars PROVE ServerInv'
  <2>1. CASE UNCHANGED serverVars
    BY <1>2, <2>1 DEF serverVars, ServerInv, ServerShape, HandlersKnow, InOnePlace,
         OneDueAnswer,
       EntriesAccountedFor, Results, PassedOn, Due_, Open, InHand, Abandoned
  <2>2. CASE \E v \in Entries \cup Unknown : TriggerVerification(v)
    BY <1>2, <2>2 DEF TriggerVerification, ServerInv, ServerShape, HandlersKnow, InOnePlace,
       OneDueAnswer, EntriesAccountedFor, Results, PassedOn, Due_, Open, InHand, Abandoned
  <2> QED BY <1>2, <2>1, <2>2, ByConnect, ByLeave, ByReceive, ByRefuse, ByReceiveClosed, ByExcept,
             ByCloseReturned, ByTake, ByFinish, ByDispatch, BySend DEF ServerNext, HandlerStep
<1> QED BY <1>1, <1>2, PTL DEF ServerSpec

(* Type correctness of the server.                                         *)
THEOREM ServerTypes == ServerSpec => []ServerTypeOK
<1>1. \A S : (\A x, y \in S : x = y) => Cardinality(S) <= 1
  <2> SUFFICES ASSUME NEW S, \A x, y \in S : x = y PROVE Cardinality(S) <= 1
    OBVIOUS
  <2>1. CASE S = {}
    BY <2>1, FS_EmptySet
  <2>2. CASE S # {}
    <3>1. PICK x : S = {x}
      BY <2>2
    <3> QED BY <3>1, FS_Singleton
  <2> QED BY <2>1, <2>2
<1>2. ServerInv => ServerTypeOK
  BY <1>1 DEF ServerInv, ServerShape, ServerTypeOK, Result, Busy
<1> QED BY <1>2, ServerInvHolds, PTL

(* A client gets no second answer and no other than its payload calls for. *)
THEOREM AnswersAreDue == ServerSpec => []OneDueAnswer
<1>1. ServerInv => OneDueAnswer
  BY DEF ServerInv
<1> QED BY <1>1, ServerInvHolds, PTL

(* What stays in the table of connections is of a client that is still to  *)
(* be answered, was refused, or left too early.                            *)
THEOREM EntriesStayAccountedFor == ServerSpec => []EntriesAccountedFor
<1>1. ServerInv => EntriesAccountedFor
  BY DEF ServerInv
<1> QED BY <1>1, ServerInvHolds, PTL

-----------------------------------------------------------------------------
(* The store.                                                              *)

(* One document more in a bag, and one less.                               *)
LEMMA OneMore ==
    ASSUME NEW B, IsABag(B), IsFiniteSet(DOMAIN B), NEW d
    PROVE  LET C == B (+) SetToBag({d}) IN
           /\ IsABag(C) /\ IsFiniteSet(DOMAIN C)
           /\ DOMAIN C = DOMAIN B \cup {d}
           /\ \A e \in DOMAIN B \ {d} : C[e] = B[e]
           /\ C[d] = (IF d \in DOMAIN B THEN B[d] ELSE 0) + 1
  <1> DEFINE C == B (+) SetToBag({d})
  <1>1. /\ IsABag(C) /\ DOMAIN C = DOMAIN B \cup {d}
        /\ \A e \in DOMAIN B \ {d} : C[e] = B[e]
        /\ C[d] = (IF d \in DOMAIN B THEN B[d] ELSE 0) + 1
    BY DEF IsABag, (+), SetToBag
  <1> HIDE DEF C
  <1>2. IsFiniteSet(DOMAIN B \cup {d})
    BY FS_AddElement
  <1> QED BY <1>1, <1>2 DEF C

LEMMA OneLess ==
    ASSUME NEW B, IsABag(B), IsFiniteSet(DOMAIN B), NEW d \in DOMAIN B
    PROVE  LET C == B (-) SetToBag({d}) IN
           /\ IsABag(C) /\ IsFiniteSet(DOMAIN C)
           /\ DOMAIN C \subseteq DOMAIN B /\ DOMAIN B \ {d} \subseteq DOMAIN C
           /\ DOMAIN C = IF B[d] = 1 THEN DOMAIN B \ {d} ELSE DOMAIN B
           /\ \A e \in DOMAIN B \ {d} : C[e] = B[e]
           /\ B[d] # 1 => C[d] = B[d] - 1
  <1> DEFINE C == B (-) SetToBag({d})
  <1>1. /\ IsABag(C) /\ DOMAIN C = IF B[d] = 1 THEN DOMAIN B \ {d} ELSE DOMAIN B
        /\ \A e \in DOMAIN B \ {d} : C[e] = B[e]
        /\ B[d] # 1 => C[d] = B[d] - 1
    BY DEF IsABag, (-), SetToBag
  <1> HIDE DEF C
  <1>2. DOMAIN C \in SUBSET DOMAIN B /\ DOMAIN B \ {d} \subseteq DOMAIN C
    BY <1>1
  <1>3. IsFiniteSet(DOMAIN C)
    BY <1>2, FS_Subset
  <1> QED BY <1>1, <1>2, <1>3 DEF C

(* What specifications contain, and what calls can say.                    *)
Entries_ == UNION {{s.docs[i] : i \in DOMAIN s.docs} : s \in Specs}
DocIds == {e.doc.id : e \in Entries_} \cup Contracts \cup {r.id : r \in Removable}
ClauseIds == UNION {e.doc.clause.ids : e \in Entries_}
CallSet == [do : {"insert", "update", "delete", "query"}, coll : Collections, id : DocIds,
            doc : {e.doc : e \in Entries_} \cup {NoDoc}]
Requests_ == [op : Ops \cup {"idle"}, contract : Contracts \cup {"none"},
              todo : Seq(CallSet), clauses : SUBSET ClauseIds]

(* A document in the store is one of specifications: with the owner that   *)
(* one of them gives it, and with the clauses that one of them gives it.   *)
From(x, d, e) == e.coll = x /\ e.doc.id = d.id
Drawn(x, d) ==
    /\ Document(d)
    /\ \E e \in Entries_ : From(x, d, e) /\ e.doc.of = d.of
    /\ \E e \in Entries_ : From(x, d, e) /\ e.doc.clause = d.clause
HeldOk ==
    /\ DOMAIN docs = Collections
    /\ \A x \in Collections :
          IsABag(docs[x]) /\ IsFiniteSet(DOMAIN docs[x]) /\ \A d \in DOMAIN docs[x] : Drawn(x, d)

(* A call writes what a specification says.                                *)
WriteOk(call) ==
    call.do \in {"insert", "update"} => \E e \in Entries_ :
        call = Call(call.do, e.coll, e.doc.id, e.doc)
RequestOk(r) ==
    /\ r.op = "idle" => r = Idle
    /\ r.op # "idle" => r.todo # <<>> /\ \A i \in DOMAIN r.todo : WriteOk(r.todo[i])
Asked == {w \in Workers : request[w] # Idle}
StoreTypes_ ==
    /\ HeldOk
    /\ request \in [Workers -> Requests_] /\ \A w \in Workers : RequestOk(request[w])
    /\ served \in 0..MaxRequests
    /\ errors \in Nat
    /\ fate \in [Contracts -> {"new", "written", "deleted", "apart"}]
    /\ IsFiniteSet(Asked)
    /\ Cardinality(Asked) <= served /\ errors + Cardinality(Asked) <= MaxErrors + served

LEMMA EntryFacts ==
    /\ \A s \in Specs : /\ s.docs \in Seq(Entries_) /\ s.docs # <<>> /\ s.contract \in Contracts
                        /\ Len(s.docs) \in Nat \ {0} /\ DOMAIN s.docs = 1..Len(s.docs)
                        /\ \A i \in DOMAIN s.docs : s.docs[i] \in Entries_
    /\ \A e \in Entries_ : /\ e.coll \in Collections /\ Document(e.doc)
                           /\ e.doc.id \in DocIds /\ e.doc.clause.ids \subseteq ClauseIds
                           /\ \E s \in Specs : \E i \in DOMAIN s.docs : e = s.docs[i]
  <1>1. ASSUME NEW s \in Specs
        PROVE  /\ s.docs \in Seq(Entries_) /\ s.docs # <<>> /\ s.contract \in Contracts
               /\ Len(s.docs) \in Nat \ {0} /\ DOMAIN s.docs = 1..Len(s.docs)
               /\ \A i \in DOMAIN s.docs : s.docs[i] \in Entries_
    <2>1. \A i \in DOMAIN s.docs : s.docs[i] \in Entries_
      BY DEF Entries_
    <2>2. s.docs \in Seq({s.docs[i] : i \in DOMAIN s.docs}) /\ s.docs # <<>>
      BY ContractStoreConstants
    <2>3. {s.docs[i] : i \in DOMAIN s.docs} \subseteq Entries_
      BY <2>1
    <2>4. Len(s.docs) \in Nat /\ DOMAIN s.docs = 1..Len(s.docs)
      BY <2>2, LenProperties
    <2>5. s.docs \in Seq(Entries_)
      BY <2>2, <2>3
    <2>6. Len(s.docs) # 0
      BY <2>2, EmptySeq
    <2> QED BY <2>1, <2>2, <2>4, <2>5, <2>6, ContractStoreConstants
  <1>2. ASSUME NEW e \in Entries_
        PROVE  /\ e.coll \in Collections /\ Document(e.doc)
               /\ e.doc.id \in DocIds /\ e.doc.clause.ids \subseteq ClauseIds
               /\ \E s \in Specs : \E i \in DOMAIN s.docs : e = s.docs[i]
    <2>1. \E s \in Specs : \E i \in DOMAIN s.docs : e = s.docs[i]
      BY DEF Entries_
    <2>2. e.coll \in Collections /\ Document(e.doc)
      BY <2>1, ContractStoreConstants
    <2> QED BY <2>1, <2>2 DEF DocIds, ClauseIds
  <1> QED BY <1>1, <1>2

(* Merging what a specification says into a document of the store.         *)
LEMMA MergeFacts ==
    ASSUME NEW x, NEW o, Drawn(x, o), NEW e \in Entries_, From(x, o, e)
    PROVE  LET m == Merge(o, e.doc) IN
           /\ Drawn(x, m) /\ m.id = e.doc.id /\ m.of = e.doc.of
           /\ m.clause = IF e.doc.clause.form = "none" THEN o.clause ELSE e.doc.clause
  <1> DEFINE m == Merge(o, e.doc)
  <1>1. Document(e.doc) /\ Document(o)
    BY EntryFacts DEF Drawn
  <1>2. /\ DOMAIN m = {"id", "of", "clause", "fields", "version"}
        /\ m.id = e.doc.id /\ m.of = e.doc.of
        /\ m.clause = IF e.doc.clause.form = "none" THEN o.clause ELSE e.doc.clause
        /\ m.fields \in {"all", "some", "extra"}
    BY <1>1 DEF Merge, Document
  <1> HIDE DEF m
  <1>3. Document(m)
    BY <1>1, <1>2 DEF Document
  <1>4. m.id = o.id
    BY <1>2 DEF From
  <1>5. From(x, m, e) /\ e.doc.of = m.of
    BY <1>2 DEF From
  <1>6. \E b \in Entries_ : From(x, m, b) /\ b.doc.clause = m.clause
    <2>1. CASE e.doc.clause.form = "none"
      <3>1. PICK b \in Entries_ : From(x, o, b) /\ b.doc.clause = o.clause
        BY DEF Drawn
      <3> QED BY <3>1, <2>1, <1>2, <1>4 DEF From
    <2>2. CASE e.doc.clause.form # "none"
      BY <2>2, <1>2, <1>5
    <2> QED BY <2>1, <2>2
  <1> QED BY <1>2, <1>3, <1>5, <1>6 DEF Drawn, m

(* What the calls do to a collection.                                      *)
LEMMA PutHeld ==
    ASSUME HeldOk, NEW x \in Collections, NEW d, Drawn(x, d),
           docs' = [docs EXCEPT ![x] = @ (+) SetToBag({d})]
    PROVE  HeldOk'
  <1> DEFINE B == docs[x]  C == B (+) SetToBag({d})
  <1>1. /\ IsABag(C) /\ IsFiniteSet(DOMAIN C) /\ DOMAIN C = DOMAIN B \cup {d}
    BY OneMore DEF HeldOk
  <1> HIDE DEF C
  <1>2. DOMAIN docs' = Collections /\ docs'[x] = C /\ \A y \in Collections \ {x} : docs'[y] = docs[y]
    BY DEF HeldOk, C
  <1>3. \A y \in Collections : IsABag(docs'[y]) /\ IsFiniteSet(DOMAIN docs'[y])
                               /\ \A e \in DOMAIN docs'[y] : Drawn(y, e)
    BY <1>1, <1>2 DEF HeldOk
  <1> QED BY <1>2, <1>3 DEF HeldOk

LEMMA TakeHeld ==
    ASSUME HeldOk, NEW x \in Collections, NEW d \in DOMAIN docs[x],
           docs' = [docs EXCEPT ![x] = @ (-) SetToBag({d})]
    PROVE  HeldOk'
  <1> DEFINE B == docs[x]  C == B (-) SetToBag({d})
  <1>1. /\ IsABag(C) /\ IsFiniteSet(DOMAIN C) /\ DOMAIN C \subseteq DOMAIN B
    BY OneLess DEF HeldOk
  <1> HIDE DEF C
  <1>2. DOMAIN docs' = Collections /\ docs'[x] = C /\ \A y \in Collections \ {x} : docs'[y] = docs[y]
    BY DEF HeldOk, C
  <1>3. \A y \in Collections : IsABag(docs'[y]) /\ IsFiniteSet(DOMAIN docs'[y])
                               /\ \A e \in DOMAIN docs'[y] : Drawn(y, e)
    BY <1>1, <1>2 DEF HeldOk
  <1> QED BY <1>2, <1>3 DEF HeldOk

LEMMA UpsertHeld ==
    ASSUME HeldOk, NEW x \in Collections, NEW e \in Entries_, e.coll = x,
           NEW bag \in Upserted(docs[x], e.doc), docs' = [docs EXCEPT ![x] = bag]
    PROVE  HeldOk'
  <1> DEFINE B == docs[x]
             olds == {o \in BagToSet(B) : o.id = e.doc.id}
  <1>0. IsABag(B) /\ IsFiniteSet(DOMAIN B) /\ \A d \in DOMAIN B : Drawn(x, d)
    BY DEF HeldOk
  <1>1. CASE olds = {}
    <2>1. bag = B (+) SetToBag({e.doc})
      BY <1>1 DEF Upserted
    <2>2. Drawn(x, e.doc)
      BY EntryFacts DEF Drawn, From
    <2> QED BY <2>1, <2>2, PutHeld
  <1>2. CASE olds # {}
    <2>1. PICK o \in olds : bag = (B (-) SetToBag({o})) (+) SetToBag({Merge(o, e.doc)})
      BY <1>2 DEF Upserted
    <2>2. o \in DOMAIN B /\ o.id = e.doc.id
      BY DEF BagToSet
    <2> DEFINE C == B (-) SetToBag({o})  m == Merge(o, e.doc)  D == C (+) SetToBag({m})
    <2>3. IsABag(C) /\ IsFiniteSet(DOMAIN C) /\ DOMAIN C \subseteq DOMAIN B
      BY <1>0, <2>2, OneLess
    <2>4. Drawn(x, m)
      BY <1>0, <2>2, MergeFacts DEF From
    <2> HIDE DEF C, m
    <2>5. IsABag(D) /\ IsFiniteSet(DOMAIN D) /\ DOMAIN D = DOMAIN C \cup {m}
      BY <2>3, OneMore
    <2> HIDE DEF D
    <2>6. bag = D
      BY <2>1 DEF C, D, m
    <2>7. DOMAIN docs' = Collections /\ docs'[x] = D /\ \A y \in Collections \ {x} : docs'[y] = docs[y]
      BY <2>6 DEF HeldOk
    <2>8. \A y \in Collections : IsABag(docs'[y]) /\ IsFiniteSet(DOMAIN docs'[y])
                                 /\ \A d \in DOMAIN docs'[y] : Drawn(y, d)
      BY <1>0, <2>3, <2>4, <2>5, <2>7 DEF HeldOk
    <2> QED BY <2>7, <2>8 DEF HeldOk
  <1> QED BY <1>1, <1>2

(* The documents that a query lists, one for each copy.                    *)
LEMMA CopiesFinite ==
    ASSUME NEW B, IsABag(B), IsFiniteSet(DOMAIN B), NEW found \in SUBSET DOMAIN B
    PROVE  IsFiniteSet(Copies(B, found))
  <1> DEFINE f == [d \in found |-> {d} \X (1..B[d])]
             S == {{d} \X (1..B[d]) : d \in found}
  <1>1. IsFiniteSet(found)
    BY FS_Subset
  <1>2. f \in Surjection(found, S)
    BY DEF Surjection
  <1>3. IsFiniteSet(S)
    <2> HIDE DEF f, S
    <2> QED BY <1>1, <1>2, FS_Surjection
  <1>4. ASSUME NEW d \in found PROVE IsFiniteSet({d} \X (1..B[d]))
    <2>1. B[d] \in Nat
      BY DEF IsABag
    <2>2. IsFiniteSet({d}) /\ IsFiniteSet(1..B[d])
      BY <2>1, 1 \in Int, B[d] \in Int, FS_Singleton, FS_Interval
    <2> QED BY <2>2, FS_Product
  <1>5. \A T \in S : IsFiniteSet(T)
    BY <1>4
  <1>6. IsFiniteSet(UNION S)
    <2> HIDE DEF S
    <2> QED BY <1>3, <1>5, FS_UNION
  <1> QED BY <1>6 DEF Copies

LEMMA ListedFacts ==
    ASSUME HeldOk, NEW x \in Collections, NEW found \in SUBSET Held(x), NEW q \in Listed(x, found)
    PROVE  /\ q \in Seq(found) /\ Len(q) = Cardinality(Copies(docs[x], found))
           /\ Len(q) \in Nat /\ DOMAIN q = 1..Len(q)
           /\ \A d \in found : Cardinality({i \in 1..Len(q) : q[i] = d}) = docs[x][d]
  <1>1. IsABag(docs[x]) /\ IsFiniteSet(DOMAIN docs[x]) /\ found \in SUBSET DOMAIN docs[x]
    BY DEF HeldOk, Held, BagToSet
  <1> DEFINE n == Cardinality(Copies(docs[x], found))
  <1>2. n \in Nat
    BY <1>1, CopiesFinite, FS_CardinalityType
  <1>3. q \in [1..n -> found] /\ \A d \in found : Cardinality({i \in 1..n : q[i] = d}) = docs[x][d]
    BY DEF Listed
  <1> HIDE DEF n
  <1>4. q \in Seq(found) /\ Len(q) = n
    BY <1>2, <1>3, SeqDef
  <1> QED BY <1>2, <1>3, <1>4 DEF n

LEMMA IdleFacts ==
    /\ Idle.op = "idle" /\ Idle.contract = "none" /\ Idle.todo = <<>> /\ Idle.clauses = {}
    /\ Idle \in Requests_
  BY EmptySeq DEF Idle, Requests_

(* How a call leaves the list of its worker.                               *)
LEMMA ProceedTypes ==
    ASSUME StoreTypes_, NEW w \in Workers, request[w] # Idle,
           NEW calls \in Seq(CallSet), \A i \in DOMAIN calls : WriteOk(calls[i]),
           NEW clauses \in SUBSET ClauseIds, Proceed(w, calls, clauses)
    PROVE  /\ request' \in [Workers -> Requests_] /\ \A v \in Workers : RequestOk(request'[v])
           /\ Asked' \in {Asked, Asked \ {w}}
           /\ \A v \in Workers \ {w} : request'[v] = request[v]
           /\ calls = <<>> => request'[w] = Idle
           /\ calls # <<>> => /\ request'[w] # Idle
                              /\ request'[w].op = request[w].op
                              /\ request'[w].contract = request[w].contract
                              /\ request'[w].todo = calls /\ request'[w].clauses = clauses
  <1>1. request[w] \in Requests_ /\ request[w].op # "idle" /\ RequestOk(request[w])
    BY IdleFacts DEF StoreTypes_, RequestOk
  <1> DEFINE r == [request[w] EXCEPT !.todo = calls, !.clauses = clauses]
  <1>2. /\ r \in Requests_ /\ r.op = request[w].op /\ r.contract = request[w].contract
        /\ r.todo = calls /\ r.clauses = clauses
    BY <1>1 DEF Requests_
  <1>3. /\ \A v \in Workers \ {w} : request'[v] = request[v]
        /\ request'[w] = IF calls = <<>> THEN Idle ELSE r
        /\ DOMAIN request' = Workers
        /\ request' = [v \in Workers |-> request'[v]]
    BY DEF StoreTypes_, Proceed
  <1> HIDE DEF r
  <1>4. calls # <<>> => RequestOk(r) /\ r # Idle
    BY <1>1, <1>2, IdleFacts DEF RequestOk
  <1>5. RequestOk(Idle)
    BY IdleFacts DEF RequestOk
  <1>6. \A v \in Workers : request'[v] \in Requests_ /\ RequestOk(request'[v])
    BY <1>2, <1>3, <1>4, <1>5, IdleFacts DEF StoreTypes_
  <1>7. Asked' \in {Asked, Asked \ {w}}
    BY <1>3, <1>4 DEF Asked
  <1>8. request' \in [Workers -> Requests_]
    BY <1>3, <1>6
  <1> QED BY <1>1, <1>2, <1>3, <1>4, <1>6, <1>7, <1>8

(* A request that begins.                                                  *)
LEMMA BeginTypes ==
    ASSUME StoreTypes_, NEW w \in Workers, NEW op, NEW c \in Contracts \cup {"none"},
           NEW calls \in Seq(CallSet), calls # <<>>, \A i \in DOMAIN calls : WriteOk(calls[i]),
           Begin(w, op, c, calls)
    PROVE  /\ request' \in [Workers -> Requests_] /\ \A v \in Workers : RequestOk(request'[v])
           /\ request[w] = Idle /\ Asked' = Asked \cup {w} /\ w \notin Asked
           /\ served' \in 0..MaxRequests
           /\ \A v \in Workers \ {w} : request'[v] = request[v]
           /\ request'[w] # Idle /\ request'[w].op = op /\ request'[w].contract = c
           /\ request'[w].todo = calls /\ request'[w].clauses = {}
           /\ op \in Ops /\ op # "idle"
  <1> DEFINE r == [op |-> op, contract |-> c, todo |-> calls, clauses |-> {}]
  <1>1. op \in Ops /\ op # "idle" /\ request[w] = Idle
    BY ContractStoreConstants DEF Begin
  <1>2. r \in Requests_ /\ r.op = op /\ r.contract = c /\ r.todo = calls /\ r.clauses = {}
    BY <1>1 DEF Requests_
  <1>3. /\ \A v \in Workers \ {w} : request'[v] = request[v]
        /\ request'[w] = r
        /\ request' = [v \in Workers |-> request'[v]]
    BY DEF StoreTypes_, Begin
  <1> HIDE DEF r
  <1>4. RequestOk(r) /\ r # Idle
    BY <1>1, <1>2, IdleFacts DEF RequestOk
  <1>5. \A v \in Workers : request'[v] \in Requests_ /\ RequestOk(request'[v])
    BY <1>2, <1>3, <1>4 DEF StoreTypes_
  <1>6. Asked' = Asked \cup {w} /\ w \notin Asked
    BY <1>1, <1>3, <1>4 DEF Asked
  <1>7. served' \in 0..MaxRequests
    BY ContractStoreConstants DEF StoreTypes_, Begin
  <1>8. request' \in [Workers -> Requests_]
    BY <1>3, <1>5
  <1> QED BY <1>1, <1>2, <1>3, <1>4, <1>5, <1>6, <1>7, <1>8

(* The lists of calls that requests begin with.                            *)
LEMMA PlanFacts ==
    /\ \A s \in Specs, do \in {"insert", "update"} :
          /\ CallsFor(do, s) \in Seq(CallSet) /\ CallsFor(do, s) # <<>>
          /\ \A i \in DOMAIN CallsFor(do, s) : WriteOk(CallsFor(do, s)[i])
    /\ \A c \in Contracts :
          /\ DeletePlan(c) \in Seq(CallSet) /\ DeletePlan(c) # <<>>
          /\ \A i \in DOMAIN DeletePlan(c) : WriteOk(DeletePlan(c)[i])
    /\ \A r \in Removable :
          LET calls == << Call("delete", r.coll, r.id, NoDoc) >> IN
          calls \in Seq(CallSet) /\ calls # <<>> /\ \A i \in DOMAIN calls : WriteOk(calls[i])
  <1>1. ASSUME NEW s \in Specs, NEW do \in {"insert", "update"}
        PROVE  /\ CallsFor(do, s) \in Seq(CallSet) /\ CallsFor(do, s) # <<>>
               /\ \A i \in DOMAIN CallsFor(do, s) : WriteOk(CallsFor(do, s)[i])
    <2> DEFINE n == Len(s.docs)  q == CallsFor(do, s)
    <2>1. n \in Nat \ {0} /\ DOMAIN s.docs = 1..n /\ \A i \in 1..n : s.docs[i] \in Entries_
      BY EntryFacts
    <2>2. q = [i \in 1..n |-> Call(do, s.docs[i].coll, s.docs[i].doc.id, s.docs[i].doc)]
      BY <2>1 DEF CallsFor
    <2>3. \A i \in 1..n : q[i] \in CallSet /\ WriteOk(q[i])
      <3>1. ASSUME NEW e \in Entries_
            PROVE  LET call == Call(do, e.coll, e.doc.id, e.doc) IN call \in CallSet /\ WriteOk(call)
        <4>1. e.coll \in Collections /\ e.doc.id \in DocIds
          BY EntryFacts
        <4> QED BY <4>1 DEF CallSet, Call, WriteOk
      <3>2. \A i \in 1..n : q[i] = Call(do, s.docs[i].coll, s.docs[i].doc.id, s.docs[i].doc)
        BY <2>2
      <3> HIDE DEF q
      <3> QED BY <3>1, <3>2, <2>1
    <2> HIDE DEF n, q
    <2>4. DOMAIN q = 1..n /\ q \in [1..n -> CallSet]
      BY <2>2, <2>3
    <2>5. q \in Seq(CallSet) /\ Len(q) = n
      BY <2>1, <2>4, SeqDef
    <2>6. q # <<>>
      BY <2>1, <2>5, EmptySeq
    <2> QED BY <2>3, <2>4, <2>5, <2>6 DEF q
  <1>2. ASSUME NEW c \in Contracts
        PROVE  /\ DeletePlan(c) \in Seq(CallSet) /\ DeletePlan(c) # <<>>
               /\ \A i \in DOMAIN DeletePlan(c) : WriteOk(DeletePlan(c)[i])
    <2>1. \A x \in Collections, do \in {"delete", "query"} :
             Call(do, x, c, NoDoc) \in CallSet /\ WriteOk(Call(do, x, c, NoDoc))
      BY DEF Call, CallSet, DocIds, WriteOk
    <2> QED BY <2>1 DEF DeletePlan, Collections, Kinds
  <1>3. ASSUME NEW r \in Removable
        PROVE  LET calls == << Call("delete", r.coll, r.id, NoDoc) >> IN
               calls \in Seq(CallSet) /\ calls # <<>> /\ \A i \in DOMAIN calls : WriteOk(calls[i])
    <2>1. Call("delete", r.coll, r.id, NoDoc) \in CallSet /\ WriteOk(Call("delete", r.coll, r.id, NoDoc))
      BY ContractStoreConstants DEF Call, CallSet, DocIds, WriteOk
    <2> QED BY <2>1
  <1> QED BY <1>1, <1>2, <1>3

LEMMA TaskFacts ==
    ASSUME StoreTypes_, NEW w \in Workers, request[w] # Idle
    PROVE  /\ request[w].todo \in Seq(CallSet) /\ request[w].todo # <<>>
           /\ Len(request[w].todo) \in Nat \ {0}
           /\ Task(w) = request[w].todo[1] /\ Task(w) \in CallSet /\ WriteOk(Task(w))
           /\ Tail(request[w].todo) \in Seq(CallSet)
           /\ Len(Tail(request[w].todo)) = Len(request[w].todo) - 1
           /\ \A i \in 1..(Len(request[w].todo) - 1) :
                 Tail(request[w].todo)[i] = request[w].todo[i + 1]
           /\ \A i \in DOMAIN Tail(request[w].todo) : WriteOk(Tail(request[w].todo)[i])
           /\ request[w].clauses \in SUBSET ClauseIds
           /\ request[w].op \in Ops /\ request[w].op # "idle"
           /\ request[w].contract \in Contracts \cup {"none"}
  <1>1. request[w] \in Requests_ /\ RequestOk(request[w])
    BY DEF StoreTypes_
  <1> DEFINE s == request[w].todo
  <1>2. s \in Seq(CallSet) /\ s # <<>> /\ \A i \in DOMAIN s : WriteOk(s[i])
    BY <1>1, IdleFacts DEF Requests_, RequestOk
  <1>3. request[w].clauses \in SUBSET ClauseIds /\ request[w].contract \in Contracts \cup {"none"}
        /\ request[w].op \in Ops /\ request[w].op # "idle"
    BY <1>1, IdleFacts DEF Requests_, RequestOk
  <1>4. Task(w) = Head(s)
    BY DEF Task
  <1> HIDE DEF s
  <1>5. /\ Len(s) \in Nat \ {0} /\ Head(s) = s[1] /\ Head(s) \in CallSet
        /\ Tail(s) \in Seq(CallSet) /\ Len(Tail(s)) = Len(s) - 1
        /\ \A i \in 1..(Len(s) - 1) : Tail(s)[i] = s[i + 1]
    BY <1>2, EmptySeq, HeadTailProperties
  <1>6. 1 \in DOMAIN s /\ DOMAIN s = 1..Len(s) /\ DOMAIN Tail(s) = 1..(Len(s) - 1)
    BY <1>2, <1>5, LenProperties
  <1>7. \A i \in DOMAIN Tail(s) : WriteOk(Tail(s)[i])
    BY <1>2, <1>5, <1>6
  <1> QED BY <1>2, <1>3, <1>4, <1>5, <1>6, <1>7 DEF s

LEMMA HeldFacts ==
    ASSUME HeldOk, NEW x \in Collections, NEW d \in Held(x)
    PROVE  /\ Drawn(x, d) /\ Document(d) /\ d.id \in DocIds /\ d.clause.ids \subseteq ClauseIds
           /\ docs[x][d] \in Nat \ {0}
  <1>1. Drawn(x, d) /\ docs[x][d] \in Nat \ {0}
    BY DEF HeldOk, Held, BagToSet, IsABag
  <1>2. PICK e \in Entries_ : e.doc.id = d.id
    BY <1>1 DEF Drawn, From
  <1>3. PICK f \in Entries_ : f.doc.clause = d.clause
    BY <1>1 DEF Drawn
  <1>4. e.doc.id \in DocIds /\ f.doc.clause.ids \subseteq ClauseIds
    BY EntryFacts
  <1> QED BY <1>1, <1>2, <1>3, <1>4 DEF Drawn

(* What a query finds, and the calls that its worker goes on with.         *)
LEMMA QueryFacts ==
    ASSUME StoreTypes_, NEW w \in Workers, request[w] # Idle, Query(w)
    PROVE  LET t == Task(w)  found == Matches(w, t.coll) IN
           /\ t.do = "query" /\ t.coll \in Collections /\ docs' = docs
           /\ found \subseteq Held(t.coll)
           /\ \E q \in Listed(t.coll, found) :
                LET kills == [i \in DOMAIN q |-> Call("delete", t.coll, q[i].id, NoDoc)]
                    calls == kills \o Tail(request[w].todo)
                    clauses == IF t.coll = "sub_contracts" THEN ClausesIn(found)
                               ELSE request[w].clauses IN
                /\ kills \in Seq(CallSet) /\ Len(kills) = Len(q)
                /\ \A i \in 1..Len(q) : kills[i] = Call("delete", t.coll, q[i].id, NoDoc)
                /\ calls \in Seq(CallSet) /\ (\A i \in DOMAIN calls : WriteOk(calls[i]))
                /\ clauses \in SUBSET ClauseIds
                /\ Proceed(w, calls, clauses)
  <1> DEFINE t == Task(w)
             x == t.coll
             found == Matches(w, x)
  <1>1. t.do = "query" /\ x \in Collections /\ docs' = docs /\ found \subseteq Held(x)
    BY TaskFacts DEF Query, CallSet, Matches
  <1>2. PICK q \in Listed(x, found) :
           Proceed(w, [i \in DOMAIN q |-> Call("delete", x, q[i].id, NoDoc)]
                        \o Tail(request[w].todo),
                   IF x = "sub_contracts" THEN ClausesIn(found) ELSE request[w].clauses)
    BY DEF Query
  <1> DEFINE kills == [i \in DOMAIN q |-> Call("delete", x, q[i].id, NoDoc)]
             rest == Tail(request[w].todo)
             calls == kills \o rest
             clauses == IF x = "sub_contracts" THEN ClausesIn(found) ELSE request[w].clauses
  <1>3. /\ Len(q) \in Nat /\ DOMAIN q = 1..Len(q) /\ \A i \in 1..Len(q) : q[i] \in found
    BY <1>1, ListedFacts DEF StoreTypes_
  <1>4. \A d \in Held(x) : /\ Drawn(x, d) /\ Document(d) /\ d.id \in DocIds
                           /\ d.clause.ids \subseteq ClauseIds
    BY <1>1, HeldFacts DEF StoreTypes_
  <1>5. \A i \in 1..Len(q) : kills[i] = Call("delete", x, q[i].id, NoDoc)
                             /\ kills[i] \in CallSet /\ WriteOk(kills[i])
    BY <1>1, <1>3, <1>4 DEF Call, CallSet, WriteOk
  <1>6. clauses \in SUBSET ClauseIds
    BY <1>1, <1>4, TaskFacts DEF ClausesIn
  <1>7. rest \in Seq(CallSet) /\ \A i \in DOMAIN rest : WriteOk(rest[i])
    BY TaskFacts
  <1> DEFINE n == Len(q)
  <1>8. n \in Nat /\ DOMAIN kills = 1..n /\ kills \in [1..n -> CallSet]
    BY <1>3, <1>5
  <1> HIDE DEF kills, rest, clauses, n
  <1>9. kills \in Seq(CallSet) /\ Len(kills) = n
    BY <1>8, SeqDef
  <1>10. calls \in Seq(CallSet) /\ Len(calls) = Len(kills) + Len(rest)
         /\ \A i \in 1..Len(calls) :
               calls[i] = IF i <= Len(kills) THEN kills[i] ELSE rest[i - Len(kills)]
    BY <1>7, <1>9, ConcatProperties
  <1>11. \A i \in DOMAIN calls : WriteOk(calls[i])
    <2>1. DOMAIN calls = 1..Len(calls) /\ Len(rest) \in Nat /\ DOMAIN rest = 1..Len(rest)
      BY <1>7, <1>10, LenProperties
    <2>2. ASSUME NEW i \in 1..Len(calls) PROVE WriteOk(calls[i])
      <3> HIDE DEF calls
      <3>1. CASE i <= n
        <4>1. i \in 1..n
          BY <3>1, <2>1, <1>8
        <4> QED BY <4>1, <3>1, <1>5, <1>9, <1>10 DEF n
      <3>2. CASE ~(i <= n)
        <4>1. i - n \in DOMAIN rest
          BY <3>2, <2>1, <1>8, <1>9, <1>10
        <4> QED BY <4>1, <3>2, <1>7, <1>9, <1>10
      <3> QED BY <3>1, <3>2
    <2> QED BY <2>1, <2>2
  <1>12. Proceed(w, calls, clauses)
    BY <1>2 DEF calls, kills, rest, clauses
  <1> HIDE DEF calls
  <1>13. /\ kills \in Seq(CallSet) /\ Len(kills) = Len(q)
         /\ \A i \in 1..Len(q) : kills[i] = Call("delete", t.coll, q[i].id, NoDoc)
         /\ calls \in Seq(CallSet) /\ (\A i \in DOMAIN calls : WriteOk(calls[i]))
         /\ clauses \in SUBSET ClauseIds
         /\ Proceed(w, calls, clauses)
    BY <1>5, <1>6, <1>9, <1>10, <1>11, <1>12 DEF n
  <1> QED BY <1>1, <1>2, <1>13 DEF calls, kills, rest, clauses

(* What a call does to the documents keeps them the specifications' own.   *)
LEMMA CallTypes ==
    ASSUME StoreTypes_, NEW w \in Workers, Calls(w)
    PROVE  /\ HeldOk'
           /\ request' \in [Workers -> Requests_] /\ \A v \in Workers : RequestOk(request'[v])
           /\ Asked' \in {Asked, Asked \ {w}}
           /\ w \in Asked
           /\ served' = served /\ fate' = fate
           /\ \/ errors' = errors
              \/ errors' = errors + 1 /\ Asked' = Asked \ {w}
              \/ errors < MaxErrors /\ errors' = errors + 1
  <1>0. request[w] # Idle /\ w \in Asked /\ served' = served /\ fate' = fate
    BY DEF Calls, Asked
  <1> DEFINE t == Task(w)
             Goal == /\ HeldOk'
                     /\ request' \in [Workers -> Requests_] /\ \A v \in Workers : RequestOk(request'[v])
                     /\ Asked' \in {Asked, Asked \ {w}}
  <1>1. t \in CallSet /\ WriteOk(t) /\ t.coll \in Collections
    BY <1>0, TaskFacts DEF CallSet
  <1>2. ASSUME Proceeds(w), HeldOk' PROVE Goal
    BY <1>0, <1>2, TaskFacts, ProceedTypes DEF Proceeds
  <1>3. ASSUME docs' = docs PROVE HeldOk'
    BY <1>3 DEF StoreTypes_, HeldOk
  <1>4. ASSUME t.do \in {"insert", "update"}
        PROVE  \E e \in Entries_ : e.coll = t.coll /\ e.doc = t.doc /\ e.doc.id = t.id
    BY <1>1, <1>4 DEF WriteOk, Call
  <1>5. CASE Insert(w)
    <2>1. PICK e \in Entries_ : e.coll = t.coll /\ e.doc = t.doc /\ e.doc.id = t.id
      BY <1>4, <1>5 DEF Insert
    <2>2. Drawn(t.coll, t.doc)
      BY <2>1, EntryFacts DEF Drawn, From
    <2>3. CASE t.doc.fields = "all" /\ docs' = [docs EXCEPT ![t.coll] = @ (+) SetToBag({t.doc})]
               /\ Proceeds(w) /\ UNCHANGED errors
      <3>1. HeldOk'
        BY <1>1, <2>2, <2>3, PutHeld DEF StoreTypes_
      <3> QED BY <1>0, <1>2, <2>3, <3>1
    <2>4. CASE request' = [request EXCEPT ![w] = Idle] /\ errors' = errors + 1 /\ UNCHANGED docs
      <3>1. /\ \A v \in Workers \ {w} : request'[v] = request[v]
            /\ request'[w] = Idle /\ request' = [v \in Workers |-> request'[v]]
        BY <2>4 DEF StoreTypes_
      <3>2. RequestOk(Idle)
        BY IdleFacts DEF RequestOk
      <3>3. request' \in [Workers -> Requests_] /\ \A v \in Workers : RequestOk(request'[v])
        BY <3>1, <3>2, IdleFacts DEF StoreTypes_
      <3>4. Asked' = Asked \ {w}
        BY <3>1 DEF Asked
      <3> QED BY <1>0, <1>3, <2>4, <3>3, <3>4
    <2> QED BY <2>3, <2>4, <1>5 DEF Insert
  <1>6. CASE Upsert(w) /\ UNCHANGED errors
    <2>1. PICK e \in Entries_ : e.coll = t.coll /\ e.doc = t.doc /\ e.doc.id = t.id
      BY <1>4, <1>6 DEF Upsert
    <2>2. PICK bag \in Upserted(docs[t.coll], t.doc) : docs' = [docs EXCEPT ![t.coll] = bag]
      BY <1>6 DEF Upsert
    <2>3. HeldOk'
      BY <1>1, <2>1, <2>2, UpsertHeld DEF StoreTypes_
    <2> QED BY <1>0, <1>2, <1>6, <2>3 DEF Upsert
  <1>7. CASE DeleteOne(w) /\ UNCHANGED errors
    <2>1. HeldOk'
      <3>1. CASE docs' = docs
        BY <3>1, <1>3
      <3>2. ASSUME NEW d \in WithId(t.coll, t.id), docs' = [docs EXCEPT ![t.coll] = @ (-) SetToBag({d})]
            PROVE  HeldOk'
        BY <1>1, <3>2, TakeHeld DEF StoreTypes_, WithId, Held, BagToSet
      <3> QED BY <1>7, <3>1, <3>2 DEF DeleteOne
    <2> QED BY <1>0, <1>2, <1>7, <2>1 DEF DeleteOne
  <1>8. CASE Query(w) /\ UNCHANGED errors
    <2>1. HeldOk'
      BY <1>0, <1>3, <1>8, QueryFacts
    <2>2. /\ request' \in [Workers -> Requests_] /\ \A v \in Workers : RequestOk(request'[v])
          /\ Asked' \in {Asked, Asked \ {w}}
      BY <1>0, <1>8, QueryFacts, ProceedTypes
    <2> QED BY <1>0, <1>8, <2>1, <2>2
  <1>9. CASE Fails(w)
    BY <1>0, <1>2, <1>3, <1>9 DEF Fails
  <1> QED BY <1>5, <1>6, <1>7, <1>8, <1>9 DEF Calls

LEMMA FateTypes ==
    ASSUME StoreTypes_, NEW c \in Contracts, NEW now \in {"written", "deleted"}, Becomes(c, now)
    PROVE  /\ fate' \in [Contracts -> {"new", "written", "deleted", "apart"}]
           /\ \A b \in Contracts \ {c} : fate'[b] = fate[b]
           /\ fate'[c] \in {now, "apart"}
           /\ fate'[c] = now => fate[c] # "apart" /\
                 \A v \in Workers : request[v].contract = c =>
                    request[v].op \notin (IF now = "deleted" THEN {"create", "update"} ELSE {"delete"})
           /\ fate'[c] = "written" /\ fate[c] = "deleted" => ClausesAre(c, "dict")
  BY DEF StoreTypes_, Becomes

LEMMA StoreStepTypes ==
    ASSUME StoreTypes_, NEW w \in Workers, StoreStep(w)
    PROVE  StoreTypes_'
  <1>1. IsFiniteSet(Asked) /\ Cardinality(Asked) \in Nat /\ errors \in Nat /\ served \in Nat
    BY FS_CardinalityType DEF StoreTypes_
  <1>2. ASSUME NEW op, NEW c \in Contracts \cup {"none"}, NEW calls \in Seq(CallSet), calls # <<>>,
               \A i \in DOMAIN calls : WriteOk(calls[i]), Begin(w, op, c, calls),
               fate' \in [Contracts -> {"new", "written", "deleted", "apart"}]
        PROVE  StoreTypes_'
    <2>1. /\ request' \in [Workers -> Requests_] /\ \A v \in Workers : RequestOk(request'[v])
          /\ Asked' = Asked \cup {w} /\ w \notin Asked /\ served' \in 0..MaxRequests
      BY <1>2, BeginTypes
    <2>2. IsFiniteSet(Asked') /\ Cardinality(Asked') = Cardinality(Asked) + 1
      BY <1>1, <2>1, FS_AddElement
    <2>3. served' = served + 1 /\ errors' = errors /\ docs' = docs
      BY <1>2 DEF Begin
    <2>4. HeldOk'
      BY <2>3 DEF StoreTypes_, HeldOk
    <2>5. Cardinality(Asked') <= served' /\ errors' + Cardinality(Asked') <= MaxErrors + served'
      BY <1>1, <2>2, <2>3, ContractStoreConstants DEF StoreTypes_
    <2> QED BY <1>1, <1>2, <2>1, <2>2, <2>3, <2>4, <2>5 DEF StoreTypes_
  <1>3. CASE \E s \in Specs : Create(w, s)
    <2>1. PICK s \in Specs : Create(w, s)
      BY <1>3
    <2>2. s.contract \in Contracts
      BY EntryFacts
    <2>3. fate' \in [Contracts -> {"new", "written", "deleted", "apart"}]
      BY <2>1, <2>2, FateTypes DEF Create
    <2> QED BY <1>2, <2>1, <2>2, <2>3, PlanFacts DEF Create
  <1>4. CASE \E s \in Specs : Update(w, s)
    <2>1. PICK s \in Specs : Update(w, s)
      BY <1>4
    <2>2. s.contract \in Contracts
      BY EntryFacts
    <2>3. fate' \in [Contracts -> {"new", "written", "deleted", "apart"}]
      BY <2>1, <2>2, FateTypes DEF Update
    <2> QED BY <1>2, <2>1, <2>2, <2>3, PlanFacts DEF Update
  <1>5. CASE \E c \in Contracts : Delete(w, c)
    <2>1. PICK c \in Contracts : Delete(w, c)
      BY <1>5
    <2>3. fate' \in [Contracts -> {"new", "written", "deleted", "apart"}]
      BY <2>1, FateTypes DEF Delete
    <2> QED BY <1>2, <2>1, <2>3, PlanFacts DEF Delete
  <1>6. CASE \E r \in Removable : Remove(w, r)
    <2>1. PICK r \in Removable : Remove(w, r)
      BY <1>6
    <2>3. fate' \in [Contracts -> {"new", "written", "deleted", "apart"}]
      BY <2>1 DEF Remove, StoreTypes_
    <2> DEFINE calls == << Call("delete", r.coll, r.id, NoDoc) >>
    <2>4. calls \in Seq(CallSet) /\ calls # <<>> /\ \A i \in DOMAIN calls : WriteOk(calls[i])
      BY PlanFacts
    <2>5. Begin(w, "remove", "none", calls)
      BY <2>1 DEF Remove
    <2> HIDE DEF calls
    <2> QED BY <1>2, <2>3, <2>4, <2>5
  <1>7. CASE Calls(w)
    <2>1. /\ HeldOk'
          /\ request' \in [Workers -> Requests_] /\ \A v \in Workers : RequestOk(request'[v])
          /\ Asked' \in {Asked, Asked \ {w}} /\ w \in Asked
          /\ served' = served /\ fate' = fate
          /\ \/ errors' = errors
             \/ errors' = errors + 1 /\ Asked' = Asked \ {w}
             \/ errors < MaxErrors /\ errors' = errors + 1
      BY <1>7, CallTypes
    <2>2. IsFiniteSet(Asked \ {w}) /\ Cardinality(Asked \ {w}) = Cardinality(Asked) - 1
      BY <1>1, <2>1, FS_RemoveElement
    <2>3. IsFiniteSet(Asked') /\ Cardinality(Asked') \in Nat
      BY <1>1, <2>1, <2>2, FS_CardinalityType
    <2>4. Cardinality(Asked') <= served' /\ errors' + Cardinality(Asked') <= MaxErrors + served'
      <3> DEFINE a == Cardinality(Asked)  b == Cardinality(Asked')
      <3>1. a \in Nat /\ b \in Nat /\ b <= a /\ a <= served /\ errors + a <= MaxErrors + served
        <4>1. a \in Nat /\ b \in Nat /\ a <= served /\ errors + a <= MaxErrors + served
          BY <1>1, <2>3 DEF StoreTypes_
        <4>2. b = a \/ b = a - 1
          BY <2>1, <2>2
        <4> HIDE DEF a, b
        <4> QED BY <4>1, <4>2
      <3>2. errors' = errors \/ (errors' = errors + 1 /\ b = a - 1)
            \/ (errors < MaxErrors /\ errors' = errors + 1)
        BY <2>1, <2>2
      <3>3. MaxErrors \in Nat /\ served' = served
        BY <2>1, ContractStoreConstants
      <3> HIDE DEF a, b
      <3>4. b <= served' /\ errors' + b <= MaxErrors + served'
        BY <1>1, <3>1, <3>2, <3>3
      <3> QED BY <3>4 DEF b
    <2>5. errors' \in Nat
      BY <1>1, <2>1
    <2> QED BY <2>1, <2>3, <2>4, <2>5 DEF StoreTypes_
  <1> QED BY <1>3, <1>4, <1>5, <1>6, <1>7 DEF StoreStep

LEMMA StoreStarts == StoreInit => StoreTypes_
  <1> SUFFICES ASSUME StoreInit PROVE StoreTypes_
    OBVIOUS
  <1>1. \A x \in Collections : docs[x] = EmptyBag
    BY DEF StoreInit
  <1>2. IsABag(EmptyBag) /\ DOMAIN EmptyBag = {}
    BY DEF EmptyBag, SetToBag, IsABag
  <1>3. HeldOk
    BY <1>1, <1>2, FS_EmptySet DEF StoreInit, HeldOk
  <1>4. \A w \in Workers : request[w] = Idle
    BY DEF StoreInit
  <1>5. Asked = {}
    BY <1>4 DEF Asked
  <1>6. RequestOk(Idle)
    BY IdleFacts DEF RequestOk
  <1>7. request \in [Workers -> Requests_] /\ \A w \in Workers : RequestOk(request[w])
    BY <1>4, <1>6, IdleFacts DEF StoreInit
  <1>8. Cardinality(Asked) = 0 /\ IsFiniteSet(Asked)
    BY <1>5, FS_EmptySet
  <1> QED BY <1>3, <1>7, <1>8, ContractStoreConstants DEF StoreInit, StoreTypes_

LEMMA StoreTypesStay == StoreTypes_ /\ [StoreNext]_storeVars => StoreTypes_'
  <1> SUFFICES ASSUME StoreTypes_, [StoreNext]_storeVars PROVE StoreTypes_'
    OBVIOUS
  <1>1. CASE StoreNext
    BY <1>1, StoreStepTypes DEF StoreNext
  <1>2. CASE UNCHANGED storeVars
    BY <1>2 DEF storeVars, StoreTypes_, HeldOk, Asked
  <1> QED BY <1>1, <1>2

(* The variables of the store keep their types: whatever requests, errors  *)
(* and refusals interleave, what collections hold are documents.           *)
THEOREM StoreTypes == StoreSpec => []StoreTypeOK
  <1>1. StoreTypes_ => StoreTypeOK
    <2> SUFFICES ASSUME StoreTypes_ PROVE StoreTypeOK
      OBVIOUS
    <2>1. Cardinality(Asked) \in Nat
      BY FS_CardinalityType DEF StoreTypes_
    <2>2. \A w \in Workers : request[w] = Idle \/ request[w].todo # <<>>
      BY DEF StoreTypes_, RequestOk
    <2>3. \A x \in Collections : IsABag(docs[x]) /\ \A d \in Held(x) : Document(d)
      BY DEF StoreTypes_, HeldOk, Drawn, Held, BagToSet
    <2>4. errors \in 0..(MaxErrors + MaxRequests)
      BY <2>1, ContractStoreConstants DEF StoreTypes_
    <2> QED BY <2>2, <2>3, <2>4 DEF StoreTypes_, StoreTypeOK, HeldOk
  <1> QED BY <1>1, StoreStarts, StoreTypesStay, PTL DEF StoreSpec

-----------------------------------------------------------------------------
(* How many deletions of an id a list of calls holds, against how many     *)
(* documents have it.                                                      *)
Placed(todo, x, id) ==
    {i \in DOMAIN todo : todo[i].do = "delete" /\ todo[i].coll = x /\ todo[i].id = id}
Places(todo, x, id) == Cardinality(Placed(todo, x, id))
Stock(x, id) == Cardinality(Copies(docs[x], WithId(x, id)))

LEMMA PlacesFinite ==
    ASSUME NEW todo \in Seq(CallSet), NEW x, NEW id
    PROVE  IsFiniteSet(Placed(todo, x, id)) /\ Places(todo, x, id) \in Nat
  <1>1. Len(todo) \in Nat /\ DOMAIN todo = 1..Len(todo)
    BY LenProperties
  <1>2. IsFiniteSet(1..Len(todo))
    BY <1>1, 1 \in Int, Len(todo) \in Int, FS_Interval
  <1>3. Placed(todo, x, id) \in SUBSET (1..Len(todo))
    BY <1>1 DEF Placed
  <1>4. IsFiniteSet(Placed(todo, x, id))
    BY <1>2, <1>3, FS_Subset
  <1> QED BY <1>4, FS_CardinalityType DEF Places

(* The head of a list answers for one deletion if it is one.               *)
LEMMA PlacesTail ==
    ASSUME NEW todo \in Seq(CallSet), todo # <<>>, NEW x, NEW id
    PROVE  Places(Tail(todo), x, id) =
              IF todo[1].do = "delete" /\ todo[1].coll = x /\ todo[1].id = id
              THEN Places(todo, x, id) - 1 ELSE Places(todo, x, id)
  <1> DEFINE n == Len(todo)  u == Tail(todo)
             P == Placed(todo, x, id)  Q == Placed(u, x, id)
             f == [i \in P \ {1} |-> i - 1]
  <1>1. /\ n \in Nat \ {0} /\ DOMAIN todo = 1..n /\ DOMAIN u = 1..(n - 1)
        /\ \A i \in 1..(n - 1) : u[i] = todo[i + 1]
    BY EmptySeq, HeadTailProperties, LenProperties
  <1>2. IsFiniteSet(P) /\ IsFiniteSet(P \ {1})
    BY PlacesFinite, FS_RemoveElement
  <1>3. Cardinality(P \ {1}) = IF 1 \in P THEN Cardinality(P) - 1 ELSE Cardinality(P)
    BY <1>2, FS_RemoveElement
  <1> HIDE DEF n, u
  <1>4. \A i \in P \ {1} : i \in 2..n /\ i - 1 \in 1..(n - 1) /\ u[i - 1] = todo[i]
    <2>1. \A i \in P \ {1} : i \in 2..n
      BY <1>1 DEF Placed
    <2>2. ASSUME NEW i \in P \ {1} PROVE i - 1 \in 1..(n - 1) /\ u[i - 1] = todo[i]
      <3>1. i \in 2..n
        BY <2>1
      <3>2. i - 1 \in 1..(n - 1) /\ (i - 1) + 1 = i
        BY <3>1, <1>1
      <3> QED BY <3>2, <1>1
    <2> QED BY <2>1, <2>2
  <1>5. f \in [P \ {1} -> Q]
    BY <1>1, <1>4 DEF Placed
  <1>6. \A a, b \in P \ {1} : f[a] = f[b] => a = b
    BY <1>1, <1>4
  <1>7. \A j \in Q : \E i \in P \ {1} : f[i] = j
    <2> TAKE j \in Q
    <2>1. j \in 1..(n - 1) /\ u[j] = todo[j + 1]
      BY <1>1 DEF Placed
    <2>2. j + 1 \in 1..n /\ j + 1 # 1 /\ (j + 1) - 1 = j
      BY <1>1, <2>1
    <2>3. j + 1 \in P
      BY <1>1, <2>1, <2>2 DEF Placed
    <2>4. j + 1 \in P \ {1} /\ f[j + 1] = j
      BY <2>2, <2>3
    <2> QED BY <2>4
  <1>8. f \in Bijection(P \ {1}, Q)
    <2> DEFINE S == P \ {1}
    <2>1. f \in [S -> Q] /\ (\A a, b \in S : f[a] = f[b] => a = b) /\ \A j \in Q : \E i \in S : f[i] = j
      BY <1>5, <1>6, <1>7
    <2> HIDE DEF f, S, Q
    <2>2. f \in Bijection(S, Q)
      BY <2>1 DEF Bijection, Injection, Surjection, IsInjective
    <2> QED BY <2>2 DEF S
  <1>9. Cardinality(Q) = Cardinality(P \ {1})
    <2>1. ExistsBijection(P \ {1}, Q)
      BY <1>8 DEF ExistsBijection
    <2> HIDE DEF P, Q
    <2> QED BY <2>1, <1>2, FS_Bijection
  <1>10. 1 \in P <=> todo[1].do = "delete" /\ todo[1].coll = x /\ todo[1].id = id
    BY <1>1 DEF Placed
  <1> QED BY <1>3, <1>9, <1>10 DEF Places, u

(* Members of a concatenation.                                             *)
LEMMA ConcatMembers ==
    ASSUME NEW S, NEW a \in Seq(S), NEW b \in Seq(S)
    PROVE  /\ a \o b \in Seq(S) /\ Len(a \o b) = Len(a) + Len(b) /\ Len(a) \in Nat /\ Len(b) \in Nat
           /\ DOMAIN (a \o b) = 1..(Len(a) + Len(b)) /\ DOMAIN a = 1..Len(a) /\ DOMAIN b = 1..Len(b)
           /\ \A i \in 1..Len(a) : i \in DOMAIN (a \o b) /\ (a \o b)[i] = a[i]
           /\ \A i \in 1..Len(b) : Len(a) + i \in DOMAIN (a \o b) /\ (a \o b)[Len(a) + i] = b[i]
           /\ \A i \in DOMAIN (a \o b) : i \in 1..Len(a) \/ i - Len(a) \in 1..Len(b)
           /\ \A i \in DOMAIN (a \o b) : i - Len(a) \in 1..Len(b) => (a \o b)[i] = b[i - Len(a)]
  <1> DEFINE c == a \o b  n == Len(a)  m == Len(b)
  <1>1. c \in Seq(S) /\ Len(c) = n + m /\ n \in Nat /\ m \in Nat
        /\ \A i \in 1..(n + m) : c[i] = IF i <= n THEN a[i] ELSE b[i - n]
    BY ConcatProperties, LenProperties
  <1>2. DOMAIN c = 1..(n + m) /\ DOMAIN a = 1..n /\ DOMAIN b = 1..m
    BY <1>1, LenProperties
  <1> HIDE DEF c, n, m
  <1>3. \A i \in 1..n : i \in 1..(n + m) /\ c[i] = a[i]
    BY <1>1
  <1>4. \A i \in 1..m : n + i \in 1..(n + m) /\ ~(n + i <= n) /\ (n + i) - n = i
    BY <1>1
  <1>5. \A i \in 1..m : n + i \in 1..(n + m) /\ c[n + i] = b[i]
    BY <1>1, <1>4
  <1>6. \A i \in 1..(n + m) : i \in 1..n \/ i - n \in 1..m
    BY <1>1
  <1>7. \A i \in 1..(n + m) : i - n \in 1..m => ~(i <= n)
    BY <1>1
  <1> QED BY <1>1, <1>2, <1>3, <1>5, <1>6, <1>7 DEF c, n, m

LEMMA PlacesConcat ==
    ASSUME NEW a \in Seq(CallSet), NEW b \in Seq(CallSet), NEW x, NEW id
    PROVE  Places(a, x, id) <= Places(a \o b, x, id) /\ Places(b, x, id) <= Places(a \o b, x, id)
  <1> DEFINE c == a \o b  A == Placed(a, x, id)  B == Placed(b, x, id)  C == Placed(c, x, id)
             n == Len(a)
             f == [i \in B |-> n + i]
  <1>1. c \in Seq(CallSet) /\ IsFiniteSet(C)
    BY ConcatMembers, PlacesFinite
  <1>2. A \in SUBSET C
    BY ConcatMembers DEF Placed
  <1>3. f \in Injection(B, C)
    <2>1. \A i \in B : i \in 1..Len(b) /\ n + i \in C
      BY ConcatMembers DEF Placed
    <2>2. n \in Nat /\ Len(b) \in Nat
      BY ConcatMembers
    <2> HIDE DEF n, B, C
    <2>3. f \in [B -> C] /\ \A i, j \in B : f[i] = f[j] => i = j
      BY <2>1, <2>2
    <2> QED BY <2>3 DEF Injection, IsInjective
  <1> HIDE DEF A, B, C, f
  <1>4. Cardinality(A) <= Cardinality(C)
    BY <1>1, <1>2, FS_Subset
  <1>5. Cardinality(B) <= Cardinality(C)
    BY <1>1, <1>3, FS_Injection
  <1> QED BY <1>4, <1>5 DEF A, B, C, c, Places

(* A query that finds all documents with an id lists as many deletions.    *)
LEMMA ListedStock ==
    ASSUME HeldOk, NEW x \in Collections, NEW found \in SUBSET Held(x), NEW q \in Listed(x, found),
           NEW id, WithId(x, id) \subseteq found
    PROVE  Stock(x, id) <= Cardinality({i \in 1..Len(q) : q[i].id = id})
  <1> DEFINE n == Len(q)
             B == docs[x]
             at(d) == {i \in 1..n : q[i] = d}
             I == {i \in 1..n : q[i].id = id}
             D == WithId(x, id)
             g == [d \in D |-> CHOOSE f \in [1..B[d] -> at(d)] : f \in Bijection(1..B[d], at(d))]
             h == [p \in Copies(B, D) |-> g[p[1]][p[2]]]
  <1>1. n \in Nat /\ q \in Seq(found) /\ \A d \in found : Cardinality(at(d)) = B[d]
    BY ListedFacts
  <1>2. IsFiniteSet(1..n)
    BY <1>1, 1 \in Int, n \in Int, FS_Interval
  <1>3. \A d \in D : d \in found /\ d.id = id /\ B[d] \in Nat
    BY HeldFacts DEF WithId
  <1>4. ASSUME NEW d \in D
        PROVE  \E f \in [1..B[d] -> at(d)] : f \in Bijection(1..B[d], at(d))
    <2>1. at(d) \in SUBSET (1..n)
      OBVIOUS
    <2>2. IsFiniteSet(at(d)) /\ Cardinality(at(d)) = B[d] /\ B[d] \in Nat
      BY <1>1, <1>2, <1>3, <2>1, FS_Subset
    <2> HIDE DEF at
    <2>3. ExistsBijection(1..B[d], at(d))
      BY <2>2, FS_CardinalityType
    <2>4. PICK f : f \in Bijection(1..B[d], at(d))
      BY <2>3 DEF ExistsBijection
    <2>5. f \in [1..B[d] -> at(d)]
      BY <2>4 DEF Bijection, Injection, IsInjective
    <2> QED BY <2>4, <2>5
  <1>5. ASSUME NEW d \in D
        PROVE  /\ g[d] \in [1..B[d] -> at(d)]
               /\ \A k, l \in 1..B[d] : g[d][k] = g[d][l] => k = l
    <2> DEFINE F(f) == f \in Bijection(1..B[d], at(d))
    <2>1. g[d] = CHOOSE f \in [1..B[d] -> at(d)] : F(f)
      OBVIOUS
    <2>2. \E f \in [1..B[d] -> at(d)] : F(f)
      BY <1>4
    <2> HIDE DEF F, g
    <2>3. g[d] \in [1..B[d] -> at(d)] /\ F(g[d])
      BY <2>1, <2>2
    <2>4. g[d] \in Bijection(1..B[d], at(d))
      BY <2>3 DEF F
    <2>5. \A k, l \in 1..B[d] : g[d][k] = g[d][l] => k = l
      BY <2>4 DEF Bijection, Injection, IsInjective
    <2> QED BY <2>3, <2>5
  <1>6. \A p \in Copies(B, D) : p[1] \in D /\ p[2] \in 1..B[p[1]] /\ p = <<p[1], p[2]>>
    BY DEF Copies
  <1> HIDE DEF g
  <1>7. ASSUME NEW p \in Copies(B, D)
        PROVE  h[p] = g[p[1]][p[2]] /\ h[p] \in 1..n /\ q[h[p]] = p[1] /\ h[p] \in I
    <2>1. g[p[1]][p[2]] \in at(p[1])
      <3>1. p[1] \in D /\ p[2] \in 1..B[p[1]]
        BY <1>6
      <3> HIDE DEF h, at, B, D
      <3>2. g[p[1]] \in [1..B[p[1]] -> at(p[1])]
        BY <1>5, <3>1
      <3> QED BY <3>1, <3>2
    <2> QED BY <1>3, <1>6, <2>1
  <1>8. ASSUME NEW p \in Copies(B, D), NEW r \in Copies(B, D), h[p] = h[r] PROVE p = r
    <2>1. p[1] = r[1]
      BY <1>7, <1>8
    <2>2. p[2] = r[2]
      <3>1. p[1] \in D /\ p[2] \in 1..B[p[1]] /\ r[2] \in 1..B[p[1]]
        BY <1>6, <2>1
      <3>2. h[p] = g[p[1]][p[2]] /\ h[r] = g[r[1]][r[2]]
        BY <1>7
      <3> HIDE DEF h, at, B, D
      <3>3. g[p[1]][p[2]] = g[p[1]][r[2]]
        BY <1>8, <2>1, <3>2
      <3> QED BY <1>5, <3>1, <3>3
    <2> QED BY <1>6, <2>1, <2>2
  <1> DEFINE S == Copies(B, D)
  <1>9. h \in [S -> I] /\ \A p, r \in S : h[p] = h[r] => p = r
    BY <1>7, <1>8
  <1>10. I \in SUBSET (1..n)
    OBVIOUS
  <1>11. IsFiniteSet(I)
    BY <1>2, <1>10, FS_Subset
  <1> HIDE DEF h, S, I
  <1>12. h \in Injection(S, I)
    BY <1>9 DEF Injection, IsInjective
  <1>13. Cardinality(S) <= Cardinality(I)
    BY <1>11, <1>12, FS_Injection
  <1> QED BY <1>13 DEF S, I, Stock

-----------------------------------------------------------------------------
(* What the calls do to documents.  Only those of one id in one collection *)
(* are touched.                                                            *)
Untouched(x, id) ==
    \A y \in Collections : \A d : y # x \/ d.id # id =>
        /\ d \in Held(y)' <=> d \in Held(y)
        /\ d \in Held(y) => docs'[y][d] = docs[y][d]

LEMMA StockFacts ==
    ASSUME HeldOk, NEW x \in Collections, NEW id
    PROVE  /\ IsFiniteSet(Copies(docs[x], WithId(x, id))) /\ Stock(x, id) \in Nat
           /\ WithId(x, id) # {} => Stock(x, id) > 0
  <1> DEFINE S == Copies(docs[x], WithId(x, id))
  <1>1. IsABag(docs[x]) /\ IsFiniteSet(DOMAIN docs[x]) /\ WithId(x, id) \in SUBSET DOMAIN docs[x]
    BY DEF HeldOk, WithId, Held, BagToSet
  <1>2. IsFiniteSet(S)
    BY <1>1, CopiesFinite
  <1>3. ASSUME NEW d \in WithId(x, id) PROVE S # {}
    <2>1. 1 \in 1..docs[x][d]
      BY HeldFacts DEF WithId
    <2>2. <<d, 1>> \in S
      BY <2>1 DEF Copies
    <2> QED BY <2>2
  <1> HIDE DEF S
  <1>4. Cardinality(S) \in Nat /\ (S # {} => Cardinality(S) # 0)
    BY <1>2, FS_CardinalityType, FS_EmptySet
  <1> QED BY <1>2, <1>3, <1>4 DEF S, Stock

LEMMA UntouchedStock ==
    ASSUME NEW x, NEW id, Untouched(x, id), NEW y \in Collections, NEW other, y # x \/ other # id
    PROVE  WithId(y, other)' = WithId(y, other) /\ Stock(y, other)' = Stock(y, other)
  <1>1. \A d : d.id = other => y # x \/ d.id # id
    OBVIOUS
  <1>2. WithId(y, other)' = WithId(y, other)
    BY <1>1 DEF Untouched, WithId
  <1>3. \A d \in WithId(y, other) : docs'[y][d] = docs[y][d]
    BY <1>1 DEF Untouched, WithId
  <1>4. Copies(docs'[y], WithId(y, other)) = Copies(docs[y], WithId(y, other))
    BY <1>3 DEF Copies
  <1> QED BY <1>2, <1>4 DEF Stock

LEMMA PutEffect ==
    ASSUME HeldOk, NEW x \in Collections, NEW d,
           docs' = [docs EXCEPT ![x] = @ (+) SetToBag({d})]
    PROVE  Untouched(x, d.id) /\ Held(x)' = Held(x) \cup {d}
  <1> DEFINE B == docs[x]  C == B (+) SetToBag({d})
  <1>1. IsABag(B) /\ IsFiniteSet(DOMAIN B)
    BY DEF HeldOk
  <1>2. DOMAIN C = DOMAIN B \cup {d} /\ \A e \in DOMAIN B \ {d} : C[e] = B[e]
    BY <1>1, OneMore
  <1> HIDE DEF C
  <1>3. docs'[x] = C /\ \A y \in Collections \ {x} : docs'[y] = docs[y]
    BY DEF HeldOk, C
  <1> QED BY <1>2, <1>3 DEF Untouched, Held, BagToSet

LEMMA TakeEffect ==
    ASSUME HeldOk, NEW x \in Collections, NEW id, NEW d \in WithId(x, id),
           docs' = [docs EXCEPT ![x] = @ (-) SetToBag({d})]
    PROVE  /\ Untouched(x, id) /\ Held(x)' \subseteq Held(x) /\ Held(x) \ {d} \subseteq Held(x)'
           /\ Stock(x, id)' = Stock(x, id) - 1
  <1> DEFINE B == docs[x]  C == B (-) SetToBag({d})
  <1>1. IsABag(B) /\ IsFiniteSet(DOMAIN B) /\ d \in DOMAIN B /\ d.id = id
    BY DEF HeldOk, WithId, Held, BagToSet
  <1>2. /\ DOMAIN C = IF B[d] = 1 THEN DOMAIN B \ {d} ELSE DOMAIN B
        /\ \A e \in DOMAIN B \ {d} : C[e] = B[e]
        /\ B[d] # 1 => C[d] = B[d] - 1
    BY <1>1, OneLess
  <1> HIDE DEF C
  <1>3. docs'[x] = C /\ \A y \in Collections \ {x} : docs'[y] = docs[y]
    BY DEF HeldOk, C
  <1>4. Untouched(x, id) /\ Held(x)' \subseteq Held(x) /\ Held(x) \ {d} \subseteq Held(x)'
    BY <1>1, <1>2, <1>3 DEF Untouched, Held, BagToSet
  <1> DEFINE S == Copies(B, WithId(x, id))
             T == Copies(C, WithId(x, id)')
             top == <<d, B[d]>>
  <1>5. \A e \in DOMAIN B : B[e] \in Nat \ {0}
    BY <1>1 DEF IsABag
  <1>6. WithId(x, id) = {e \in DOMAIN B : e.id = id} /\ WithId(x, id)' = {e \in DOMAIN C : e.id = id}
    BY <1>3 DEF WithId, Held, BagToSet
  <1>7. top \in S
    BY <1>1, <1>5, <1>6 DEF Copies
  <1>8. T = S \ {top}
    <2>1. ASSUME NEW e, NEW k PROVE <<e, k>> \in T <=> <<e, k>> \in S \ {top}
      <3>1. <<e, k>> \in T <=> e \in DOMAIN C /\ e.id = id /\ k \in 1..C[e]
        BY <1>6 DEF Copies
      <3>2. <<e, k>> \in S <=> e \in DOMAIN B /\ e.id = id /\ k \in 1..B[e]
        BY <1>6 DEF Copies
      <3>3. CASE e # d
        BY <1>2, <3>1, <3>2, <3>3
      <3>4. CASE e = d /\ B[d] = 1
        BY <1>1, <1>2, <3>1, <3>2, <3>4
      <3>5. CASE e = d /\ B[d] # 1
        <4>1. B[d] \in Nat \ {0} /\ C[d] = B[d] - 1 /\ d \in DOMAIN C
          BY <1>1, <1>2, <1>5, <3>5
        <4>2. k \in 1..(B[d] - 1) <=> k \in 1..B[d] /\ k # B[d]
          BY <4>1
        <4> QED BY <1>1, <3>1, <3>2, <3>5, <4>1, <4>2
      <3> QED BY <3>3, <3>4, <3>5
    <2>2. \A p \in S \cup T : p = <<p[1], p[2]>>
      BY DEF Copies
    <2> QED BY <2>1, <2>2
  <1>9. IsFiniteSet(S)
    BY StockFacts
  <1> HIDE DEF S, T, top
  <1>10. Cardinality(T) = Cardinality(S) - 1
    BY <1>7, <1>8, <1>9, FS_RemoveElement
  <1>11. Stock(x, id)' = Cardinality(T) /\ Stock(x, id) = Cardinality(S)
    BY <1>3 DEF Stock, S, T
  <1> QED BY <1>4, <1>10, <1>11

-----------------------------------------------------------------------------
(* What it means for documents that specifications keep to one shape.      *)
LEMMA EntriesAgree ==
    ASSUME WellShaped, NEW e \in Entries_, NEW f \in Entries_,
           e.coll = f.coll, e.doc.id = f.doc.id
    PROVE  /\ e.doc.of = f.doc.of
           /\ e.doc.clause.form = "none" \/ f.doc.clause.form = "none" \/ e.doc.clause = f.doc.clause
  <1>1. PICK s \in Specs : \E i \in DOMAIN s.docs : e = s.docs[i]
    BY EntryFacts
  <1>2. PICK i \in DOMAIN s.docs : e = s.docs[i]
    BY <1>1
  <1>3. PICK t \in Specs : \E j \in DOMAIN t.docs : f = t.docs[j]
    BY EntryFacts
  <1>4. PICK j \in DOMAIN t.docs : f = t.docs[j]
    BY <1>3
  <1> QED BY <1>2, <1>4 DEF WellShaped, SpecsAgree

(* A document is of one contract only.                                     *)
LEMMA OneHome ==
    ASSUME WellShaped, NEW x, NEW id, NEW b, NEW c, InSpecsOf(b, x, id), InSpecsOf(c, x, id)
    PROVE  b = c
  BY DEF InSpecsOf, WellShaped, SpecsAgree

(* A sub-contract in the store is of the contract that it names, and of    *)
(* the form of clause data that the specifications of that contract use.   *)
LEMMA SubHome ==
    ASSUME WellShaped, HeldOk, NEW d \in Held("sub_contracts")
    PROVE  /\ d.of \in Contracts /\ InSpecsOf(d.of, "sub_contracts", d.id)
           /\ \A c \in Contracts : InSpecsOf(c, "sub_contracts", d.id) => d.of = c
           /\ \A form : ClausesAre(d.of, form) => d.clause.form \in {"none", form}
  <1> DEFINE x == "sub_contracts"
  <1>0. x \in Collections
    BY DEF Collections
  <1>1. PICK e \in Entries_ : From(x, d, e) /\ e.doc.of = d.of
    BY <1>0, HeldFacts DEF Drawn
  <1>2. PICK s \in Specs : \E i \in DOMAIN s.docs : e = s.docs[i]
    BY EntryFacts
  <1>3. PICK i \in DOMAIN s.docs : e = s.docs[i]
    BY <1>2
  <1>4. s.contract = d.of /\ s.contract \in Contracts
    BY <1>1, <1>3, EntryFacts DEF WellShaped, SpecsNest, From
  <1>5. InSpecsOf(d.of, x, d.id)
    BY <1>1, <1>3, <1>4 DEF InSpecsOf, From
  <1>6. \A c \in Contracts : InSpecsOf(c, x, d.id) => d.of = c
    BY <1>5, OneHome
  <1>7. ASSUME NEW form, ClausesAre(d.of, form) PROVE d.clause.form \in {"none", form}
    <2>1. PICK f \in Entries_ : From(x, d, f) /\ f.doc.clause = d.clause
      BY <1>0, HeldFacts DEF Drawn
    <2>2. PICK t \in Specs : \E j \in DOMAIN t.docs : f = t.docs[j]
      BY EntryFacts
    <2>3. PICK j \in DOMAIN t.docs : f = t.docs[j]
      BY <2>2
    <2>4. t.contract = d.of
      BY <1>5, <2>1, <2>3, OneHome DEF InSpecsOf, From
    <2> QED BY <1>7, <2>1, <2>3, <2>4 DEF ClausesAre
  <1> QED BY <1>4, <1>5, <1>6, <1>7

(* What a write leaves: the entry's own document, and every sub-contract   *)
(* with the clauses that it had.                                           *)
Wrote(e) ==
    /\ Untouched(e.coll, e.doc.id)
    /\ \A d \in Held(e.coll)' :
          \/ d \in Held(e.coll)
          \/ /\ d.id = e.doc.id /\ d.of = e.doc.of
             /\ \E o \in Held(e.coll) \cup {e.doc} : o.id = e.doc.id /\
                   (o.fields = "all" /\ e.doc.fields = "all" => d.fields = "all")
    /\ \A o \in Held(e.coll) : \E p \in Held(e.coll)' :
          p.of = o.of /\ (o.clause.form # "none" => p.clause = o.clause)
    /\ e.doc.clause.form # "none" => \E p \in Held(e.coll)' :
          p.of = e.doc.of /\ p.clause = e.doc.clause

LEMMA PutWrote ==
    ASSUME HeldOk, NEW e \in Entries_, docs' = [docs EXCEPT ![e.coll] = @ (+) SetToBag({e.doc})]
    PROVE  Wrote(e)
  <1>1. e.coll \in Collections
    BY EntryFacts
  <1>2. Untouched(e.coll, e.doc.id) /\ Held(e.coll)' = Held(e.coll) \cup {e.doc}
    BY <1>1, PutEffect
  <1> QED BY <1>2 DEF Wrote

LEMMA UpsertWrote ==
    ASSUME WellShaped, HeldOk, NEW e \in Entries_,
           NEW bag \in Upserted(docs[e.coll], e.doc), docs' = [docs EXCEPT ![e.coll] = bag]
    PROVE  Wrote(e)
  <1> DEFINE x == e.coll
             B == docs[x]
             olds == {o \in BagToSet(B) : o.id = e.doc.id}
  <1>0. x \in Collections /\ IsABag(B) /\ IsFiniteSet(DOMAIN B)
    BY EntryFacts DEF HeldOk
  <1>1. CASE olds = {}
    <2>1. bag = B (+) SetToBag({e.doc})
      BY <1>1 DEF Upserted
    <2> QED BY <2>1, PutWrote
  <1>2. CASE olds # {}
    <2>1. PICK o \in olds : bag = (B (-) SetToBag({o})) (+) SetToBag({Merge(o, e.doc)})
      BY <1>2 DEF Upserted
    <2> DEFINE C == B (-) SetToBag({o})  m == Merge(o, e.doc)  D == C (+) SetToBag({m})
    <2>2. o \in DOMAIN B /\ o.id = e.doc.id /\ o \in Held(x)
      BY DEF BagToSet, Held
    <2>3. /\ IsABag(C) /\ IsFiniteSet(DOMAIN C) /\ DOMAIN C \subseteq DOMAIN B
          /\ DOMAIN B \ {o} \subseteq DOMAIN C /\ \A d \in DOMAIN B \ {o} : C[d] = B[d]
      BY <1>0, <2>2, OneLess
    <2>4. Drawn(x, o) /\ From(x, o, e)
      BY <1>0, <2>2, HeldFacts DEF From
    <2>5. /\ m.id = e.doc.id /\ m.of = e.doc.of
          /\ m.clause = IF e.doc.clause.form = "none" THEN o.clause ELSE e.doc.clause
      BY <2>4, MergeFacts
    <2> HIDE DEF C, m
    <2>6. DOMAIN D = DOMAIN C \cup {m} /\ \A d \in DOMAIN C \ {m} : D[d] = C[d]
      BY <2>3, OneMore
    <2> HIDE DEF D
    <2>7. docs'[x] = D /\ \A y \in Collections \ {x} : docs'[y] = docs[y]
      BY <1>0, <2>1 DEF HeldOk, C, D, m
    <2>8. Untouched(x, e.doc.id)
      <3>1. ASSUME NEW d, d.id # e.doc.id
            PROVE  (d \in DOMAIN D <=> d \in DOMAIN B) /\ (d \in DOMAIN B => D[d] = B[d])
        BY <2>2, <2>3, <2>5, <2>6, <3>1
      <3> QED BY <2>7, <3>1 DEF Untouched, Held, BagToSet
    <2>9. \A d \in Held(x)' : d \in Held(x) \/ d = m
      BY <2>3, <2>6, <2>7 DEF Held, BagToSet
    <2>15. o.fields = "all" /\ e.doc.fields = "all" => m.fields = "all"
      <3>1. Document(e.doc)
        BY EntryFacts
      <3> QED BY <3>1 DEF m, Merge, Document
    <2>10. m \in Held(x)' /\ \A d \in Held(x) \ {o} : d \in Held(x)'
      BY <2>3, <2>6, <2>7 DEF Held, BagToSet
    <2>11. o.of = e.doc.of
      <3>1. PICK f \in Entries_ : From(x, o, f) /\ f.doc.of = o.of
        BY <2>4 DEF Drawn
      <3> QED BY <3>1, <2>2, EntriesAgree DEF From
    <2>12. o.clause.form # "none" => m.clause = o.clause
      <3>1. PICK f \in Entries_ : From(x, o, f) /\ f.doc.clause = o.clause
        BY <2>4 DEF Drawn
      <3>2. e.doc.clause.form = "none" \/ f.doc.clause.form = "none" \/ e.doc.clause = f.doc.clause
        BY <3>1, <2>2, EntriesAgree DEF From
      <3> QED BY <3>1, <3>2, <2>5
    <2>13. e.doc.clause.form # "none" => m.clause = e.doc.clause
      BY <2>5
    <2>14. ASSUME NEW d \in Held(x)
           PROVE  \E p \in Held(x)' : p.of = d.of /\ (d.clause.form # "none" => p.clause = d.clause)
      <3>1. CASE d = o
        BY <3>1, <2>5, <2>10, <2>11, <2>12
      <3>2. CASE d # o
        BY <3>2, <2>10
      <3> QED BY <3>1, <3>2
    <2>16. \A d \in Held(x)' :
              \/ d \in Held(x)
              \/ /\ d.id = e.doc.id /\ d.of = e.doc.of
                 /\ \E p \in Held(x) \cup {e.doc} : p.id = e.doc.id /\
                       (p.fields = "all" /\ e.doc.fields = "all" => d.fields = "all")
      BY <2>2, <2>5, <2>9, <2>15
    <2> QED BY <2>5, <2>8, <2>10, <2>13, <2>14, <2>16 DEF Wrote
  <1> QED BY <1>1, <1>2

-----------------------------------------------------------------------------
(* The lists of calls that requests work off.  A write goes through one    *)
(* specification; a deletion asks for the documents of a clause after the  *)
(* sub-contracts, and deletes the sub-contracts of its contract only.      *)
Writing(c, todo, s, k) ==
    /\ s \in Specs /\ s.contract = c
    /\ k \in 0..(Len(s.docs) - 1) /\ Len(todo) = Len(s.docs) - k
    /\ \A i \in 1..Len(todo) : /\ todo[i].do \in {"insert", "update"}
                               /\ todo[i].coll = s.docs[k + i].coll
                               /\ todo[i].doc = s.docs[k + i].doc
                               /\ todo[i].id = s.docs[k + i].doc.id
Asking(call, x) == call.do = "query" /\ call.coll = x
Deleting(c, todo) ==
    /\ \A i \in DOMAIN todo :
          /\ todo[i].do \in {"delete", "query"}
          /\ todo[i].do = "query" => todo[i].coll # "contracts"
          /\ todo[i].do = "delete" /\ todo[i].coll = "sub_contracts" =>
                InSpecsOf(c, "sub_contracts", todo[i].id)
          /\ todo[i].coll = "sub_contracts" =>
                \A x \in Kinds : \E j \in DOMAIN todo : i < j /\ Asking(todo[j], x)
    /\ \A i, j \in DOMAIN todo : i < j /\ todo[i].do = "query" => ~Asking(todo[j], "sub_contracts")
Shaped(r) ==
    /\ r.op \in {"create", "update"} =>
          r.contract \in Contracts /\ \E s \in Specs, k \in Nat : Writing(r.contract, r.todo, s, k)
    /\ r.op = "delete" =>
          /\ r.contract \in Contracts /\ Deleting(r.contract, r.todo)
          /\ \A i \in DOMAIN r.todo : Asking(r.todo[i], "sub_contracts") => r.clauses = {}
    /\ r.op = "remove" => \A i \in DOMAIN r.todo : r.todo[i].do = "delete"
ShapesOk == \A w \in Workers : Shaped(request[w])

LEMMA PopWriting ==
    ASSUME NEW todo \in Seq(CallSet), todo # <<>>, NEW c, NEW s, NEW k, Writing(c, todo, s, k)
    PROVE  /\ k + 1 \in DOMAIN s.docs /\ k \in Nat /\ s.docs[k + 1] \in Entries_
           /\ todo[1].do \in {"insert", "update"} /\ todo[1].coll = s.docs[k + 1].coll
           /\ todo[1].doc = s.docs[k + 1].doc /\ todo[1].id = s.docs[k + 1].doc.id
           /\ Tail(todo) # <<>> => Writing(c, Tail(todo), s, k + 1)
  <1> DEFINE n == Len(todo)  u == Tail(todo)  m == Len(s.docs)
  <1>1. /\ n \in Nat \ {0} /\ Len(u) = n - 1 /\ u \in Seq(CallSet)
        /\ \A i \in 1..(n - 1) : u[i] = todo[i + 1]
    BY EmptySeq, HeadTailProperties, LenProperties
  <1>2. m \in Nat \ {0} /\ DOMAIN s.docs = 1..m /\ \A i \in 1..m : s.docs[i] \in Entries_
    BY EntryFacts DEF Writing
  <1>3. k \in 0..(m - 1) /\ n = m - k
    BY DEF Writing
  <1>4. k + 1 \in 1..m /\ k \in Nat /\ 1 \in 1..n
    BY <1>1, <1>2, <1>3
  <1>5. /\ todo[1].do \in {"insert", "update"} /\ todo[1].coll = s.docs[k + 1].coll
        /\ todo[1].doc = s.docs[k + 1].doc /\ todo[1].id = s.docs[k + 1].doc.id
    BY <1>4 DEF Writing
  <1>6. ASSUME u # <<>> PROVE Writing(c, u, s, k + 1)
    <2>1. Len(u) # 0
      BY <1>1, <1>6, EmptySeq
    <2> HIDE DEF n, u, m
    <2>2. k + 1 \in 0..(m - 1) /\ Len(u) = m - (k + 1)
      BY <1>1, <1>2, <1>3, <2>1
    <2>3. ASSUME NEW i \in 1..Len(u)
          PROVE  /\ u[i].do \in {"insert", "update"} /\ u[i].coll = s.docs[(k + 1) + i].coll
                 /\ u[i].doc = s.docs[(k + 1) + i].doc /\ u[i].id = s.docs[(k + 1) + i].doc.id
      <3>1. i \in 1..(n - 1) /\ i + 1 \in 1..n /\ (k + 1) + i = k + (i + 1)
        BY <1>1, <1>4
      <3>2. u[i] = todo[i + 1]
        BY <1>1, <3>1
      <3>3. /\ todo[i + 1].do \in {"insert", "update"} /\ todo[i + 1].coll = s.docs[k + (i + 1)].coll
            /\ todo[i + 1].doc = s.docs[k + (i + 1)].doc
            /\ todo[i + 1].id = s.docs[k + (i + 1)].doc.id
        BY <3>1 DEF Writing, n
      <3> QED BY <3>1, <3>2, <3>3
    <2> QED BY <2>2, <2>3 DEF Writing, m
  <1> QED BY <1>2, <1>4, <1>5, <1>6

(* Members of the rest of a list.                                          *)
LEMMA TailMembers ==
    ASSUME NEW todo \in Seq(CallSet), todo # <<>>
    PROVE  /\ \A i \in DOMAIN Tail(todo) : i + 1 \in DOMAIN todo /\ Tail(todo)[i] = todo[i + 1]
                                           /\ i \in Nat
           /\ \A j \in DOMAIN todo : j \in Nat /\ (j > 1 => j - 1 \in DOMAIN Tail(todo)
                                            /\ Tail(todo)[j - 1] = todo[j])
           /\ 1 \in DOMAIN todo /\ \A j \in DOMAIN todo : j = 1 \/ j > 1
           /\ Tail(todo) \in Seq(CallSet)
  <1> DEFINE n == Len(todo)  u == Tail(todo)
  <1>1. /\ n \in Nat \ {0} /\ Len(u) = n - 1 /\ u \in Seq(CallSet)
        /\ \A i \in 1..(n - 1) : u[i] = todo[i + 1]
    BY EmptySeq, HeadTailProperties, LenProperties
  <1>2. DOMAIN todo = 1..n /\ DOMAIN u = 1..(n - 1)
    BY <1>1, LenProperties
  <1> HIDE DEF n, u
  <1>3. \A j \in 1..n : j > 1 => j - 1 \in 1..(n - 1) /\ (j - 1) + 1 = j
    BY <1>1
  <1>4. \A j \in 1..n : j > 1 => j - 1 \in 1..(n - 1) /\ u[j - 1] = todo[j]
    BY <1>1, <1>3
  <1>5. \A i \in 1..(n - 1) : i + 1 \in 1..n /\ i \in Nat
    BY <1>1
  <1>6. 1 \in 1..n /\ \A j \in 1..n : j \in Nat /\ (j = 1 \/ j > 1)
    BY <1>1
  <1> QED BY <1>1, <1>2, <1>4, <1>5, <1>6 DEF u

LEMMA PopDeleting ==
    ASSUME NEW todo \in Seq(CallSet), todo # <<>>, NEW c, Deleting(c, todo)
    PROVE  Deleting(c, Tail(todo))
  <1> DEFINE u == Tail(todo)
  <1>1. ASSUME NEW i \in DOMAIN u
        PROVE  /\ u[i].do \in {"delete", "query"}
               /\ u[i].do = "query" => u[i].coll # "contracts"
               /\ u[i].do = "delete" /\ u[i].coll = "sub_contracts" =>
                    InSpecsOf(c, "sub_contracts", u[i].id)
               /\ u[i].coll = "sub_contracts" =>
                    \A x \in Kinds : \E j \in DOMAIN u : i < j /\ Asking(u[j], x)
    <2>1. i + 1 \in DOMAIN todo /\ u[i] = todo[i + 1] /\ i \in Nat
      BY TailMembers
    <2>2. ASSUME u[i].coll = "sub_contracts", NEW x \in Kinds
          PROVE  \E j \in DOMAIN u : i < j /\ Asking(u[j], x)
      <3>1. PICK j \in DOMAIN todo : i + 1 < j /\ Asking(todo[j], x)
        BY <2>1, <2>2 DEF Deleting
      <3>2. j \in Nat /\ j > 1 /\ i < j - 1
        BY <2>1, <3>1, TailMembers
      <3>3. j - 1 \in DOMAIN u /\ u[j - 1] = todo[j]
        BY <3>2, TailMembers
      <3> QED BY <3>1, <3>2, <3>3
    <2>3. /\ u[i].do \in {"delete", "query"}
          /\ u[i].do = "query" => u[i].coll # "contracts"
          /\ u[i].do = "delete" /\ u[i].coll = "sub_contracts" =>
               InSpecsOf(c, "sub_contracts", u[i].id)
      BY <2>1 DEF Deleting
    <2> QED BY <2>2, <2>3
  <1>2. ASSUME NEW i \in DOMAIN u, NEW j \in DOMAIN u, i < j, u[i].do = "query"
        PROVE  ~Asking(u[j], "sub_contracts")
    <2>1. /\ i + 1 \in DOMAIN todo /\ u[i] = todo[i + 1] /\ i \in Nat
          /\ j + 1 \in DOMAIN todo /\ u[j] = todo[j + 1] /\ j \in Nat
      BY TailMembers
    <2>2. i + 1 < j + 1
      BY <1>2, <2>1
    <2> QED BY <1>2, <2>1, <2>2 DEF Deleting
  <1> QED BY <1>1, <1>2 DEF Deleting

(* A query puts the deletions of what it found before the rest.            *)
LEMMA QueryDeleting ==
    ASSUME NEW todo \in Seq(CallSet), todo # <<>>, NEW c, Deleting(c, todo),
           todo[1].do = "query",
           NEW kills \in Seq(CallSet),
           \A i \in DOMAIN kills : /\ kills[i].do = "delete" /\ kills[i].coll = todo[1].coll
                                   /\ kills[i].coll = "sub_contracts" =>
                                         InSpecsOf(c, "sub_contracts", kills[i].id)
    PROVE  Deleting(c, kills \o Tail(todo))
  <1> DEFINE u == Tail(todo)  all == kills \o u  n == Len(kills)
  <1>1. Deleting(c, u) /\ u \in Seq(CallSet)
    BY PopDeleting, TailMembers
  <1>2. /\ n \in Nat /\ DOMAIN kills = 1..n /\ DOMAIN u = 1..Len(u)
        /\ \A i \in 1..n : i \in DOMAIN all /\ all[i] = kills[i]
        /\ \A i \in DOMAIN u : n + i \in DOMAIN all /\ all[n + i] = u[i] /\ i \in Nat
        /\ \A i \in DOMAIN all : i \in 1..n \/ (i - n \in DOMAIN u /\ all[i] = u[i - n])
        /\ \A i \in DOMAIN all : i \in Nat
    <2> DEFINE m == Len(u)
    <2>1. /\ n \in Nat /\ m \in Nat
          /\ DOMAIN all = 1..(n + m) /\ DOMAIN kills = 1..n /\ DOMAIN u = 1..m
          /\ \A i \in 1..n : i \in DOMAIN all /\ all[i] = kills[i]
          /\ \A i \in 1..m : n + i \in DOMAIN all /\ all[n + i] = u[i]
          /\ \A i \in DOMAIN all : i \in 1..n \/ i - n \in 1..m
          /\ \A i \in DOMAIN all : i - n \in 1..m => all[i] = u[i - n]
      BY <1>1, ConcatMembers
    <2> HIDE DEF all, u, n, m
    <2>2. (\A i \in 1..m : i \in Nat) /\ \A i \in 1..(n + m) : i \in Nat
      BY <2>1
    <2> QED BY <2>1, <2>2 DEF m
  <1> HIDE DEF all, u, n
  <1>3. ASSUME NEW i \in DOMAIN all
        PROVE  /\ all[i].do \in {"delete", "query"}
               /\ all[i].do = "query" => all[i].coll # "contracts"
               /\ all[i].do = "delete" /\ all[i].coll = "sub_contracts" =>
                    InSpecsOf(c, "sub_contracts", all[i].id)
               /\ all[i].coll = "sub_contracts" =>
                    \A x \in Kinds : \E j \in DOMAIN all : i < j /\ Asking(all[j], x)
    <2>1. CASE i \in 1..n
      <3>1. all[i] = kills[i] /\ kills[i].do = "delete" /\ kills[i].coll = todo[1].coll
            /\ (kills[i].coll = "sub_contracts" => InSpecsOf(c, "sub_contracts", kills[i].id))
        BY <2>1, <1>2
      <3>2. ASSUME kills[i].coll = "sub_contracts", NEW x \in Kinds
            PROVE  \E j \in DOMAIN all : i < j /\ Asking(all[j], x)
        <4>1. PICK j \in DOMAIN todo : 1 < j /\ Asking(todo[j], x)
          BY <3>1, <3>2, TailMembers DEF Deleting
        <4>2. j \in Nat /\ j - 1 \in DOMAIN u /\ u[j - 1] = todo[j]
          BY <4>1, TailMembers DEF u
        <4>3. n + (j - 1) \in DOMAIN all /\ all[n + (j - 1)] = todo[j] /\ i < n + (j - 1)
          BY <1>2, <2>1, <4>1, <4>2
        <4> QED BY <4>1, <4>3
      <3> QED BY <3>1, <3>2
    <2>2. CASE i - n \in DOMAIN u /\ all[i] = u[i - n]
      <3>1. ASSUME u[i - n].coll = "sub_contracts", NEW x \in Kinds
            PROVE  \E j \in DOMAIN all : i < j /\ Asking(all[j], x)
        <4>1. PICK j \in DOMAIN u : i - n < j /\ Asking(u[j], x)
          BY <1>1, <2>2, <3>1 DEF Deleting
        <4>2. n + j \in DOMAIN all /\ all[n + j] = u[j] /\ j \in Nat
          BY <1>2
        <4>3. i < n + j
          BY <1>2, <4>1, <4>2
        <4> QED BY <4>1, <4>2, <4>3
      <3> QED BY <1>1, <2>2, <3>1 DEF Deleting
    <2> QED BY <1>2, <2>1, <2>2
  <1>4. ASSUME NEW i \in DOMAIN all, NEW j \in DOMAIN all, i < j, all[i].do = "query"
        PROVE  ~Asking(all[j], "sub_contracts")
    <2>1. i \notin 1..n
      BY <1>2, <1>4
    <2>2. i - n \in DOMAIN u /\ all[i] = u[i - n] /\ i \in Nat /\ j \in Nat
      BY <1>2, <2>1
    <2>3. j \notin 1..n
      BY <1>2, <1>4, <2>1, <2>2
    <2>4. j - n \in DOMAIN u /\ all[j] = u[j - n]
      BY <1>2, <2>3
    <2>5. i - n < j - n
      BY <1>2, <1>4, <2>2
    <2> QED BY <1>1, <1>4, <2>2, <2>4, <2>5 DEF Deleting
  <1> QED BY <1>3, <1>4 DEF Deleting, all, u

-----------------------------------------------------------------------------
(* The steps of a request, one by one: how its list of calls changes and   *)
(* what becomes of the documents.                                          *)
Goes(w, calls, clauses) ==
    /\ calls = <<>> => request'[w] = Idle
    /\ calls # <<>> => /\ request'[w].op = request[w].op
                       /\ request'[w].contract = request[w].contract
                       /\ request'[w].todo = calls /\ request'[w].clauses = clauses
Pops(w) == Goes(w, Tail(request[w].todo), request[w].clauses)

Writes(w) ==
    /\ Task(w).do \in {"insert", "update"} /\ errors' = errors /\ Pops(w)
    /\ \E e \in Entries_ : /\ Task(w).coll = e.coll /\ Task(w).id = e.doc.id /\ Task(w).doc = e.doc
                           /\ Wrote(e)
IsRefused(w) ==
    /\ Task(w).do = "insert" /\ docs' = docs /\ request'[w] = Idle
Took(x, id) ==
    \/ docs' = docs /\ WithId(x, id) = {}
    \/ /\ Untouched(x, id) /\ Held(x)' \subseteq Held(x)
       /\ Stock(x, id)' = Stock(x, id) - 1
Takes(w) ==
    /\ Task(w).do = "delete" /\ errors' = errors /\ Pops(w)
    /\ \E x \in Collections, id \in DocIds : Task(w).coll = x /\ Task(w).id = id /\ Took(x, id)
Asks(w) ==
    LET x == Task(w).coll  found == Matches(w, x) IN
    /\ Task(w).do = "query" /\ errors' = errors /\ docs' = docs
    /\ x \in Collections /\ found \subseteq Held(x)
    /\ \E q \in Listed(x, found) : \E kills \in Seq(CallSet) :
          /\ Len(kills) = Len(q)
          /\ \A i \in 1..Len(q) : kills[i] = Call("delete", x, q[i].id, NoDoc)
          /\ Goes(w, kills \o Tail(request[w].todo),
                  IF x = "sub_contracts" THEN ClausesIn(found) ELSE request[w].clauses)
IsLost(w) ==
    /\ errors < MaxErrors /\ errors' = errors + 1 /\ docs' = docs /\ Pops(w)

LEMMA CallCases ==
    ASSUME WellShaped, StoreTypes_, NEW w \in Workers, Calls(w)
    PROVE  /\ request[w] # Idle /\ fate' = fate /\ errors' \in {errors, errors + 1}
           /\ \A v \in Workers \ {w} : request'[v] = request[v]
           /\ Writes(w) \/ IsRefused(w) \/ Takes(w) \/ Asks(w) \/ IsLost(w)
  <1>0. request[w] # Idle /\ fate' = fate
    BY DEF Calls
  <1> DEFINE t == Task(w)
             Goal == \A v \in Workers \ {w} : request'[v] = request[v]
  <1>1. /\ t \in CallSet /\ WriteOk(t) /\ t.coll \in Collections
        /\ Tail(request[w].todo) \in Seq(CallSet)
        /\ \A i \in DOMAIN Tail(request[w].todo) : WriteOk(Tail(request[w].todo)[i])
        /\ request[w].clauses \in SUBSET ClauseIds
    BY <1>0, TaskFacts DEF CallSet
  <1>2. ASSUME NEW calls \in Seq(CallSet), \A i \in DOMAIN calls : WriteOk(calls[i]),
               NEW clauses \in SUBSET ClauseIds, Proceed(w, calls, clauses)
        PROVE  Goal /\ Goes(w, calls, clauses)
    BY <1>0, <1>2, ProceedTypes DEF Goes
  <1>3. Proceeds(w) => Goal /\ Pops(w)
    BY <1>1, <1>2 DEF Proceeds, Pops
  <1>4. ASSUME t.do \in {"insert", "update"}
        PROVE  \E e \in Entries_ : t.coll = e.coll /\ t.id = e.doc.id /\ t.doc = e.doc
    BY <1>1, <1>4 DEF WriteOk, Call
  <1>5. CASE Insert(w)
    <2>1. PICK e \in Entries_ : t.coll = e.coll /\ t.id = e.doc.id /\ t.doc = e.doc
      BY <1>4, <1>5 DEF Insert
    <2>2. CASE t.doc.fields = "all" /\ docs' = [docs EXCEPT ![t.coll] = @ (+) SetToBag({t.doc})]
               /\ Proceeds(w) /\ UNCHANGED errors
      <3>1. Wrote(e)
        BY <2>1, <2>2, PutWrote DEF StoreTypes_
      <3>2. Writes(w)
        BY <1>3, <1>5, <2>1, <2>2, <3>1 DEF Writes, Insert
      <3> QED BY <1>0, <1>3, <2>2, <3>2
    <2>3. CASE request' = [request EXCEPT ![w] = Idle] /\ errors' = errors + 1 /\ UNCHANGED docs
      <3>1. IsRefused(w) /\ Goal
        BY <1>5, <2>3 DEF IsRefused, StoreTypes_, Insert
      <3> QED BY <1>0, <2>3, <3>1
    <2> QED BY <2>2, <2>3, <1>5 DEF Insert
  <1>6. CASE Upsert(w) /\ UNCHANGED errors
    <2>1. PICK e \in Entries_ : t.coll = e.coll /\ t.id = e.doc.id /\ t.doc = e.doc
      BY <1>4, <1>6 DEF Upsert
    <2>2. Wrote(e)
      BY <1>6, <2>1, UpsertWrote DEF StoreTypes_, Upsert
    <2>3. Writes(w) /\ Goal
      BY <1>3, <1>6, <2>1, <2>2 DEF Writes, Upsert
    <2> QED BY <1>0, <1>6, <2>3
  <1>7. CASE DeleteOne(w) /\ UNCHANGED errors
    <2>1. PICK x \in Collections, id \in DocIds : t.coll = x /\ t.id = id
      BY <1>1 DEF CallSet
    <2>2. /\ t.do = "delete" /\ Proceeds(w)
          /\ \/ \E d \in WithId(x, id) : docs' = [docs EXCEPT ![x] = @ (-) SetToBag({d})]
             \/ WithId(x, id) = {} /\ docs' = docs
      BY <1>7, <2>1 DEF DeleteOne
    <2>3. Took(x, id)
      <3>1. HeldOk
        BY DEF StoreTypes_
      <3>2. ASSUME NEW d \in WithId(x, id), docs' = [docs EXCEPT ![x] = @ (-) SetToBag({d})]
            PROVE  Took(x, id)
        BY <3>1, <3>2, TakeEffect DEF Took
      <3> QED BY <2>2, <3>2 DEF Took
    <2>4. Takes(w) /\ Goal
      BY <1>3, <1>7, <2>1, <2>2, <2>3 DEF Takes
    <2> QED BY <1>0, <1>7, <2>4
  <1>8. CASE Query(w) /\ UNCHANGED errors
    <2> DEFINE x == t.coll  found == Matches(w, x)
               all == IF x = "sub_contracts" THEN ClausesIn(found) ELSE request[w].clauses
    <2>1. t.do = "query" /\ docs' = docs /\ found \subseteq Held(x)
      BY <1>0, <1>8, QueryFacts
    <2>2. PICK q \in Listed(x, found) : \E kills \in Seq(CallSet) :
             /\ Len(kills) = Len(q)
             /\ \A i \in 1..Len(q) : kills[i] = Call("delete", x, q[i].id, NoDoc)
             /\ kills \o Tail(request[w].todo) \in Seq(CallSet)
             /\ \A i \in DOMAIN (kills \o Tail(request[w].todo)) :
                   WriteOk((kills \o Tail(request[w].todo))[i])
             /\ all \in SUBSET ClauseIds
             /\ Proceed(w, kills \o Tail(request[w].todo), all)
      BY <1>0, <1>8, QueryFacts
    <2>3. PICK kills \in Seq(CallSet) :
             /\ Len(kills) = Len(q)
             /\ \A i \in 1..Len(q) : kills[i] = Call("delete", x, q[i].id, NoDoc)
             /\ kills \o Tail(request[w].todo) \in Seq(CallSet)
             /\ \A i \in DOMAIN (kills \o Tail(request[w].todo)) :
                   WriteOk((kills \o Tail(request[w].todo))[i])
             /\ all \in SUBSET ClauseIds
             /\ Proceed(w, kills \o Tail(request[w].todo), all)
      BY <2>2
    <2>4. Goal /\ Goes(w, kills \o Tail(request[w].todo), all)
      BY <1>2, <2>3
    <2>5. Asks(w)
      BY <1>1, <1>8, <2>1, <2>2, <2>3, <2>4 DEF Asks
    <2> QED BY <1>0, <1>8, <2>4, <2>5
  <1>9. CASE Fails(w)
    <2>1. IsLost(w) /\ Goal
      BY <1>3, <1>9 DEF Fails, IsLost
    <2> QED BY <1>0, <1>9, <2>1 DEF Fails
  <1> QED BY <1>5, <1>6, <1>7, <1>8, <1>9 DEF Calls

(* Which request makes which calls.                                        *)
LEMMA WhoCalls ==
    ASSUME StoreTypes_, ShapesOk, NEW w \in Workers, request[w] # Idle
    PROVE  /\ Task(w).do \in {"insert", "update"} => request[w].op \in {"create", "update"}
           /\ Task(w).do = "query" => request[w].op = "delete"
           /\ Task(w).do = "delete" => request[w].op \in {"delete", "remove"}
           /\ request[w].op \in {"create", "update", "delete", "remove"}
  <1> DEFINE todo == request[w].todo
  <1>1. todo \in Seq(CallSet) /\ todo # <<>> /\ Task(w) = todo[1] /\ request[w].op \in Ops
    BY TaskFacts
  <1>2. request[w].op \in {"create", "update", "delete", "remove"}
    BY <1>1, ContractStoreConstants
  <1>3. 1 \in DOMAIN todo
    BY <1>1, TailMembers
  <1>4. Shaped(request[w])
    BY DEF ShapesOk
  <1>5. request[w].op \in {"create", "update"} => todo[1].do \in {"insert", "update"}
    <2>1. ASSUME NEW s, NEW k, Writing(request[w].contract, todo, s, k)
          PROVE  todo[1].do \in {"insert", "update"}
      BY <1>1, <2>1, PopWriting
    <2> QED BY <1>4, <2>1 DEF Shaped
  <1>6. request[w].op = "delete" => todo[1].do \in {"delete", "query"}
    BY <1>3, <1>4 DEF Shaped, Deleting
  <1>7. request[w].op = "remove" => todo[1].do = "delete"
    BY <1>3, <1>4 DEF Shaped
  <1> QED BY <1>1, <1>2, <1>5, <1>6, <1>7

(* The steps with which a worker takes a request.                          *)
Starts(w, op, c, calls) ==
    /\ request[w] = Idle /\ docs' = docs /\ errors' = errors /\ op \in Ops
    /\ \A v \in Workers \ {w} : request'[v] = request[v]
    /\ request'[w].op = op /\ request'[w].contract = c
    /\ request'[w].todo = calls /\ request'[w].clauses = {}
StartsWrite(w, s, op, calls) ==
    /\ Starts(w, op, s.contract, calls) /\ Writing(s.contract, calls, s, 0)
    /\ Becomes(s.contract, "written")
StartsDelete(w, c) == Starts(w, "delete", c, DeletePlan(c)) /\ Becomes(c, "deleted")
StartsRemove(w, calls) ==
    /\ Starts(w, "remove", "none", calls)
    /\ \A i \in DOMAIN calls : calls[i].do = "delete"
    /\ \A c \in Contracts :
          /\ fate'[c] \in {fate[c], "apart"}
          /\ \A i \in DOMAIN calls :
                calls[i].coll = "sub_contracts" /\ InSpecsOf(c, "sub_contracts", calls[i].id)
                    => fate'[c] = "apart"

LEMMA StartCases ==
    ASSUME WellShaped, StoreTypes_, NEW w \in Workers, StoreStep(w)
    PROVE  \/ Calls(w)
           \/ \E s \in Specs, op \in {"create", "update"}, calls \in Seq(CallSet) :
                 StartsWrite(w, s, op, calls)
           \/ \E c \in Contracts : StartsDelete(w, c)
           \/ \E calls \in Seq(CallSet) : StartsRemove(w, calls)
  <1>1. ASSUME NEW op, NEW c \in Contracts \cup {"none"}, NEW calls \in Seq(CallSet),
               calls # <<>>, \A i \in DOMAIN calls : WriteOk(calls[i]), Begin(w, op, c, calls)
        PROVE  Starts(w, op, c, calls)
    <2>1. docs' = docs /\ errors' = errors
      BY <1>1 DEF Begin
    <2> QED BY <1>1, <2>1, BeginTypes DEF Starts
  <1>2. ASSUME NEW s \in Specs, NEW do \in {"insert", "update"}
        PROVE  Writing(s.contract, CallsFor(do, s), s, 0)
    <2> DEFINE n == Len(s.docs)  q == CallsFor(do, s)
    <2>1. n \in Nat \ {0} /\ DOMAIN s.docs = 1..n
      BY EntryFacts
    <2>2. q \in Seq(CallSet) /\ q = [i \in 1..n |-> Call(do, s.docs[i].coll, s.docs[i].doc.id, s.docs[i].doc)]
      BY <2>1, PlanFacts DEF CallsFor
    <2>3. Len(q) \in Nat /\ DOMAIN q = 1..Len(q)
      BY <2>2, LenProperties
    <2>4. \A i \in 1..n : /\ q[i].do \in {"insert", "update"} /\ q[i].coll = s.docs[i].coll
                           /\ q[i].doc = s.docs[i].doc /\ q[i].id = s.docs[i].doc.id
      BY <2>2 DEF Call
    <2>5. DOMAIN q = 1..n
      BY <2>2
    <2>8. \A i \in 1..n : q[i] \in CallSet
      BY <2>2, <2>5
    <2>9. q = [i \in 1..n |-> q[i]]
      BY <2>2
    <2> HIDE DEF n, q
    <2>10. q \in [1..n -> CallSet]
      BY <2>8, <2>9
    <2>11. Len(q) = n
      BY <2>1, <2>10, SeqDef
    <2>6. Len(q) = n - 0 /\ 0 \in 0..(n - 1)
      BY <2>1, <2>11
    <2>7. \A i \in 1..Len(q) : i \in 1..n /\ 0 + i = i
      BY <2>1, <2>3, <2>5
    <2> QED BY <2>4, <2>6, <2>7 DEF Writing, n, q
  <1>3. ASSUME NEW s \in Specs, Create(w, s)
        PROVE  \E op \in {"create", "update"}, calls \in Seq(CallSet) : StartsWrite(w, s, op, calls)
    <2>1. Starts(w, "create", s.contract, CallsFor("insert", s)) /\ CallsFor("insert", s) \in Seq(CallSet)
      BY <1>1, <1>3, EntryFacts, PlanFacts DEF Create
    <2> QED BY <1>2, <1>3, <2>1 DEF StartsWrite, Create
  <1>4. ASSUME NEW s \in Specs, Update(w, s)
        PROVE  \E op \in {"create", "update"}, calls \in Seq(CallSet) : StartsWrite(w, s, op, calls)
    <2>1. Starts(w, "update", s.contract, CallsFor("update", s)) /\ CallsFor("update", s) \in Seq(CallSet)
      BY <1>1, <1>4, EntryFacts, PlanFacts DEF Update
    <2> QED BY <1>2, <1>4, <2>1 DEF StartsWrite, Update
  <1>5. ASSUME NEW c \in Contracts, Delete(w, c) PROVE StartsDelete(w, c)
    BY <1>1, <1>5, PlanFacts DEF Delete, StartsDelete
  <1>6. ASSUME NEW r \in Removable, Remove(w, r)
        PROVE  \E calls \in Seq(CallSet) : StartsRemove(w, calls)
    <2> DEFINE calls == << Call("delete", r.coll, r.id, NoDoc) >>
    <2>1. calls \in Seq(CallSet) /\ calls # <<>> /\ \A i \in DOMAIN calls : WriteOk(calls[i])
      BY PlanFacts
    <2>2. \A i \in DOMAIN calls : /\ calls[i].do = "delete"
                                  /\ calls[i].coll = r.coll /\ calls[i].id = r.id
      BY DEF Call
    <2>3. /\ Begin(w, "remove", "none", calls)
          /\ fate' = [c \in Contracts |-> IF r.coll = "sub_contracts" /\ InSpecsOf(c, r.coll, r.id)
                                           THEN "apart" ELSE fate[c]]
      BY <1>6 DEF Remove
    <2> HIDE DEF calls
    <2>4. Starts(w, "remove", "none", calls)
      BY <1>1, <2>1, <2>3
    <2>5. \A c \in Contracts :
             /\ fate'[c] \in {fate[c], "apart"}
             /\ r.coll = "sub_contracts" /\ InSpecsOf(c, "sub_contracts", r.id) => fate'[c] = "apart"
      BY <2>3
    <2> QED BY <2>1, <2>2, <2>4, <2>5 DEF StartsRemove
  <1> QED BY <1>3, <1>4, <1>5, <1>6 DEF StoreStep

LEMMA PlanDeletes ==
    ASSUME NEW c \in Contracts
    PROVE  /\ Deleting(c, DeletePlan(c)) /\ DeletePlan(c) # <<>>
           /\ \A x \in Kinds \cup {"sub_contracts"} :
                 \E i \in DOMAIN DeletePlan(c) : Asking(DeletePlan(c)[i], x)
           /\ \A i \in DOMAIN DeletePlan(c) :
                 DeletePlan(c)[i].do = "delete" => DeletePlan(c)[i].coll # "sub_contracts"
  <1> DEFINE q == DeletePlan(c)
  <1>1. /\ DOMAIN q = 1..5
        /\ q[1].do = "delete" /\ q[1].coll = "contracts"
        /\ q[2].do = "query" /\ q[2].coll = "sub_contracts"
        /\ q[3].do = "query" /\ q[3].coll = "actions"
        /\ q[4].do = "query" /\ q[4].coll = "verification_entries"
        /\ q[5].do = "query" /\ q[5].coll = "constraints"
    BY DEF DeletePlan, Call
  <1>2. \A i \in 1..5 : i = 1 \/ i = 2 \/ i = 3 \/ i = 4 \/ i = 5
    OBVIOUS
  <1>3. q # <<>>
    BY PlanFacts
  <1> HIDE DEF q
  <1>4. \A x \in Kinds : \E j \in {3, 4, 5} : Asking(q[j], x)
    BY <1>1 DEF Kinds, Asking
  <1>5. Asking(q[2], "sub_contracts")
    BY <1>1 DEF Asking
  <1>6. \A i \in 1..5 : q[i].do = "delete" => q[i].coll # "sub_contracts"
    BY <1>1, <1>2
  <1>7. \A i \in 1..5 :
          /\ q[i].do \in {"delete", "query"}
          /\ q[i].do = "query" => q[i].coll # "contracts"
          /\ q[i].coll = "sub_contracts" => i = 2
    BY <1>1, <1>2
  <1>8. \A j \in {3, 4, 5} : j \in 1..5 /\ 2 < j
    OBVIOUS
  <1>9. \A i, j \in 1..5 : i < j /\ q[i].do = "query" => ~Asking(q[j], "sub_contracts")
    <2>1. ASSUME NEW i \in 1..5, NEW j \in 1..5, i < j, q[i].do = "query", Asking(q[j], "sub_contracts")
          PROVE  FALSE
      <3>1. j = 2
        BY <1>7, <2>1 DEF Asking
      <3>2. i = 1
        BY <2>1, <3>1
      <3> QED BY <1>1, <2>1, <3>2
    <2> QED BY <2>1
  <1>10. Deleting(c, q)
    BY <1>1, <1>4, <1>6, <1>7, <1>8, <1>9 DEF Deleting
  <1> QED BY <1>1, <1>3, <1>4, <1>5, <1>6, <1>8, <1>10 DEF q

LEMMA IdleShaped == Shaped(Idle)
  BY IdleFacts DEF Shaped

LEMMA PopShaped ==
    ASSUME StoreTypes_, ShapesOk, NEW w \in Workers, request[w] # Idle, Pops(w)
    PROVE  Shaped(request'[w])
  <1> DEFINE todo == request[w].todo  u == Tail(todo)  r == request'[w]
  <1>1. todo \in Seq(CallSet) /\ todo # <<>> /\ Shaped(request[w])
    BY TaskFacts DEF ShapesOk
  <1>2. CASE u = <<>>
    <2>1. r = Idle
      BY <1>2 DEF Pops, Goes
    <2> QED BY <2>1, IdleShaped
  <1>3. CASE u # <<>>
    <2>1. /\ r.op = request[w].op /\ r.contract = request[w].contract
          /\ r.todo = u /\ r.clauses = request[w].clauses
      BY <1>3 DEF Pops, Goes
    <2>2. ASSUME r.op \in {"create", "update"}
          PROVE  r.contract \in Contracts /\ \E s \in Specs, k \in Nat : Writing(r.contract, u, s, k)
      <3>1. PICK s \in Specs, k \in Nat : Writing(request[w].contract, todo, s, k)
        BY <1>1, <2>1, <2>2 DEF Shaped
      <3>2. Writing(request[w].contract, u, s, k + 1) /\ k + 1 \in Nat
        BY <1>1, <1>3, <3>1, PopWriting
      <3> QED BY <1>1, <2>1, <2>2, <3>2 DEF Shaped
    <2>3. ASSUME r.op = "delete"
          PROVE  /\ r.contract \in Contracts /\ Deleting(r.contract, u)
                 /\ \A i \in DOMAIN u : Asking(u[i], "sub_contracts") => r.clauses = {}
      <3>1. /\ request[w].contract \in Contracts /\ Deleting(request[w].contract, todo)
            /\ \A i \in DOMAIN todo : Asking(todo[i], "sub_contracts") => request[w].clauses = {}
        BY <1>1, <2>1, <2>3 DEF Shaped
      <3>2. Deleting(request[w].contract, u)
        BY <1>1, <3>1, PopDeleting
      <3>3. \A i \in DOMAIN u : i + 1 \in DOMAIN todo /\ u[i] = todo[i + 1]
        BY <1>1, TailMembers
      <3> QED BY <2>1, <3>1, <3>2, <3>3
    <2>4. ASSUME r.op = "remove"
          PROVE  \A i \in DOMAIN u : u[i].do = "delete"
      <3>1. \A i \in DOMAIN todo : todo[i].do = "delete"
        BY <1>1, <2>1, <2>4 DEF Shaped
      <3>2. \A i \in DOMAIN u : i + 1 \in DOMAIN todo /\ u[i] = todo[i + 1]
        BY <1>1, TailMembers
      <3> QED BY <3>1, <3>2
    <2> HIDE DEF u, r
    <2>5. Shaped(r)
      BY <2>1, <2>2, <2>3, <2>4 DEF Shaped
    <2> QED BY <2>5 DEF r
  <1> QED BY <1>2, <1>3

(* What the query of a deletion of a contract finds.                       *)
LEMMA FoundFacts ==
    ASSUME WellShaped, StoreTypes_, NEW w \in Workers, NEW c \in Contracts, request[w].contract = c
    PROVE  /\ \A d \in Matches(w, "sub_contracts") :
                 d \in Held("sub_contracts") /\ d.of = c /\ InSpecsOf(c, "sub_contracts", d.id)
           /\ \A d \in Held("sub_contracts") :
                 d.of = c \/ InSpecsOf(c, "sub_contracts", d.id) => d \in Matches(w, "sub_contracts")
           /\ \A x \in Kinds : Matches(w, x) = {d \in Held(x) : d.of \in request[w].clauses}
  <1>1. \A d \in Matches(w, "sub_contracts") : d \in Held("sub_contracts") /\ d.of = c
    BY DEF Matches
  <1>2. \A d \in Held("sub_contracts") :
           /\ InSpecsOf(d.of, "sub_contracts", d.id)
           /\ InSpecsOf(c, "sub_contracts", d.id) => d.of = c
    BY SubHome DEF StoreTypes_
  <1>3. \A d \in Held("sub_contracts") : d.of = c => d \in Matches(w, "sub_contracts")
    BY DEF Matches
  <1>4. \A x \in Kinds : Matches(w, x) = {d \in Held(x) : d.of \in request[w].clauses}
    BY DEF Matches, Kinds
  <1> QED BY <1>1, <1>2, <1>3, <1>4

LEMMA AskShaped ==
    ASSUME WellShaped, StoreTypes_, ShapesOk, NEW w \in Workers, request[w] # Idle, Asks(w)
    PROVE  Shaped(request'[w])
  <1> DEFINE todo == request[w].todo  u == Tail(todo)  r == request'[w]
             x == Task(w).coll  found == Matches(w, x)
             all == IF x = "sub_contracts" THEN ClausesIn(found) ELSE request[w].clauses
             c == request[w].contract
  <1>1. todo \in Seq(CallSet) /\ todo # <<>> /\ Task(w) = todo[1] /\ u \in Seq(CallSet)
    BY TaskFacts
  <1>2. todo[1].do = "query" /\ x = todo[1].coll /\ request[w].op = "delete"
        /\ x \in Collections /\ found \subseteq Held(x)
    BY <1>1, WhoCalls DEF Asks
  <1>3. /\ c \in Contracts /\ Deleting(c, todo)
        /\ \A i \in DOMAIN todo : Asking(todo[i], "sub_contracts") => request[w].clauses = {}
    BY <1>2 DEF ShapesOk, Shaped
  <1>4. PICK q \in Listed(x, found) : \E kills \in Seq(CallSet) :
           /\ Len(kills) = Len(q)
           /\ \A i \in 1..Len(q) : kills[i] = Call("delete", x, q[i].id, NoDoc)
           /\ Goes(w, kills \o u, all)
    BY DEF Asks
  <1>5. PICK kills \in Seq(CallSet) :
           /\ Len(kills) = Len(q)
           /\ \A i \in 1..Len(q) : kills[i] = Call("delete", x, q[i].id, NoDoc)
           /\ Goes(w, kills \o u, all)
    BY <1>4
  <1>6. /\ \A i \in 1..Len(q) : q[i] \in found
        /\ DOMAIN kills = 1..Len(q)
    <2>1. HeldOk
      BY DEF StoreTypes_
    <2>2. q \in Seq(found) /\ DOMAIN q = 1..Len(q)
      BY <1>2, <2>1, ListedFacts
    <2> QED BY <1>5, <2>2, LenProperties
  <1>7. ASSUME NEW i \in DOMAIN kills
        PROVE  /\ kills[i].do = "delete" /\ kills[i].coll = todo[1].coll
               /\ kills[i].coll = "sub_contracts" => InSpecsOf(c, "sub_contracts", kills[i].id)
    <2>1. kills[i].do = "delete" /\ kills[i].coll = x /\ kills[i].id = q[i].id /\ q[i] \in found
      BY <1>5, <1>6 DEF Call
    <2>2. x = "sub_contracts" => InSpecsOf(c, "sub_contracts", q[i].id)
      BY <1>3, <2>1, FoundFacts
    <2> QED BY <1>2, <2>1, <2>2
  <1>8. Deleting(c, kills \o u)
    BY <1>1, <1>2, <1>3, <1>7, QueryDeleting
  <1> DEFINE new == kills \o u
  <1>9. ASSUME NEW i \in DOMAIN new, Asking(new[i], "sub_contracts") PROVE all = {}
    <2>1. /\ DOMAIN kills = 1..Len(kills) /\ DOMAIN u = 1..Len(u)
          /\ \A j \in 1..Len(kills) : new[j] = kills[j]
          /\ i \in 1..Len(kills) \/ i - Len(kills) \in 1..Len(u)
          /\ i - Len(kills) \in 1..Len(u) => new[i] = u[i - Len(kills)]
      BY <1>1, ConcatMembers
    <2>2. i \notin 1..Len(kills)
      BY <1>7, <1>9, <2>1 DEF Asking
    <2>3. PICK j \in DOMAIN u : new[i] = u[j]
      BY <2>1, <2>2
    <2>6. j + 1 \in DOMAIN todo /\ todo[j + 1] = new[i] /\ j \in Nat /\ 1 \in DOMAIN todo
      BY <1>1, <2>3, TailMembers
    <2>7. j \in 1..Len(u)
      BY <2>1
    <2> HIDE DEF u
    <2>4. j + 1 \in DOMAIN todo /\ todo[j + 1] = new[i] /\ 1 < j + 1 /\ 1 \in DOMAIN todo
      BY <2>6, <2>7
    <2> HIDE DEF new, u
    <2>5. ~Asking(todo[j + 1], "sub_contracts")
      BY <1>2, <1>3, <2>4 DEF Deleting
    <2> QED BY <1>9, <2>4, <2>5
  <1>10. CASE new = <<>>
    <2>1. r = Idle
      BY <1>5, <1>10 DEF Goes
    <2> QED BY <2>1, IdleShaped
  <1>11. CASE new # <<>>
    <2>1. r.op = "delete" /\ r.contract = c /\ r.todo = new /\ r.clauses = all
      BY <1>2, <1>5, <1>11 DEF Goes
    <2> HIDE DEF new, all, r, c
    <2>2. Deleting(c, new) /\ c \in Contracts
      BY <1>3, <1>8 DEF new
    <2>3. Shaped(r)
      BY <1>9, <2>1, <2>2 DEF Shaped
    <2> QED BY <2>3 DEF r
  <1> QED BY <1>10, <1>11

LEMMA ShapesStay ==
    ASSUME WellShaped, StoreTypes_, ShapesOk, NEW w \in Workers, StoreStep(w)
    PROVE  ShapesOk'
  <1>1. SUFFICES /\ Shaped(request'[w]) /\ \A v \in Workers \ {w} : request'[v] = request[v]
    BY DEF ShapesOk, Shaped
  <1>2. CASE Calls(w)
    <2>1. /\ request[w] # Idle
          /\ \A v \in Workers \ {w} : request'[v] = request[v]
          /\ Writes(w) \/ IsRefused(w) \/ Takes(w) \/ Asks(w) \/ IsLost(w)
      BY <1>2, CallCases
    <2>2. CASE Pops(w)
      BY <2>1, <2>2, PopShaped
    <2>3. CASE Asks(w)
      BY <2>1, <2>3, AskShaped
    <2>4. CASE IsRefused(w)
      <3>1. request'[w] = Idle
        BY <2>4 DEF IsRefused
      <3> QED BY <2>1, <3>1, IdleShaped
    <2> QED BY <2>1, <2>2, <2>3, <2>4 DEF Writes, Takes, IsLost
  <1>3. ASSUME NEW s \in Specs, NEW op \in {"create", "update"}, NEW calls \in Seq(CallSet),
               StartsWrite(w, s, op, calls)
        PROVE  Shaped(request'[w]) /\ \A v \in Workers \ {w} : request'[v] = request[v]
    BY <1>3, EntryFacts, 0 \in Nat DEF StartsWrite, Starts, Shaped
  <1>4. ASSUME NEW c \in Contracts, StartsDelete(w, c)
        PROVE  Shaped(request'[w]) /\ \A v \in Workers \ {w} : request'[v] = request[v]
    BY <1>4, PlanDeletes DEF StartsDelete, Starts, Shaped
  <1>5. ASSUME NEW calls \in Seq(CallSet), StartsRemove(w, calls)
        PROVE  Shaped(request'[w]) /\ \A v \in Workers \ {w} : request'[v] = request[v]
    BY <1>5 DEF StartsRemove, Starts, Shaped
  <1> QED BY <1>2, <1>3, <1>4, <1>5, StartCases

-----------------------------------------------------------------------------
(* Who has a contract in hand, by the fate of the contract.                *)
Deleters(c) == {w \in Workers : request[w].contract = c /\ request[w].op = "delete"}
Writers(c) == {w \in Workers : request[w].contract = c /\ request[w].op \in {"create", "update"}}
FateOk ==
    \A c \in Contracts :
        /\ fate[c] \in {"new", "written"} => Deleters(c) = {}
        /\ fate[c] \in {"new", "deleted"} => Writers(c) = {}
        /\ fate[c] = "deleted" => "delete" \in Ops
        /\ fate[c] = "new" => \A x \in Collections : FamilyOf(c)[x] = {}

(* Who removes a sub-contract alone has taken its contract apart.          *)
ApartOk ==
    \A w \in Workers : request[w].op = "remove" =>
        \A i \in DOMAIN request[w].todo : request[w].todo[i].coll = "sub_contracts" =>
            \A c \in Contracts :
                InSpecsOf(c, "sub_contracts", request[w].todo[i].id) => fate[c] = "apart"

LEMMA FamilyMembers ==
    ASSUME NEW c, NEW x \in Collections
    PROVE  /\ \A d : d \in FamilyOf(c)[x] <=> d \in Held(x) /\ InSpecsOf(c, x, d.id)
           /\ \A d : d \in FamilyOf(c)[x]' <=> d \in Held(x)' /\ InSpecsOf(c, x, d.id)
  BY DEF FamilyOf

(* A call leaves its worker with the same request or with none.            *)
LEMMA OthersStay ==
    ASSUME WellShaped, StoreTypes_, NEW w \in Workers, Calls(w), NEW c
    PROVE  Deleters(c)' \subseteq Deleters(c) /\ Writers(c)' \subseteq Writers(c)
  <1>1. /\ \A v \in Workers \ {w} : request'[v] = request[v]
        /\ Writes(w) \/ IsRefused(w) \/ Takes(w) \/ Asks(w) \/ IsLost(w)
    BY CallCases
  <1>2. \/ request'[w] = Idle
        \/ request'[w].op = request[w].op /\ request'[w].contract = request[w].contract
    BY <1>1 DEF Writes, IsRefused, Takes, Asks, IsLost, Pops, Goes
  <1> QED BY <1>1, <1>2, IdleFacts DEF Deleters, Writers

(* A writer writes what the specification has at the place it has reached. *)
LEMMA WriterTask ==
    ASSUME StoreTypes_, ShapesOk, NEW c, NEW w \in Writers(c)
    PROVE  /\ request[w] # Idle /\ request[w].todo \in Seq(CallSet) /\ request[w].todo # <<>>
           /\ Task(w).do \in {"insert", "update"} /\ InSpecsOf(c, Task(w).coll, Task(w).id)
           /\ \A s, k : Writing(c, request[w].todo, s, k) =>
                 /\ k + 1 \in DOMAIN s.docs /\ k \in Nat /\ s \in Specs /\ s.contract = c
                 /\ s.docs[k + 1] \in Entries_
                 /\ Task(w).coll = s.docs[k + 1].coll /\ Task(w).doc = s.docs[k + 1].doc
                 /\ Task(w).id = s.docs[k + 1].doc.id
  <1> DEFINE todo == request[w].todo
  <1>1. w \in Workers /\ request[w] # Idle /\ request[w].contract = c
        /\ request[w].op \in {"create", "update"}
    BY IdleFacts DEF Writers
  <1>2. todo \in Seq(CallSet) /\ todo # <<>> /\ Task(w) = todo[1]
    BY <1>1, TaskFacts
  <1>3. \E s \in Specs, k \in Nat : Writing(c, todo, s, k)
    BY <1>1 DEF ShapesOk, Shaped
  <1>4. ASSUME NEW s, NEW k, Writing(c, todo, s, k)
        PROVE  /\ k + 1 \in DOMAIN s.docs /\ k \in Nat /\ s \in Specs /\ s.contract = c
               /\ s.docs[k + 1] \in Entries_
               /\ todo[1].do \in {"insert", "update"}
               /\ todo[1].coll = s.docs[k + 1].coll /\ todo[1].doc = s.docs[k + 1].doc
               /\ todo[1].id = s.docs[k + 1].doc.id
    <2>1. s \in Specs /\ s.contract = c
      BY <1>4 DEF Writing
    <2> HIDE DEF todo
    <2> QED BY <2>1, <1>2, <1>4, PopWriting
  <1>5. todo[1].do \in {"insert", "update"} /\ InSpecsOf(c, todo[1].coll, todo[1].id)
    <2>1. PICK s \in Specs, k \in Nat : Writing(c, todo, s, k)
      BY <1>3
    <2> HIDE DEF todo
    <2> QED BY <2>1, <1>4 DEF InSpecsOf
  <1> QED BY <1>1, <1>2, <1>4, <1>5

(* A document that a step adds to a contract is written by a request on    *)
(* that contract.                                                          *)
LEMMA NewInFamily ==
    ASSUME WellShaped, StoreTypes_, ShapesOk, NEW w \in Workers, Calls(w),
           NEW c \in Contracts, NEW x \in Collections,
           NEW d \in FamilyOf(c)[x]', d \notin FamilyOf(c)[x]
    PROVE  /\ w \in Writers(c) /\ Writes(w)
           /\ Task(w).coll = x /\ Task(w).id = d.id /\ Task(w).doc.of = d.of
  <1>1. /\ request[w] # Idle
        /\ Writes(w) \/ IsRefused(w) \/ Takes(w) \/ Asks(w) \/ IsLost(w)
    BY CallCases
  <1>2. d \in Held(x)' /\ InSpecsOf(c, x, d.id) /\ d \notin Held(x)
    BY FamilyMembers
  <1>3. docs' # docs
    BY <1>2 DEF Held
  <1>4. CASE Takes(w)
    <2>1. PICK y \in Collections, id \in DocIds : Took(y, id)
      BY <1>4 DEF Takes
    <2>2. Untouched(y, id) /\ Held(y)' \subseteq Held(y)
      BY <2>1, <1>3 DEF Took
    <2>3. x # y
      BY <2>2, <1>2
    <2> QED BY <2>2, <2>3, <1>2 DEF Untouched
  <1>5. CASE Writes(w)
    <2>1. PICK e \in Entries_ : /\ Task(w).coll = e.coll /\ Task(w).id = e.doc.id
                                /\ Task(w).doc = e.doc /\ Wrote(e)
      BY <1>5 DEF Writes
    <2>2. x = e.coll /\ d.id = e.doc.id
      BY <2>1, <1>2 DEF Wrote, Untouched
    <2>3. d.of = e.doc.of
      BY <2>1, <2>2, <1>2 DEF Wrote
    <2>4. request[w].op \in {"create", "update"}
      BY <1>1, <1>5, WhoCalls DEF Writes
    <2> DEFINE b == request[w].contract
    <2>5. w \in Writers(b)
      BY <2>4 DEF Writers
    <2>6. InSpecsOf(b, x, d.id)
      BY <2>1, <2>2, <2>5, WriterTask
    <2>7. b = c
      BY <2>6, <1>2, OneHome
    <2> HIDE DEF b
    <2> QED BY <1>5, <2>1, <2>2, <2>3, <2>5, <2>7
  <1> QED BY <1>1, <1>3, <1>4, <1>5 DEF IsRefused, Asks, IsLost

LEMMA FateStays ==
    ASSUME WellShaped, StoreTypes_, ShapesOk, FateOk, NEW w \in Workers, StoreStep(w)
    PROVE  FateOk'
  <1> DEFINE Ok(c) == /\ fate[c] \in {"new", "written"} => Deleters(c) = {}
                      /\ fate[c] \in {"new", "deleted"} => Writers(c) = {}
                      /\ fate[c] = "deleted" => "delete" \in Ops
                      /\ fate[c] = "new" => \A x \in Collections : FamilyOf(c)[x] = {}
  <1>1. SUFFICES ASSUME NEW c \in Contracts PROVE Ok(c)'
    BY DEF FateOk
  <1>2. Ok(c)
    BY DEF FateOk
  <1>3. ASSUME docs' = docs, NEW x \in Collections PROVE FamilyOf(c)[x]' = FamilyOf(c)[x]
    BY <1>3 DEF FamilyOf, Held
  <1>4. CASE Calls(w)
    <2>1. fate' = fate /\ Deleters(c)' \subseteq Deleters(c) /\ Writers(c)' \subseteq Writers(c)
      BY <1>4, CallCases, OthersStay
    <2>2. ASSUME fate[c] = "new", NEW x \in Collections PROVE FamilyOf(c)[x]' = {}
      <3>1. FamilyOf(c)[x] = {} /\ Writers(c) = {}
        BY <1>2, <2>2
      <3>2. ASSUME NEW d \in FamilyOf(c)[x]' PROVE FALSE
        BY <1>4, <3>1, <3>2, NewInFamily
      <3> QED BY <3>2
    <2> QED BY <1>2, <2>1, <2>2
  <1>5. ASSUME NEW b, NEW op, NEW calls, Starts(w, op, b, calls),
               b # c \/ op \notin {"create", "update", "delete"}
        PROVE  Deleters(c)' = Deleters(c) /\ Writers(c)' = Writers(c)
    BY <1>5, IdleFacts DEF Starts, Deleters, Writers
  <1>6. ASSUME NEW s \in Specs, NEW op \in {"create", "update"}, NEW calls \in Seq(CallSet),
               StartsWrite(w, s, op, calls)
        PROVE  Ok(c)'
    <2>1. Starts(w, op, s.contract, calls) /\ docs' = docs /\ s.contract \in Contracts
      BY <1>6, EntryFacts DEF StartsWrite, Starts
    <2>2. /\ \A b \in Contracts \ {s.contract} : fate'[b] = fate[b]
          /\ fate'[s.contract] \in {"written", "apart"}
          /\ fate'[s.contract] = "written" =>
                \A v \in Workers : request[v].contract = s.contract => request[v].op # "delete"
      BY <1>6, <2>1, FateTypes DEF StartsWrite
    <2>3. CASE s.contract # c
      BY <1>2, <1>3, <1>5, <2>1, <2>2, <2>3
    <2>4. CASE s.contract = c
      <3>1. fate'[c] = "written" => Deleters(c)' = {}
        BY <2>1, <2>2, <2>4 DEF Deleters, Starts
      <3> QED BY <2>2, <2>4, <3>1
    <2> QED BY <2>3, <2>4
  <1>7. ASSUME NEW b \in Contracts, StartsDelete(w, b) PROVE Ok(c)'
    <2>1. Starts(w, "delete", b, DeletePlan(b)) /\ docs' = docs /\ "delete" \in Ops
      BY <1>7 DEF StartsDelete, Starts
    <2>2. /\ \A a \in Contracts \ {b} : fate'[a] = fate[a]
          /\ fate'[b] \in {"deleted", "apart"}
          /\ fate'[b] = "deleted" =>
                \A v \in Workers : request[v].contract = b => request[v].op \notin {"create", "update"}
      BY <1>7, FateTypes DEF StartsDelete
    <2>3. CASE b # c
      BY <1>2, <1>3, <1>5, <2>1, <2>2, <2>3
    <2>4. CASE b = c
      <3>1. fate'[c] = "deleted" => Writers(c)' = {}
        BY <2>1, <2>2, <2>4 DEF Writers, Starts
      <3> QED BY <2>1, <2>2, <2>4, <3>1
    <2> QED BY <2>3, <2>4
  <1>8. ASSUME NEW calls \in Seq(CallSet), StartsRemove(w, calls) PROVE Ok(c)'
    <2>1. Starts(w, "remove", "none", calls) /\ docs' = docs /\ fate'[c] \in {fate[c], "apart"}
      BY <1>8 DEF StartsRemove, Starts
    <2> QED BY <1>2, <1>3, <1>5, <2>1
  <1> QED BY <1>4, <1>6, <1>7, <1>8, StartCases

(* A contract that is apart stays so.                                      *)
LEMMA ApartStays ==
    ASSUME WellShaped, StoreTypes_, ShapesOk, ApartOk, NEW w \in Workers, StoreStep(w)
    PROVE  ApartOk' /\ \A c \in Contracts : fate[c] = "apart" => fate'[c] = "apart"
  <1> DEFINE Ok(r) == r.op = "remove" =>
                \A i \in DOMAIN r.todo : r.todo[i].coll = "sub_contracts" =>
                    \A c \in Contracts : InSpecsOf(c, "sub_contracts", r.todo[i].id) => fate[c] = "apart"
             Next(r) == r.op = "remove" =>
                \A i \in DOMAIN r.todo : r.todo[i].coll = "sub_contracts" =>
                    \A c \in Contracts : InSpecsOf(c, "sub_contracts", r.todo[i].id) => fate'[c] = "apart"
             Stays == \A c \in Contracts : fate[c] = "apart" => fate'[c] = "apart"
  <1>1. \A v \in Workers : Ok(request[v])
    BY DEF ApartOk
  <1>2. ASSUME Stays, \A v \in Workers \ {w} : request'[v] = request[v], Next(request'[w])
        PROVE  ApartOk' /\ Stays
    <2>1. ASSUME NEW v \in Workers PROVE Next(request'[v])
      <3>1. CASE v = w
        BY <1>2, <3>1
      <3>2. CASE v # w
        <4>1. request'[v] = request[v] /\ Ok(request[v])
          BY <1>1, <1>2, <3>2
        <4>2. Next(request[v])
          BY <1>2, <4>1
        <4> QED BY <4>1, <4>2
      <3> QED BY <3>1, <3>2
    <2>2. ApartOk'
      BY <2>1, Zenon DEF ApartOk
    <2> QED BY <1>2, <2>2
  <1>3. CASE Calls(w)
    <2>1. /\ request[w] # Idle /\ fate' = fate
          /\ \A v \in Workers \ {w} : request'[v] = request[v]
          /\ Writes(w) \/ IsRefused(w) \/ Takes(w) \/ Asks(w) \/ IsLost(w)
      BY <1>3, CallCases
    <2> DEFINE todo == request[w].todo
    <2>2. todo \in Seq(CallSet) /\ todo # <<>>
      BY <2>1, TaskFacts
    <2>0. ASSUME request'[w] = Idle PROVE Next(request'[w])
      BY <2>0, IdleFacts
    <2>3. CASE Pops(w)
      <3>1. ASSUME Tail(todo) # <<>> PROVE Next(request'[w])
        <4>1. request'[w].op = request[w].op /\ request'[w].todo = Tail(todo)
          BY <2>3, <3>1 DEF Pops, Goes
        <4>2. \A i \in DOMAIN Tail(todo) : i + 1 \in DOMAIN todo /\ Tail(todo)[i] = todo[i + 1]
          BY <2>2, TailMembers
        <4>3. Ok(request[w])
          BY <1>1
        <4> HIDE DEF todo
        <4> QED BY <2>1, <4>1, <4>2, <4>3 DEF todo
      <3>2. ASSUME Tail(todo) = <<>> PROVE Next(request'[w])
        BY <2>0, <2>3, <3>2 DEF Pops, Goes
      <3>3. Next(request'[w])
        BY <3>1, <3>2
      <3> QED BY <1>2, <2>1, <3>3
    <2>4. CASE IsRefused(w)
      <3>1. Next(request'[w])
        BY <2>0, <2>4 DEF IsRefused
      <3> QED BY <1>2, <2>1, <3>1
    <2>5. CASE Asks(w)
      <3>1. request[w].op = "delete"
        BY <2>1, <2>5, WhoCalls DEF Asks
      <3>2. request'[w] = Idle \/ request'[w].op = "delete"
        BY <2>5, <3>1 DEF Asks, Goes
      <3>3. Next(request'[w])
        BY <2>0, <3>2
      <3> QED BY <1>2, <2>1, <3>3
    <2> QED BY <2>1, <2>3, <2>4, <2>5 DEF Writes, Takes, IsLost
  <1>4. ASSUME NEW c \in Contracts, NEW now \in {"written", "deleted"}, Becomes(c, now),
               NEW op, op # "remove", NEW calls, Starts(w, op, c, calls)
        PROVE  ApartOk' /\ Stays
    <2>1. Stays
      BY <1>4, FateTypes DEF StoreTypes_
    <2> QED BY <1>2, <1>4, <2>1 DEF Starts
  <1>5. ASSUME NEW s \in Specs, NEW op \in {"create", "update"}, NEW calls \in Seq(CallSet),
               StartsWrite(w, s, op, calls)
        PROVE  ApartOk' /\ Stays
    BY <1>4, <1>5, EntryFacts DEF StartsWrite
  <1>6. ASSUME NEW c \in Contracts, StartsDelete(w, c) PROVE ApartOk' /\ Stays
    BY <1>4, <1>6 DEF StartsDelete
  <1>7. ASSUME NEW calls \in Seq(CallSet), StartsRemove(w, calls) PROVE ApartOk' /\ Stays
    BY <1>2, <1>7 DEF StartsRemove, Starts
  <1> QED BY <1>3, <1>5, <1>6, <1>7, StartCases

-----------------------------------------------------------------------------
(* As long as no call has failed, a document of a clause has a sub-contract *)
(* of the same contract that names the clause.                             *)
Reliable == MaxErrors = 0 \/ errors = 0
Anchors(c, k) ==
    {e \in Held("sub_contracts") : e.of = c /\ e.clause.form # "none" /\ k \in e.clause.ids}
Behind(c, s, k) ==
    \A j \in 1..k : s.docs[j].coll = "sub_contracts" /\ s.docs[j].doc.clause.form # "none" =>
        \A id \in s.docs[j].doc.clause.ids : Anchors(c, id) # {}
AnchoredIn(c) ==
    /\ \A x \in Kinds : \A d \in FamilyOf(c)[x] : Anchors(c, d.of) # {}
    /\ \A w \in Writers(c) : \E s \in Specs, k \in Nat :
          Writing(c, request[w].todo, s, k) /\ Behind(c, s, k)
Anchored == Reliable => \A c \in Contracts : fate[c] = "written" => AnchoredIn(c)

(* What is left of a deleted contract has a deletion under way that will    *)
(* find it, or that has listed as many deletions as there are documents    *)
(* with its id; and no sub-contract is deleted before its clauses are      *)
(* noted.                                                                  *)
WillFind(c, r, x, d) ==
    /\ \E i \in DOMAIN r.todo : Asking(r.todo[i], x)
    /\ x \in Kinds =>
          \/ d.of \in r.clauses
          \/ /\ \E i \in DOMAIN r.todo : Asking(r.todo[i], "sub_contracts")
             /\ Anchors(c, d.of) # {}
Covers(r, x, id) == Stock(x, id) <= Places(r.todo, x, id)
SeenTo(c, x, d) ==
    \E v \in Deleters(c) : WillFind(c, request[v], x, d) \/ Covers(request[v], x, d.id)
Gathered(r) ==
    \A i \in DOMAIN r.todo : r.todo[i].do = "delete" /\ r.todo[i].coll = "sub_contracts" =>
        \A e \in WithId("sub_contracts", r.todo[i].id) :
            e.clause.form # "none" => e.clause.ids \subseteq r.clauses
SeenToIn(c) ==
    /\ \A x \in Kinds \cup {"sub_contracts"} : \A d \in FamilyOf(c)[x] : SeenTo(c, x, d)
    /\ \A v \in Deleters(c) : Gathered(request[v])
AllSeenTo ==
    Reliable => \A c \in Contracts : ClausesAre(c, "dict") /\ fate[c] = "deleted" => SeenToIn(c)

LEMMA SubIsCollection == "sub_contracts" \in Collections /\ Kinds \subseteq Collections
                         /\ "sub_contracts" \notin Kinds
  BY DEF Collections, Kinds

(* A call that does not fail was made without failures before it.          *)
LEMMA StaysReliable ==
    ASSUME WellShaped, StoreTypes_, NEW w \in Workers, Calls(w), Reliable'
    PROVE  Reliable /\ ~IsLost(w)
  BY CallCases, ContractStoreConstants DEF StoreTypes_, Reliable, IsLost

(* A deletion of a sub-contract is made for its contract.                  *)
LEMMA WhoseDeletion ==
    ASSUME WellShaped, StoreTypes_, ShapesOk, NEW w \in Workers, request[w] # Idle, Takes(w),
           Task(w).coll = "sub_contracts", request[w].op # "remove"
    PROVE  /\ request[w].op = "delete" /\ request[w].contract \in Contracts
           /\ w \in Deleters(request[w].contract)
           /\ InSpecsOf(request[w].contract, "sub_contracts", Task(w).id)
           /\ \A x \in Kinds : \E j \in DOMAIN Tail(request[w].todo) :
                 Asking(Tail(request[w].todo)[j], x)
  <1> DEFINE todo == request[w].todo  c == request[w].contract
  <1>1. request[w].op = "delete" /\ w \in Deleters(c)
    BY WhoCalls DEF Takes, Deleters
  <1>2. todo \in Seq(CallSet) /\ todo # <<>> /\ Task(w) = todo[1]
    BY TaskFacts
  <1>3. c \in Contracts /\ Deleting(c, todo)
    BY <1>1 DEF ShapesOk, Shaped
  <1>4. 1 \in DOMAIN todo /\ todo[1].do = "delete" /\ todo[1].coll = "sub_contracts"
    BY <1>2, TailMembers DEF Takes
  <1>5. InSpecsOf(c, "sub_contracts", todo[1].id)
    BY <1>3, <1>4 DEF Deleting
  <1>6. ASSUME NEW x \in Kinds
        PROVE  \E j \in DOMAIN Tail(todo) : Asking(Tail(todo)[j], x)
    <2>1. PICK j \in DOMAIN todo : 1 < j /\ Asking(todo[j], x)
      BY <1>3, <1>4 DEF Deleting
    <2>2. j - 1 \in DOMAIN Tail(todo) /\ Tail(todo)[j - 1] = todo[j]
      BY <1>2, <2>1, TailMembers
    <2> QED BY <2>1, <2>2
  <1> QED BY <1>1, <1>2, <1>3, <1>5, <1>6

(* What a call takes away of sub-contracts.                                *)
LEMMA SubsAfter ==
    ASSUME WellShaped, StoreTypes_, ShapesOk, ApartOk, NEW w \in Workers, Calls(w),
           NEW e \in Held("sub_contracts")
    PROVE  \/ \E p \in Held("sub_contracts")' :
                 p.of = e.of /\ (e.clause.form # "none" => p.clause = e.clause)
           \/ /\ Takes(w) /\ Task(w).coll = "sub_contracts" /\ Task(w).id = e.id
              /\ w \in Deleters(e.of) /\ request[w].contract = e.of
           \/ fate[e.of] = "apart"
  <1> DEFINE Kept == \E p \in Held("sub_contracts")' :
                        p.of = e.of /\ (e.clause.form # "none" => p.clause = e.clause)
  <1>1. /\ request[w] # Idle
        /\ Writes(w) \/ IsRefused(w) \/ Takes(w) \/ Asks(w) \/ IsLost(w)
    BY CallCases
  <1>2. ASSUME docs' = docs PROVE Kept
    BY <1>2 DEF Held
  <1>3. CASE Writes(w)
    <2>1. PICK f \in Entries_ : Wrote(f)
      BY <1>3 DEF Writes
    <2>2. CASE f.coll = "sub_contracts"
      BY <2>1, <2>2 DEF Wrote
    <2>3. CASE f.coll # "sub_contracts"
      <3>1. e \in Held("sub_contracts")'
        BY <2>1, <2>3, SubIsCollection DEF Wrote, Untouched
      <3> QED BY <3>1
    <2> QED BY <2>2, <2>3
  <1>4. CASE Takes(w)
    <2>1. PICK y \in Collections, id \in DocIds :
             Task(w).coll = y /\ Task(w).id = id /\ Took(y, id)
      BY <1>4 DEF Takes
    <2>2. CASE docs' = docs
      BY <2>2, <1>2
    <2>3. CASE docs' # docs /\ (y # "sub_contracts" \/ id # e.id)
      <3>1. e \in Held("sub_contracts")'
        BY <2>1, <2>3, SubIsCollection DEF Took, Untouched
      <3> QED BY <3>1
    <2>5. CASE y = "sub_contracts" /\ id = e.id /\ request[w].op = "remove"
      <3>1. e.of \in Contracts /\ InSpecsOf(e.of, "sub_contracts", e.id)
        BY SubHome DEF StoreTypes_
      <3>2. /\ request[w].todo \in Seq(CallSet) /\ request[w].todo # <<>>
            /\ Task(w) = request[w].todo[1]
        BY <1>1, TaskFacts
      <3>3. 1 \in DOMAIN request[w].todo
        BY <3>2, TailMembers
      <3> QED BY <2>1, <2>5, <3>1, <3>2, <3>3 DEF ApartOk
    <2>4. CASE y = "sub_contracts" /\ id = e.id /\ request[w].op # "remove"
      <3>1. /\ w \in Deleters(request[w].contract) /\ request[w].contract \in Contracts
            /\ InSpecsOf(request[w].contract, "sub_contracts", e.id)
        BY <1>1, <1>4, <2>1, <2>4, WhoseDeletion
      <3>2. e.of = request[w].contract
        BY <3>1, SubHome DEF StoreTypes_
      <3> QED BY <1>4, <2>1, <2>4, <3>1, <3>2
    <2> QED BY <2>2, <2>3, <2>4, <2>5
  <1> QED BY <1>1, <1>2, <1>3, <1>4 DEF IsRefused, Asks, IsLost

(* A clause keeps its sub-contract, unless its contract is apart or a      *)
(* deletion of the contract takes it away.                                 *)
LEMMA AnchorsStay ==
    ASSUME WellShaped, StoreTypes_, ShapesOk, ApartOk, NEW w \in Workers, Calls(w),
           NEW c, fate[c] # "apart", NEW k, NEW e \in Anchors(c, k)
    PROVE  \/ Anchors(c, k)' # {}
           \/ /\ Takes(w) /\ Task(w).coll = "sub_contracts" /\ Task(w).id = e.id
              /\ w \in Deleters(c) /\ request[w].contract = c
  <1>1. /\ e \in Held("sub_contracts") /\ e.of = c /\ e.clause.form # "none" /\ k \in e.clause.ids
    BY DEF Anchors
  <1>2. ASSUME NEW p \in Held("sub_contracts")', p.of = e.of, p.clause = e.clause
        PROVE  Anchors(c, k)' # {}
    BY <1>1, <1>2 DEF Anchors
  <1> QED BY <1>1, <1>2, SubsAfter

LEMMA AnchoredInit == StoreInit => ShapesOk /\ FateOk /\ ApartOk /\ Anchored /\ AllSeenTo
  <1> SUFFICES ASSUME StoreInit PROVE ShapesOk /\ FateOk /\ ApartOk /\ Anchored /\ AllSeenTo
    OBVIOUS
  <1>1. \A w \in Workers : request[w] = Idle
    BY DEF StoreInit
  <1>2. ShapesOk
    BY <1>1, IdleShaped DEF ShapesOk
  <1>3. \A c : Deleters(c) = {} /\ Writers(c) = {}
    BY <1>1, IdleFacts DEF Deleters, Writers
  <1>4. \A x \in Collections : Held(x) = {}
    BY DEF StoreInit, Held, BagToSet, EmptyBag, SetToBag
  <1>5. \A c, x : x \in Collections => FamilyOf(c)[x] = {}
    BY <1>4 DEF FamilyOf
  <1>6. \A c \in Contracts : fate[c] = "new"
    BY DEF StoreInit
  <1>7. ApartOk
    BY <1>1, IdleFacts DEF ApartOk
  <1> QED BY <1>2, <1>3, <1>5, <1>6, <1>7 DEF FateOk, Anchored, AllSeenTo

(* The calls of a write keep the clauses of the contract anchored: the     *)
(* sub-contract that names a clause comes before the documents of it.      *)
LEMMA AnchoredCall ==
    ASSUME WellShaped, StoreTypes_, ShapesOk, ApartOk, NEW w \in Workers, Calls(w), ~IsLost(w),
           NEW c \in Contracts, fate[c] # "apart", AnchoredIn(c), Deleters(c) = {}
    PROVE  AnchoredIn(c)'
  <1>1. /\ request[w] # Idle
        /\ \A v \in Workers \ {w} : request'[v] = request[v]
        /\ Writes(w) \/ IsRefused(w) \/ Takes(w) \/ Asks(w)
    BY CallCases
  <1>2. ASSUME NEW k, Anchors(c, k) # {} PROVE Anchors(c, k)' # {}
    <2>1. PICK e : e \in Anchors(c, k)
      BY <1>2
    <2> QED BY <2>1, AnchorsStay
  <1>3. ASSUME NEW s, NEW k, Behind(c, s, k) PROVE Behind(c, s, k)'
    BY <1>2, <1>3 DEF Behind
  <1>4. ASSUME w \in Writers(c)
        PROVE  \E s \in Specs, k \in Nat :
                  /\ Writing(c, request[w].todo, s, k) /\ Behind(c, s, k)
                  /\ k + 1 \in DOMAIN s.docs /\ s.contract = c
                  /\ Task(w).coll = s.docs[k + 1].coll /\ Task(w).doc = s.docs[k + 1].doc
                  /\ Task(w).id = s.docs[k + 1].doc.id
    <2>1. PICK s \in Specs, k \in Nat : Writing(c, request[w].todo, s, k) /\ Behind(c, s, k)
      BY <1>4 DEF AnchoredIn
    <2>2. /\ k + 1 \in DOMAIN s.docs /\ s.contract = c
          /\ Task(w).coll = s.docs[k + 1].coll /\ Task(w).doc = s.docs[k + 1].doc
          /\ Task(w).id = s.docs[k + 1].doc.id
      <3>1. \A t, n : Writing(c, request[w].todo, t, n) =>
               /\ n + 1 \in DOMAIN t.docs /\ t.contract = c
               /\ Task(w).coll = t.docs[n + 1].coll /\ Task(w).doc = t.docs[n + 1].doc
               /\ Task(w).id = t.docs[n + 1].doc.id
        BY <1>4, WriterTask
      <3>2. Writing(c, request[w].todo, s, k)
        BY <2>1
      <3> QED BY <3>1, <3>2
    <2> QED BY <2>1, <2>2
  <1>5. ASSUME NEW x \in Kinds, NEW d \in FamilyOf(c)[x]' PROVE Anchors(c, d.of)' # {}
    <2>1. CASE d \in FamilyOf(c)[x]
      <3>1. Anchors(c, d.of) # {}
        BY <2>1 DEF AnchoredIn
      <3> QED BY <3>1, <1>2
    <2>2. CASE d \notin FamilyOf(c)[x]
      <3>1. x \in Collections
        BY SubIsCollection
      <3>2. /\ w \in Writers(c) /\ Task(w).coll = x /\ Task(w).doc.of = d.of
        BY <2>2, <3>1, NewInFamily
      <3>3. PICK s \in Specs, k \in Nat :
               /\ Behind(c, s, k) /\ k + 1 \in DOMAIN s.docs
               /\ Task(w).coll = s.docs[k + 1].coll /\ Task(w).doc = s.docs[k + 1].doc
        BY <1>4, <3>2
      <3>4. s.docs[k + 1].coll \in Kinds
        BY <3>2, <3>3
      <3>5. PICK j \in 1..((k + 1) - 1) :
               /\ s.docs[j].coll = "sub_contracts" /\ s.docs[j].doc.clause.form # "none"
               /\ s.docs[k + 1].doc.of \in s.docs[j].doc.clause.ids
        BY <3>3, <3>4 DEF WellShaped, SpecsNest
      <3>6. j \in 1..k
        BY <3>5
      <3>7. Anchors(c, d.of) # {}
        BY <3>2, <3>3, <3>5, <3>6 DEF Behind
      <3> QED BY <3>7, <1>2
    <2> QED BY <2>1, <2>2
  <1>6. ASSUME NEW v \in Writers(c)'
        PROVE  \E s \in Specs, k \in Nat : Writing(c, request'[v].todo, s, k) /\ Behind(c, s, k)'
    <2>1. v \in Writers(c)
      BY <1>6, OthersStay
    <2>2. CASE v # w
      <3>1. request'[v] = request[v]
        BY <1>1, <2>2, <1>6 DEF Writers
      <3>2. PICK s \in Specs, k \in Nat : Writing(c, request[v].todo, s, k) /\ Behind(c, s, k)
        BY <2>1 DEF AnchoredIn
      <3> QED BY <3>1, <3>2, <1>3
    <2>3. CASE v = w
      <3>1. PICK s \in Specs, k \in Nat :
               /\ Writing(c, request[w].todo, s, k) /\ Behind(c, s, k)
               /\ k + 1 \in DOMAIN s.docs /\ s.contract = c
               /\ Task(w).coll = s.docs[k + 1].coll /\ Task(w).doc = s.docs[k + 1].doc
               /\ Task(w).id = s.docs[k + 1].doc.id
        BY <1>4, <2>1, <2>3
      <3>2. Task(w).do \in {"insert", "update"} /\ request[w].todo \in Seq(CallSet)
            /\ request[w].todo # <<>>
        BY <2>1, <2>3, WriterTask
      <3>3. request'[w] # Idle
        BY <1>6, <2>3, IdleFacts DEF Writers
      <3>4. Writes(w)
        BY <1>1, <3>2, <3>3 DEF IsRefused, Takes, Asks
      <3>5. Tail(request[w].todo) # <<>> /\ request'[w].todo = Tail(request[w].todo)
        BY <3>3, <3>4 DEF Writes, Pops, Goes
      <3>6. Writing(c, Tail(request[w].todo), s, k + 1)
        BY <3>1, <3>2, <3>5, PopWriting
      <3>7. ASSUME NEW j \in 1..(k + 1), s.docs[j].coll = "sub_contracts",
                   s.docs[j].doc.clause.form # "none", NEW id \in s.docs[j].doc.clause.ids
            PROVE  Anchors(c, id)' # {}
        <4>1. CASE j \in 1..k
          BY <4>1, <3>1, <3>7, <1>2 DEF Behind
        <4>2. CASE j = k + 1
          <5>1. PICK f \in Entries_ : f.coll = "sub_contracts" /\ f.doc = s.docs[j].doc /\ Wrote(f)
            BY <3>1, <3>4, <3>7, <4>2 DEF Writes
          <5>2. PICK p \in Held("sub_contracts")' : p.of = f.doc.of /\ p.clause = f.doc.clause
            BY <3>7, <5>1 DEF Wrote
          <5>3. f.doc.of = c
            BY <3>1, <3>7, <4>2, <5>1 DEF WellShaped, SpecsNest
          <5> QED BY <3>7, <5>1, <5>2, <5>3 DEF Anchors
        <4> QED BY <4>1, <4>2
      <3>8. Behind(c, s, k + 1)'
        BY <3>7 DEF Behind
      <3> QED BY <2>3, <3>5, <3>6, <3>8
    <2> QED BY <2>2, <2>3
  <1> QED BY <1>5, <1>6 DEF AnchoredIn

-----------------------------------------------------------------------------
(* Steps that leave the documents of a contract alone.                     *)
Same(c) ==
    /\ \A x \in Collections : FamilyOf(c)[x]' = FamilyOf(c)[x]
    /\ \A x \in Collections : \A d \in FamilyOf(c)[x] : Stock(x, d.id)' = Stock(x, d.id)
    /\ \A k : Anchors(c, k)' = Anchors(c, k)
    /\ \A id : InSpecsOf(c, "sub_contracts", id) =>
          WithId("sub_contracts", id)' = WithId("sub_contracts", id)

LEMMA SameDocs ==
    ASSUME docs' = docs, NEW c
    PROVE  Same(c)
  <1>1. \A x : Held(x)' = Held(x)
    BY DEF Held
  <1>2. \A x, id : WithId(x, id)' = WithId(x, id)
    BY <1>1 DEF WithId
  <1>3. \A x \in Collections : \A id : Stock(x, id)' = Stock(x, id)
    BY <1>2 DEF Stock
  <1>4. \A x \in Collections : FamilyOf(c)[x]' = FamilyOf(c)[x]
    BY <1>1 DEF FamilyOf
  <1>5. \A k : Anchors(c, k)' = Anchors(c, k)
    BY <1>1 DEF Anchors
  <1> QED BY <1>2, <1>3, <1>4, <1>5 DEF Same

SubsHome == \A d \in Held("sub_contracts") : InSpecsOf(d.of, "sub_contracts", d.id)
LEMMA SubsHomeNext == WellShaped /\ HeldOk' => SubsHome'
  <1>1. WellShaped /\ HeldOk => SubsHome
    BY SubHome DEF SubsHome
  <1>2. WellShaped => WellShaped'
    BY DEF WellShaped, SpecsAgree, SpecsNest
  <1> QED BY <1>1, <1>2, PTL

StocksOk ==
    \A x \in Collections : \A id : Stock(x, id) \in Nat /\ (WithId(x, id) # {} => Stock(x, id) > 0)
LEMMA StocksNext == HeldOk' => StocksOk'
  <1>1. HeldOk => StocksOk
    BY StockFacts DEF StocksOk
  <1> QED BY <1>1, PTL

LEMMA StockNext ==
    ASSUME HeldOk', NEW x \in Collections, NEW id
    PROVE  Stock(x, id)' \in Nat /\ (WithId(x, id)' # {} => Stock(x, id)' > 0)
  BY StocksNext DEF StocksOk

LEMMA Apart ==
    ASSUME WellShaped, StoreTypes_, StoreTypes_', NEW c \in Contracts,
           NEW y \in Collections, NEW id, Untouched(y, id), ~InSpecsOf(c, y, id)
    PROVE  Same(c)
  <1>1. \A x \in Collections : \A d : InSpecsOf(c, x, d.id) => x # y \/ d.id # id
    OBVIOUS
  <1>2. \A x \in Collections : FamilyOf(c)[x]' = FamilyOf(c)[x]
    BY <1>1 DEF Untouched, FamilyOf
  <1>3. ASSUME NEW x \in Collections, NEW o, InSpecsOf(c, x, o)
        PROVE  WithId(x, o)' = WithId(x, o) /\ Stock(x, o)' = Stock(x, o)
    <2>1. x # y \/ o # id
      BY <1>3
    <2> QED BY <2>1, UntouchedStock
  <1>4. \A x \in Collections : \A d \in FamilyOf(c)[x] : Stock(x, d.id)' = Stock(x, d.id)
    BY <1>3, FamilyMembers
  <1>5. \A d \in Held("sub_contracts") : d.of = c => InSpecsOf(c, "sub_contracts", d.id)
    BY SubHome DEF StoreTypes_
  <1>6. \A d \in Held("sub_contracts")' : d.of = c => InSpecsOf(c, "sub_contracts", d.id)
    BY SubsHomeNext DEF StoreTypes_, SubsHome
  <1>7. ASSUME NEW d, d.of = c
        PROVE  d \in Held("sub_contracts")' <=> d \in Held("sub_contracts")
    BY <1>1, <1>5, <1>6, <1>7, SubIsCollection DEF Untouched
  <1>8. \A k : Anchors(c, k)' = Anchors(c, k)
    BY <1>7 DEF Anchors
  <1> QED BY <1>2, <1>3, <1>4, <1>8, SubIsCollection DEF Same

(* What a deletion of the contract has to say about its list.              *)
LEMMA DeleterFacts ==
    ASSUME StoreTypes_, ShapesOk, NEW c, NEW v \in Deleters(c)
    PROVE  /\ v \in Workers /\ request[v] # Idle /\ request[v].contract = c /\ request[v].op = "delete"
           /\ c \in Contracts
           /\ request[v].todo \in Seq(CallSet) /\ request[v].todo # <<>>
           /\ Task(v) = request[v].todo[1] /\ Deleting(c, request[v].todo)
           /\ \A i \in DOMAIN request[v].todo :
                 Asking(request[v].todo[i], "sub_contracts") => request[v].clauses = {}
  <1>1. v \in Workers /\ request[v].contract = c /\ request[v].op = "delete" /\ request[v] # Idle
    BY IdleFacts DEF Deleters
  <1>2. request[v].todo \in Seq(CallSet) /\ request[v].todo # <<>> /\ Task(v) = request[v].todo[1]
    BY <1>1, TaskFacts
  <1>3. /\ c \in Contracts /\ Deleting(c, request[v].todo)
        /\ \A i \in DOMAIN request[v].todo :
              Asking(request[v].todo[i], "sub_contracts") => request[v].clauses = {}
    BY <1>1 DEF ShapesOk, Shaped
  <1> QED BY <1>1, <1>2, <1>3

(* Steps that leave both the documents of the contract and its deletions   *)
(* alone.                                                                  *)
LEMMA SeenSame ==
    ASSUME StoreTypes_, ShapesOk, NEW c, SeenToIn(c), Same(c),
           Deleters(c)' = Deleters(c), \A v \in Deleters(c) : request'[v] = request[v]
    PROVE  SeenToIn(c)'
  <1>1. ASSUME NEW x \in Kinds \cup {"sub_contracts"}, NEW d \in FamilyOf(c)[x]'
        PROVE  SeenTo(c, x, d)'
    <2>1. x \in Collections
      BY SubIsCollection
    <2>2. d \in FamilyOf(c)[x] /\ Stock(x, d.id)' = Stock(x, d.id) /\ Anchors(c, d.of)' = Anchors(c, d.of)
      BY <2>1 DEF Same
    <2>3. PICK v \in Deleters(c) : WillFind(c, request[v], x, d) \/ Covers(request[v], x, d.id)
      BY <2>2 DEF SeenToIn, SeenTo
    <2>4. v \in Deleters(c)' /\ request'[v] = request[v]
      OBVIOUS
    <2>5. WillFind(c, request[v], x, d) => WillFind(c, request[v], x, d)'
      BY <2>2, <2>4 DEF WillFind
    <2>6. Covers(request[v], x, d.id) => Covers(request[v], x, d.id)'
      BY <2>2, <2>4 DEF Covers
    <2> QED BY <2>3, <2>4, <2>5, <2>6 DEF SeenTo
  <1>2. ASSUME NEW v \in Deleters(c)' PROVE Gathered(request[v])'
    <2>1. v \in Deleters(c) /\ request'[v] = request[v] /\ Gathered(request[v])
      BY DEF SeenToIn
    <2>2. \A i \in DOMAIN request[v].todo :
             request[v].todo[i].do = "delete" /\ request[v].todo[i].coll = "sub_contracts" =>
                InSpecsOf(c, "sub_contracts", request[v].todo[i].id)
      BY <2>1, DeleterFacts DEF Deleting
    <2>3. \A i \in DOMAIN request[v].todo :
             request[v].todo[i].do = "delete" /\ request[v].todo[i].coll = "sub_contracts" =>
                WithId("sub_contracts", request[v].todo[i].id)' = WithId("sub_contracts", request[v].todo[i].id)
      BY <2>1, <2>2 DEF Same
    <2> QED BY <2>1, <2>3 DEF Gathered
  <1> QED BY <1>1, <1>2 DEF SeenToIn

(* A deletion of one document: what is left has still a deletion that sees *)
(* to it.                                                                  *)
LEMMA SeenTakes ==
    ASSUME WellShaped, StoreTypes_, StoreTypes_', ShapesOk, ApartOk, NEW w \in Workers, Calls(w),
           Takes(w), NEW c \in Contracts, fate[c] # "apart", SeenToIn(c)
    PROVE  SeenToIn(c)'
  <1>1. /\ request[w] # Idle
        /\ \A v \in Workers \ {w} : request'[v] = request[v]
    BY CallCases
  <1>2. PICK y \in Collections, id \in DocIds :
           Task(w).do = "delete" /\ Task(w).coll = y /\ Task(w).id = id /\ Took(y, id) /\ Pops(w)
    BY DEF Takes
  <1> DEFINE todo == request[w].todo  u == Tail(todo)
  <1>3. todo \in Seq(CallSet) /\ todo # <<>> /\ Task(w) = todo[1] /\ u \in Seq(CallSet)
    BY <1>1, TaskFacts
  <1>4. HeldOk /\ HeldOk'
    BY DEF StoreTypes_
  <1>5. ASSUME NEW x \in Collections, NEW o
        PROVE  /\ WithId(x, o)' \subseteq WithId(x, o)
               /\ Stock(x, o) \in Nat /\ Stock(x, o)' \in Nat
               /\ WithId(x, o)' # {} => Stock(x, o)' > 0
               /\ x = y /\ o = id => WithId(x, o) = {} \/ Stock(x, o)' = Stock(x, o) - 1
               /\ x # y \/ o # id => Stock(x, o)' = Stock(x, o)
    <2>1. Stock(x, o) \in Nat
      BY <1>4, StockFacts
    <2>2. Stock(x, o)' \in Nat /\ (WithId(x, o)' # {} => Stock(x, o)' > 0)
      BY <1>4, StockNext
    <2>3. CASE docs' = docs
      BY <2>1, <2>2, <2>3, <1>2 DEF Took, WithId, Held, Stock
    <2>4. CASE docs' # docs
      <3>1. Untouched(y, id) /\ Held(y)' \subseteq Held(y) /\ Stock(y, id)' = Stock(y, id) - 1
        BY <2>4, <1>2 DEF Took
      <3>2. CASE x = y /\ o = id
        BY <3>1, <3>2, <2>1, <2>2 DEF WithId
      <3>3. CASE x # y \/ o # id
        BY <3>1, <3>3, <2>1, <2>2, UntouchedStock
      <3> QED BY <3>2, <3>3
    <2> QED BY <2>3, <2>4
  <1>6. ASSUME NEW v \in Deleters(c)
        PROVE  IF v # w THEN v \in Deleters(c)' /\ request'[v] = request[v]
               ELSE u # <<>> => v \in Deleters(c)' /\ request'[w].todo = u /\ request'[w].clauses = request[w].clauses
    BY <1>1, <1>2 DEF Deleters, Pops, Goes
  <1>7. \A x : x \in Kinds \cup {"sub_contracts"} => x \in Collections
    BY SubIsCollection
  <1>8. ASSUME NEW x \in Kinds \cup {"sub_contracts"}, NEW d \in FamilyOf(c)[x]'
        PROVE  SeenTo(c, x, d)'
    <2>1. d \in Held(x)' /\ InSpecsOf(c, x, d.id) /\ x \in Collections
      BY <1>7, FamilyMembers
    <2>2. d \in WithId(x, d.id)' /\ d \in WithId(x, d.id)
      <3>1. d \in WithId(x, d.id)'
        BY <2>1 DEF WithId
      <3> QED BY <3>1, <2>1, <1>5
    <2>3. d \in FamilyOf(c)[x]
      BY <2>1, <2>2, FamilyMembers DEF WithId
    <2>4. PICK v \in Deleters(c) : WillFind(c, request[v], x, d) \/ Covers(request[v], x, d.id)
      BY <2>3 DEF SeenToIn, SeenTo
    <2>5. CASE Covers(request[v], x, d.id)
      <3>1. /\ Stock(x, d.id) \in Nat /\ Stock(x, d.id)' \in Nat /\ Stock(x, d.id)' > 0
            /\ x = y /\ d.id = id => Stock(x, d.id)' = Stock(x, d.id) - 1
            /\ x # y \/ d.id # id => Stock(x, d.id)' = Stock(x, d.id)
        BY <1>5, <2>1, <2>2
      <3>2. CASE v # w
        <4>1. Stock(x, d.id)' <= Stock(x, d.id)
          BY <3>1
        <4>2. Places(request[v].todo, x, d.id) \in Nat
          BY DeleterFacts, PlacesFinite
        <4>3. Stock(x, d.id)' <= Places(request[v].todo, x, d.id)
          BY <2>5, <3>1, <4>1, <4>2 DEF Covers
        <4>4. v \in Deleters(c)' /\ request'[v] = request[v]
          BY <1>6, <3>2
        <4>5. Covers(request[v], x, d.id)'
          BY <4>3, <4>4 DEF Covers
        <4> QED BY <4>4, <4>5 DEF SeenTo
      <3>3. CASE v = w
        <4>1. Places(u, x, d.id) = IF y = x /\ id = d.id THEN Places(todo, x, d.id) - 1
                                   ELSE Places(todo, x, d.id)
          BY <1>2, <1>3, PlacesTail
        <4>2. Places(todo, x, d.id) \in Nat /\ Stock(x, d.id) <= Places(todo, x, d.id)
          BY <1>3, <2>5, <3>3, PlacesFinite DEF Covers
        <4>3. Stock(x, d.id)' <= Places(u, x, d.id) /\ Places(u, x, d.id) > 0
          BY <3>1, <4>1, <4>2
        <4>4. u # <<>>
          <5>1. ASSUME u = <<>> PROVE Places(u, x, d.id) = 0
            <6>1. Placed(u, x, d.id) = {}
              BY <5>1 DEF Placed
            <6> QED BY <6>1, FS_EmptySet DEF Places
          <5> QED BY <4>3, <5>1
        <4>5. w \in Deleters(c)' /\ request'[w].todo = u
          BY <1>6, <3>3, <4>4
        <4>6. Covers(request[w], x, d.id)'
          BY <4>3, <4>5 DEF Covers
        <4> QED BY <4>5, <4>6 DEF SeenTo
      <3> QED BY <3>2, <3>3
    <2>6. ASSUME NEW i \in DOMAIN todo, NEW z, Asking(todo[i], z)
          PROVE  \E j \in DOMAIN u : Asking(u[j], z)
      <3>1. i # 1
        BY <1>2, <1>3, <2>6 DEF Asking
      <3>2. i - 1 \in DOMAIN u /\ u[i - 1] = todo[i]
        BY <1>3, <3>1, TailMembers
      <3> QED BY <2>6, <3>2
    <2>7. CASE WillFind(c, request[v], x, d) /\ (x \in Kinds /\ d.of \notin request[v].clauses =>
                                                   Anchors(c, d.of)' # {})
      <3>1. CASE v # w
        <4>1. v \in Deleters(c)' /\ request'[v] = request[v]
          BY <1>6, <3>1
        <4>2. WillFind(c, request[v], x, d)'
          BY <2>7, <4>1 DEF WillFind
        <4> QED BY <4>1, <4>2 DEF SeenTo
      <3>2. CASE v = w
        <4>1. \E j \in DOMAIN u : Asking(u[j], x)
          BY <2>6, <2>7, <3>2 DEF WillFind
        <4>2. u # <<>>
          BY <4>1
        <4>3. w \in Deleters(c)' /\ request'[w].todo = u /\ request'[w].clauses = request[w].clauses
          BY <1>6, <3>2, <4>2
        <4>4. x \in Kinds => d.of \in request[w].clauses
                 \/ ((\E j \in DOMAIN u : Asking(u[j], "sub_contracts")) /\ Anchors(c, d.of)' # {})
          BY <2>6, <2>7, <3>2 DEF WillFind
        <4>5. WillFind(c, request[w], x, d)'
          BY <4>1, <4>3, <4>4 DEF WillFind
        <4> QED BY <4>3, <4>5 DEF SeenTo
      <3> QED BY <3>1, <3>2
    <2>8. CASE WillFind(c, request[v], x, d) /\ x \in Kinds /\ d.of \notin request[v].clauses
               /\ Anchors(c, d.of)' = {}
      <3>1. PICK e : e \in Anchors(c, d.of)
        BY <2>8 DEF WillFind
      <3>2. Task(w).coll = "sub_contracts" /\ Task(w).id = e.id /\ w \in Deleters(c)
        BY <2>8, <3>1, AnchorsStay
      <3>3. e \in WithId("sub_contracts", e.id) /\ e.clause.form # "none" /\ d.of \in e.clause.ids
        BY <3>1 DEF Anchors, WithId
      <3>4. Gathered(request[w]) /\ 1 \in DOMAIN todo
        BY <1>3, <3>2, TailMembers DEF SeenToIn
      <3>5. d.of \in request[w].clauses
        BY <1>2, <1>3, <3>2, <3>3, <3>4 DEF Gathered
      <3>6. PICK j \in DOMAIN u : Asking(u[j], x)
        BY <1>1, <2>8, <3>2, WhoseDeletion DEF Deleters
      <3>7. u # <<>>
        BY <3>6
      <3>8. w \in Deleters(c)' /\ request'[w].todo = u /\ request'[w].clauses = request[w].clauses
        BY <1>6, <3>2, <3>7
      <3>9. WillFind(c, request[w], x, d)'
        BY <3>5, <3>6, <3>8 DEF WillFind
      <3> QED BY <3>8, <3>9 DEF SeenTo
    <2> QED BY <2>4, <2>5, <2>7, <2>8
  <1>9. ASSUME NEW v \in Deleters(c)' PROVE Gathered(request[v])'
    <2>1. v \in Deleters(c) /\ Gathered(request[v])
      BY OthersStay DEF SeenToIn
    <2>2. \A o : WithId("sub_contracts", o)' \subseteq WithId("sub_contracts", o)
      BY <1>5, SubIsCollection
    <2>3. CASE v # w
      <3>1. request'[v] = request[v]
        BY <1>6, <2>1, <2>3
      <3> QED BY <2>1, <2>2, <3>1 DEF Gathered
    <2>4. CASE v = w
      <3>1. request'[w] # Idle
        BY <2>4, IdleFacts DEF Deleters
      <3>2. request'[w].todo = u /\ request'[w].clauses = request[w].clauses
        BY <1>2, <3>1 DEF Pops, Goes
      <3>3. \A i \in DOMAIN u : i + 1 \in DOMAIN todo /\ u[i] = todo[i + 1]
        BY <1>3, TailMembers
      <3> QED BY <2>1, <2>2, <2>4, <3>2, <3>3 DEF Gathered
    <2> QED BY <2>3, <2>4
  <1> QED BY <1>8, <1>9 DEF SeenToIn

(* A query: what it was to find is on the list now, and the clauses of the *)
(* sub-contracts are noted.                                                *)
LEMMA SeenAsks ==
    ASSUME WellShaped, StoreTypes_, ShapesOk, NEW w \in Workers, Calls(w), Asks(w),
           NEW c \in Contracts, w \in Deleters(c), ClausesAre(c, "dict"), SeenToIn(c)
    PROVE  SeenToIn(c)'
  <1> DEFINE todo == request[w].todo  u == Tail(todo)
  <1>1. /\ request[w] # Idle
        /\ \A v \in Workers \ {w} : request'[v] = request[v]
    BY CallCases
  <1>2. /\ request[w].contract = c /\ request[w].op = "delete" /\ todo \in Seq(CallSet) /\ todo # <<>>
        /\ Task(w) = todo[1] /\ Deleting(c, todo) /\ u \in Seq(CallSet)
        /\ \A i \in DOMAIN todo : Asking(todo[i], "sub_contracts") => request[w].clauses = {}
    BY DeleterFacts, TailMembers
  <1>3. PICK y \in Collections : y = todo[1].coll
    BY <1>2 DEF Asks
  <1> DEFINE found == Matches(w, y)
             noted == IF y = "sub_contracts" THEN ClausesIn(found) ELSE request[w].clauses
  <1>4. todo[1].do = "query" /\ docs' = docs /\ found \subseteq Held(y)
    BY <1>2, <1>3 DEF Asks
  <1>5. PICK q \in Listed(y, found) : \E kills \in Seq(CallSet) :
           /\ Len(kills) = Len(q)
           /\ \A i \in 1..Len(q) : kills[i] = Call("delete", y, q[i].id, NoDoc)
           /\ Goes(w, kills \o u, noted)
    BY <1>2, <1>3 DEF Asks
  <1>6. PICK kills \in Seq(CallSet) :
           /\ Len(kills) = Len(q)
           /\ \A i \in 1..Len(q) : kills[i] = Call("delete", y, q[i].id, NoDoc)
           /\ Goes(w, kills \o u, noted)
    BY <1>5
  <1> DEFINE new == kills \o u  n == Len(kills)
  <1> HIDE DEF found, noted
  <1>7. HeldOk /\ q \in Seq(found) /\ \A i \in 1..n : q[i] \in found
    <2>1. HeldOk
      BY DEF StoreTypes_
    <2>2. q \in Seq(found)
      BY <1>4, <2>1, ListedFacts
    <2> QED BY <2>1, <2>2, <1>6, LenProperties
  <1>8. /\ new \in Seq(CallSet) /\ n \in Nat
        /\ \A i \in 1..n : i \in DOMAIN new /\ new[i] = kills[i]
        /\ \A i \in DOMAIN u : n + i \in DOMAIN new /\ new[n + i] = u[i]
        /\ \A i \in DOMAIN new : i \in 1..n \/ (i - n \in DOMAIN u /\ new[i] = u[i - n])
    <2>1. u \in Seq(CallSet)
      BY <1>2
    <2> HIDE DEF u
    <2> QED BY <2>1, ConcatMembers
  <1>9. \A i \in 1..n : kills[i].do = "delete" /\ kills[i].coll = y /\ kills[i].id = q[i].id
    <2>1. \A i \in 1..n : kills[i] = Call("delete", y, q[i].id, NoDoc)
      BY <1>6
    <2>2. \A o : LET call == Call("delete", y, o, NoDoc) IN
             call.do = "delete" /\ call.coll = y /\ call.id = o
      BY DEF Call
    <2> HIDE DEF n
    <2> QED BY <2>1, <2>2
  <1>10. Same(c) /\ \A x \in Collections : \A o : Stock(x, o)' = Stock(x, o)
    BY <1>4, SameDocs DEF Stock, WithId, Held
  <1>11. new # <<>> => /\ w \in Deleters(c)' /\ request'[w].todo = new /\ request'[w].clauses = noted
    BY <1>2, <1>6 DEF Goes, Deleters
  <1>12. \A v \in Deleters(c) \ {w} : v \in Deleters(c)' /\ request'[v] = request[v]
    BY <1>1 DEF Deleters
  <1>13. ASSUME y = "sub_contracts", NEW e \in Held("sub_contracts"), e.of = c, e.clause.form # "none"
         PROVE  e.clause.ids \subseteq noted
    <2>1. e \in found
      BY <1>2, <1>13, FoundFacts DEF found
    <2>2. e.clause.form = "dict"
      BY <1>7, <1>13, SubHome
    <2> QED BY <1>13, <2>1, <2>2 DEF noted, ClausesIn
  <1>14. ASSUME NEW x \in Collections, NEW o, WithId(x, o) # {}, Stock(x, o) <= Places(new, x, o)
         PROVE  w \in Deleters(c)' /\ Covers(request[w], x, o)'
    <2>1. Stock(x, o) > 0 /\ Stock(x, o) \in Nat
      BY <1>7, <1>14, StockFacts
    <2>2. ASSUME new = <<>> PROVE Places(new, x, o) = 0
      <3>1. Placed(new, x, o) = {}
        BY <2>2 DEF Placed
      <3> QED BY <3>1, FS_EmptySet DEF Places
    <2>3. new # <<>>
      BY <1>14, <2>1, <2>2
    <2> HIDE DEF new
    <2> QED BY <1>10, <1>11, <1>14, <2>3 DEF Covers
  <1>15. ASSUME NEW x \in Collections, NEW o, WithId(x, o) # {}, x = y, WithId(x, o) \subseteq found
         PROVE  w \in Deleters(c)' /\ Covers(request[w], x, o)'
    <2>1. Stock(x, o) <= Cardinality({i \in 1..Len(q) : q[i].id = o})
      BY <1>4, <1>7, <1>15, ListedStock
    <2>2. {i \in 1..Len(q) : q[i].id = o} = Placed(kills, x, o)
      <3>1. DOMAIN kills = 1..Len(q)
        BY <1>6, LenProperties
      <3> QED BY <1>6, <1>9, <1>15, <3>1 DEF Placed
    <2>3. Places(kills, x, o) <= Places(new, x, o) /\ Places(kills, x, o) \in Nat
          /\ Places(new, x, o) \in Nat
      BY <1>2, <1>8, PlacesConcat, PlacesFinite
    <2>4. Stock(x, o) \in Nat
      BY <1>7, StockFacts
    <2>5. Stock(x, o) <= Places(new, x, o)
      <3>1. Stock(x, o) <= Places(kills, x, o)
        BY <2>1, <2>2 DEF Places
      <3> HIDE DEF new
      <3> QED BY <2>3, <2>4, <3>1
    <2> QED BY <1>14, <1>15, <2>5
  <1>16. ASSUME NEW z, NEW i \in DOMAIN todo, Asking(todo[i], z), z # y
         PROVE  \E j \in DOMAIN new : Asking(new[j], z)
    <2>1. i # 1
      BY <1>3, <1>16 DEF Asking
    <2>2. PICK j \in DOMAIN u : u[j] = todo[i]
      BY <1>2, <2>1, TailMembers
    <2> HIDE DEF new, u, n
    <2>3. n + j \in DOMAIN new /\ new[n + j] = todo[i]
      BY <1>8, <2>2
    <2> QED BY <1>16, <2>3
  <1>17. ASSUME NEW i \in DOMAIN todo, Asking(todo[i], "sub_contracts")
         PROVE  y = "sub_contracts"
    <2>1. 1 \in DOMAIN todo /\ (i = 1 \/ i > 1) /\ i \in Nat
      BY <1>2, TailMembers
    <2>2. i = 1
      BY <1>2, <1>4, <1>17, <2>1 DEF Deleting
    <2> QED BY <1>3, <1>17, <2>2 DEF Asking
  <1> HIDE DEF new, u
  <1>18. ASSUME NEW x \in Kinds \cup {"sub_contracts"}, NEW d \in FamilyOf(c)[x]'
         PROVE  SeenTo(c, x, d)'
    <2>1. x \in Collections
      BY SubIsCollection
    <2>2. d \in FamilyOf(c)[x] /\ d \in Held(x) /\ InSpecsOf(c, x, d.id)
      BY <1>10, <2>1, FamilyMembers DEF Same
    <2>3. d \in WithId(x, d.id)
      BY <2>2 DEF WithId
    <2>4. PICK v \in Deleters(c) : WillFind(c, request[v], x, d) \/ Covers(request[v], x, d.id)
      BY <2>2 DEF SeenToIn, SeenTo
    <2>5. CASE v # w
      <3>1. v \in Deleters(c)' /\ request'[v] = request[v]
        BY <1>12, <2>5
      <3>2. Covers(request[v], x, d.id) => Covers(request[v], x, d.id)'
        BY <1>10, <2>1, <3>1 DEF Covers
      <3>3. WillFind(c, request[v], x, d) => WillFind(c, request[v], x, d)'
        BY <1>10, <3>1 DEF WillFind, Same
      <3> QED BY <2>4, <3>1, <3>2, <3>3 DEF SeenTo
    <2>6. CASE v = w /\ Covers(request[v], x, d.id)
      <3>1. Places(u, x, d.id) = Places(todo, x, d.id)
        BY <1>2, <1>4, PlacesTail DEF u
      <3>2. Places(u, x, d.id) <= Places(new, x, d.id) /\ Places(u, x, d.id) \in Nat
            /\ Places(new, x, d.id) \in Nat
        BY <1>2, <1>8, PlacesConcat, PlacesFinite DEF new
      <3>3. Stock(x, d.id) \in Nat /\ Stock(x, d.id) <= Places(todo, x, d.id)
        BY <1>7, <2>1, <2>6, StockFacts DEF Covers
      <3>4. Stock(x, d.id) <= Places(new, x, d.id)
        BY <3>1, <3>2, <3>3
      <3> QED BY <1>14, <2>1, <2>3, <3>4 DEF SeenTo
    <2>7. CASE v = w /\ WillFind(c, request[v], x, d) /\ x = y
      <3>1. CASE x = "sub_contracts"
        <4>1. \A e \in WithId(x, d.id) : e \in found
          BY <1>2, <2>2, <2>7, <3>1, FoundFacts DEF WithId, found
        <4> QED BY <1>15, <2>1, <2>3, <2>7, <4>1 DEF SeenTo
      <3>2. CASE x \in Kinds
        <4>1. d.of \in request[w].clauses
          BY <1>17, <2>7, <3>2, SubIsCollection DEF WillFind
        <4>2. \A e \in WithId(x, d.id) : e.of = d.of
          <5> TAKE e \in WithId(x, d.id)
          <5>1. e \in Held(x) /\ e.id = d.id
            BY DEF WithId
          <5>2. PICK f \in Entries_ : From(x, e, f) /\ f.doc.of = e.of
            BY <1>7, <2>1, <5>1, HeldFacts DEF Drawn
          <5>3. PICK g \in Entries_ : From(x, d, g) /\ g.doc.of = d.of
            BY <1>7, <2>1, <2>2, HeldFacts DEF Drawn
          <5> QED BY <5>1, <5>2, <5>3, EntriesAgree DEF From
        <4>3. \A e \in WithId(x, d.id) : e \in found
          BY <1>2, <2>7, <3>2, <4>1, <4>2, FoundFacts DEF found, WithId
        <4> QED BY <1>15, <2>1, <2>3, <2>7, <4>3 DEF SeenTo
      <3> QED BY <3>1, <3>2
    <2>8. CASE v = w /\ WillFind(c, request[v], x, d) /\ x # y
      <3>1. \E j \in DOMAIN new : Asking(new[j], x)
        BY <1>16, <2>8 DEF WillFind
      <3>2. new # <<>>
        BY <3>1
      <3>3. x \in Kinds => d.of \in noted
        <4>1. CASE y = "sub_contracts"
          <5>1. 1 \in DOMAIN todo /\ Asking(todo[1], "sub_contracts")
            BY <1>2, <1>3, <1>4, <4>1, TailMembers DEF Asking
          <5>2. request[w].clauses = {}
            BY <1>2, <5>1
          <5>3. ASSUME x \in Kinds PROVE d.of \in noted
            <6>1. PICK e : e \in Anchors(c, d.of)
              BY <2>8, <5>2, <5>3 DEF WillFind
            <6> QED BY <1>13, <4>1, <6>1 DEF Anchors
          <5> QED BY <5>3
        <4>2. CASE y # "sub_contracts"
          BY <1>17, <2>8, <4>2 DEF WillFind, noted
        <4> QED BY <4>1, <4>2
      <3>4. WillFind(c, request[w], x, d)'
        BY <1>11, <3>1, <3>2, <3>3 DEF WillFind
      <3> QED BY <1>11, <3>2, <3>4 DEF SeenTo
    <2> QED BY <2>4, <2>5, <2>6, <2>7, <2>8
  <1>19. ASSUME NEW v \in Deleters(c)' PROVE Gathered(request[v])'
    <2>1. v \in Deleters(c) /\ Gathered(request[v])
      BY OthersStay DEF SeenToIn
    <2>2. \A o : WithId("sub_contracts", o)' = WithId("sub_contracts", o)
      BY <1>4 DEF WithId, Held
    <2>3. CASE v # w
      <3>1. request'[v] = request[v]
        BY <1>12, <2>1, <2>3
      <3> QED BY <2>1, <2>2, <3>1 DEF Gathered
    <2>4. CASE v = w
      <3>1. new # <<>>
        BY <1>6, <2>4, IdleFacts DEF Goes, Deleters, new
      <3>2. request'[w].todo = new /\ request'[w].clauses = noted
        BY <1>11, <3>1
      <3>3. ASSUME NEW i \in DOMAIN new, new[i].do = "delete", new[i].coll = "sub_contracts",
                   NEW e \in WithId("sub_contracts", new[i].id), e.clause.form # "none"
            PROVE  e.clause.ids \subseteq noted
        <4>1. CASE i \in 1..n
          <5>1. y = "sub_contracts" /\ new[i].id = q[i].id /\ q[i] \in found
            BY <1>7, <1>8, <1>9, <3>3, <4>1
          <5>2. InSpecsOf(c, "sub_contracts", e.id) /\ e \in Held("sub_contracts")
            BY <1>2, <3>3, <5>1, FoundFacts DEF found, WithId
          <5>3. e.of = c
            BY <1>7, <5>2, SubHome
          <5> QED BY <1>13, <3>3, <5>1, <5>2, <5>3
        <4>2. CASE i - n \in DOMAIN u /\ new[i] = u[i - n]
          <5>1. PICK j \in DOMAIN todo : todo[j] = new[i]
            <6>1. (i - n) + 1 \in DOMAIN todo /\ todo[(i - n) + 1] = u[i - n]
              BY <1>2, <4>2, TailMembers DEF u
            <6> QED BY <4>2, <6>1
          <5>2. e.clause.ids \subseteq request[w].clauses
            BY <2>1, <2>4, <3>3, <5>1 DEF Gathered
          <5>3. CASE y = "sub_contracts"
            <6>1. 1 \in DOMAIN todo /\ Asking(todo[1], "sub_contracts")
              BY <1>2, <1>3, <1>4, <5>3, TailMembers DEF Asking
            <6>2. request[w].clauses = {}
              BY <1>2, <6>1
            <6> QED BY <5>2, <6>2
          <5>4. CASE y # "sub_contracts"
            BY <5>2, <5>4 DEF noted
          <5> QED BY <5>3, <5>4
        <4> QED BY <1>8, <4>1, <4>2
      <3> QED BY <2>2, <2>4, <3>2, <3>3 DEF Gathered
    <2> QED BY <2>3, <2>4
  <1> QED BY <1>18, <1>19 DEF SeenToIn

-----------------------------------------------------------------------------
LEMMA SeenCall ==
    ASSUME WellShaped, StoreTypes_, StoreTypes_', ShapesOk, ApartOk, NEW w \in Workers, Calls(w),
           ~IsLost(w), NEW c \in Contracts, fate[c] # "apart", ClausesAre(c, "dict"), SeenToIn(c),
           Writers(c) = {}
    PROVE  SeenToIn(c)'
  <1>1. /\ request[w] # Idle
        /\ \A v \in Workers \ {w} : request'[v] = request[v]
        /\ Writes(w) \/ IsRefused(w) \/ Takes(w) \/ Asks(w)
    BY CallCases
  <1>2. CASE Takes(w)
    BY <1>2, SeenTakes
  <1>3. CASE Asks(w) /\ w \in Deleters(c)
    BY <1>3, SeenAsks
  <1>4. ASSUME w \notin Deleters(c), Same(c) PROVE SeenToIn(c)'
    <2>1. Deleters(c)' = Deleters(c) /\ \A v \in Deleters(c) : request'[v] = request[v]
      <3>1. \A v \in Deleters(c) : v \in Workers \ {w} /\ request'[v] = request[v]
        BY <1>1, <1>4 DEF Deleters
      <3>2. Deleters(c)' \subseteq Deleters(c)
        BY OthersStay
      <3>3. Deleters(c) \subseteq Deleters(c)'
        BY <3>1 DEF Deleters
      <3> QED BY <3>1, <3>2, <3>3
    <2> QED BY <1>4, <2>1, SeenSame
  <1>5. CASE Asks(w) /\ w \notin Deleters(c)
    BY <1>4, <1>5, SameDocs DEF Asks
  <1>6. CASE Writes(w) \/ IsRefused(w)
    <2>1. request[w].op \in {"create", "update"}
      BY <1>1, <1>6, WhoCalls DEF Writes, IsRefused
    <2>2. w \notin Deleters(c) /\ request[w].contract # c
      BY <2>1 DEF Deleters, Writers
    <2>3. CASE IsRefused(w)
      BY <1>4, <2>2, <2>3, SameDocs DEF IsRefused
    <2>4. CASE Writes(w)
      <3>1. PICK e \in Entries_ : Task(w).coll = e.coll /\ Task(w).id = e.doc.id /\ Wrote(e)
        BY <2>4 DEF Writes
      <3>2. w \in Writers(request[w].contract)
        BY <2>1 DEF Writers
      <3>3. InSpecsOf(request[w].contract, e.coll, e.doc.id)
        BY <3>1, <3>2, WriterTask
      <3>4. ~InSpecsOf(c, e.coll, e.doc.id)
        BY <2>2, <3>3, OneHome
      <3>5. e.coll \in Collections /\ Untouched(e.coll, e.doc.id)
        BY <3>1, EntryFacts DEF Wrote
      <3>6. Same(c)
        BY <3>4, <3>5, Apart
      <3> QED BY <1>4, <2>2, <3>6
    <2> QED BY <1>6, <2>3, <2>4
  <1> QED BY <1>1, <1>2, <1>3, <1>5, <1>6

(* Steps with which other requests begin.                                  *)
LEMMA SameStart ==
    ASSUME StoreTypes_, ShapesOk, NEW w \in Workers, NEW b, NEW op, NEW calls, Starts(w, op, b, calls),
           NEW c
    PROVE  /\ Same(c) /\ Reliable' = Reliable
           /\ b # c \/ op # "delete" => Deleters(c)' = Deleters(c)
           /\ b # c \/ op \notin {"create", "update"} => Writers(c)' = Writers(c)
           /\ Writers(c) \subseteq Writers(c)' /\ Writers(c)' \subseteq Writers(c) \cup {w}
           /\ Deleters(c) \subseteq Deleters(c)' /\ Deleters(c)' \subseteq Deleters(c) \cup {w}
           /\ \A v \in Deleters(c) \cup Writers(c) : v # w /\ request'[v] = request[v]
  <1>1. docs' = docs /\ errors' = errors
    BY DEF Starts
  <1>2. Same(c) /\ Reliable' = Reliable
    BY <1>1, SameDocs DEF Reliable
  <1>3. /\ request[w] = Idle /\ \A v \in Workers \ {w} : request'[v] = request[v]
        /\ request'[w].op = op /\ request'[w].contract = b
    BY DEF Starts
  <1>4. w \notin Deleters(c) /\ w \notin Writers(c)
    BY <1>3, IdleFacts DEF Deleters, Writers
  <1>5. \A v \in Deleters(c) \cup Writers(c) : v # w /\ request'[v] = request[v]
    BY <1>3, <1>4 DEF Deleters, Writers
  <1>6. Deleters(c) \subseteq Deleters(c)' /\ Writers(c) \subseteq Writers(c)'
    BY <1>5 DEF Deleters, Writers
  <1>7. Deleters(c)' \subseteq Deleters(c) \cup {w} /\ Writers(c)' \subseteq Writers(c) \cup {w}
    BY <1>3 DEF Deleters, Writers
  <1>8. b # c \/ op # "delete" => w \notin Deleters(c)'
    BY <1>3 DEF Deleters
  <1>9. b # c \/ op \notin {"create", "update"} => w \notin Writers(c)'
    BY <1>3 DEF Writers
  <1> QED BY <1>2, <1>4, <1>5, <1>6, <1>7, <1>8, <1>9

LEMMA AnchoredSame ==
    ASSUME NEW c, AnchoredIn(c), Same(c),
           \A w \in Writers(c)' : \/ w \in Writers(c) /\ request'[w] = request[w]
                                  \/ \E s \in Specs : Writing(c, request'[w].todo, s, 0)
    PROVE  AnchoredIn(c)'
  <1>1. \A x \in Kinds : \A d \in FamilyOf(c)[x]' : Anchors(c, d.of)' # {}
    BY SubIsCollection DEF AnchoredIn, Same
  <1>2. ASSUME NEW s, NEW k, Behind(c, s, k) PROVE Behind(c, s, k)'
    BY <1>2 DEF Behind, Same
  <1>3. ASSUME NEW w \in Writers(c)'
        PROVE  \E s \in Specs, k \in Nat : Writing(c, request'[w].todo, s, k) /\ Behind(c, s, k)'
    <2>1. CASE w \in Writers(c) /\ request'[w] = request[w]
      <3>1. PICK s \in Specs, k \in Nat : Writing(c, request[w].todo, s, k) /\ Behind(c, s, k)
        BY <2>1 DEF AnchoredIn
      <3> QED BY <2>1, <3>1, <1>2
    <2>2. ASSUME NEW s \in Specs, Writing(c, request'[w].todo, s, 0)
          PROVE  \E t \in Specs, k \in Nat : Writing(c, request'[w].todo, t, k) /\ Behind(c, t, k)'
      <3>1. Behind(c, s, 0)'
        BY DEF Behind
      <3> QED BY <2>2, <3>1, 0 \in Nat
    <2> QED BY <2>1, <2>2
  <1> QED BY <1>1, <1>3 DEF AnchoredIn

StoreOk == StoreTypes_ /\ ShapesOk /\ FateOk /\ ApartOk /\ Anchored /\ AllSeenTo

LEMMA AnchoredStays ==
    ASSUME WellShaped, StoreOk, NEW w \in Workers, StoreStep(w)
    PROVE  Anchored'
  <1> USE DEF StoreOk
  <1>1. SUFFICES ASSUME Reliable', NEW c \in Contracts, fate'[c] = "written"
                 PROVE  AnchoredIn(c)'
    BY DEF Anchored
  <1>2. CASE Calls(w)
    <2>1. Reliable /\ ~IsLost(w) /\ fate' = fate
      BY <1>1, <1>2, StaysReliable, CallCases
    <2>2. AnchoredIn(c) /\ Deleters(c) = {} /\ fate[c] # "apart"
      BY <1>1, <2>1 DEF Anchored, FateOk
    <2> QED BY <1>2, <2>1, <2>2, AnchoredCall
  <1>3. ASSUME NEW b, NEW op, NEW calls, Starts(w, op, b, calls),
               b # c \/ op \notin {"create", "update"}, fate'[c] = fate[c]
        PROVE  AnchoredIn(c)'
    <2>1. /\ Same(c) /\ Reliable' = Reliable /\ Writers(c)' = Writers(c)
          /\ \A v \in Writers(c) : request'[v] = request[v]
      BY <1>3, SameStart
    <2>2. AnchoredIn(c)
      BY <1>1, <1>3, <2>1 DEF Anchored
    <2> QED BY <2>1, <2>2, AnchoredSame
  <1>4. ASSUME NEW s \in Specs, NEW op \in {"create", "update"}, NEW calls \in Seq(CallSet),
               StartsWrite(w, s, op, calls)
        PROVE  AnchoredIn(c)'
    <2>1. Starts(w, op, s.contract, calls) /\ s.contract \in Contracts
      BY <1>4, EntryFacts DEF StartsWrite
    <2>2. /\ \A b \in Contracts \ {s.contract} : fate'[b] = fate[b]
          /\ fate'[s.contract] = "written" => fate[s.contract] # "apart" /\
                \A v \in Workers : request[v].contract = s.contract => request[v].op # "delete"
          /\ fate'[s.contract] = "written" /\ fate[s.contract] = "deleted"
                => ClausesAre(s.contract, "dict")
      BY <1>4, <2>1, FateTypes DEF StartsWrite
    <2>3. CASE s.contract # c
      BY <1>3, <2>1, <2>2, <2>3
    <2>4. CASE s.contract = c
      <3>1. /\ Same(c) /\ Reliable' = Reliable
            /\ Writers(c)' \subseteq Writers(c) \cup {w}
            /\ \A v \in Writers(c) : v # w /\ request'[v] = request[v]
        BY <2>1, SameStart
      <3>2. request'[w].todo = calls /\ Writing(c, calls, s, 0)
        BY <1>4, <2>1, <2>4 DEF StartsWrite, Starts
      <3>3. AnchoredIn(c)
        <4>1. Deleters(c) = {} /\ fate[c] \in {"new", "written", "deleted"}
          BY <1>1, <2>2, <2>4 DEF Deleters, StoreTypes_
        <4>2. CASE fate[c] = "written"
          BY <1>1, <3>1, <4>2 DEF Anchored
        <4>3. CASE fate[c] = "new"
          BY <4>3, SubIsCollection DEF FateOk, AnchoredIn
        <4>4. CASE fate[c] = "deleted"
          <5>1. ClausesAre(c, "dict") /\ Writers(c) = {}
            BY <1>1, <2>2, <2>4, <4>4 DEF FateOk
          <5>2. SeenToIn(c)
            BY <1>1, <3>1, <4>4, <5>1 DEF AllSeenTo
          <5>3. \A x \in Kinds : FamilyOf(c)[x] = {}
            BY <4>1, <5>2 DEF SeenToIn, SeenTo
          <5> QED BY <5>1, <5>3 DEF AnchoredIn
        <4> QED BY <4>1, <4>2, <4>3, <4>4
      <3>4. \A v \in Writers(c)' : \/ v \in Writers(c) /\ request'[v] = request[v]
                                   \/ \E t \in Specs : Writing(c, request'[v].todo, t, 0)
        BY <3>1, <3>2
      <3> QED BY <3>1, <3>3, <3>4, AnchoredSame
    <2> QED BY <2>3, <2>4
  <1>5. ASSUME NEW b \in Contracts, StartsDelete(w, b) PROVE AnchoredIn(c)'
    <2>1. Starts(w, "delete", b, DeletePlan(b))
      BY <1>5 DEF StartsDelete
    <2>2. (\A a \in Contracts \ {b} : fate'[a] = fate[a]) /\ fate'[b] \in {"deleted", "apart"}
      BY <1>5, FateTypes DEF StartsDelete
    <2> QED BY <1>1, <1>3, <2>1, <2>2
  <1>6. ASSUME NEW calls \in Seq(CallSet), StartsRemove(w, calls) PROVE AnchoredIn(c)'
    <2>1. Starts(w, "remove", "none", calls) /\ fate'[c] = fate[c]
      BY <1>1, <1>6 DEF StartsRemove
    <2> QED BY <1>3, <2>1
  <1> QED BY <1>2, <1>4, <1>5, <1>6, StartCases

LEMMA SeenStays ==
    ASSUME WellShaped, StoreOk, NEW w \in Workers, StoreStep(w)
    PROVE  AllSeenTo'
  <1> USE DEF StoreOk
  <1>1. SUFFICES ASSUME Reliable', NEW c \in Contracts, ClausesAre(c, "dict"), fate'[c] = "deleted"
                 PROVE  SeenToIn(c)'
    BY DEF AllSeenTo, ClausesAre
  <1>2. CASE Calls(w)
    <2>1. Reliable /\ ~IsLost(w) /\ fate' = fate /\ StoreTypes_'
      BY <1>1, <1>2, StaysReliable, CallCases, StoreStepTypes
    <2>2. SeenToIn(c) /\ Writers(c) = {}
      BY <1>1, <2>1 DEF AllSeenTo, FateOk
    <2> QED BY <1>1, <1>2, <2>1, <2>2, SeenCall
  <1>3. ASSUME NEW b, NEW op, NEW calls, Starts(w, op, b, calls),
               b # c \/ op # "delete", fate'[c] = fate[c]
        PROVE  SeenToIn(c)'
    <2>1. /\ Same(c) /\ Reliable' = Reliable /\ Deleters(c)' = Deleters(c)
          /\ \A v \in Deleters(c) : request'[v] = request[v]
      BY <1>3, SameStart
    <2>2. SeenToIn(c)
      BY <1>1, <1>3, <2>1 DEF AllSeenTo
    <2> QED BY <2>1, <2>2, SeenSame
  <1>4. ASSUME NEW s \in Specs, NEW op \in {"create", "update"}, NEW calls \in Seq(CallSet),
               StartsWrite(w, s, op, calls)
        PROVE  SeenToIn(c)'
    <2>1. Starts(w, op, s.contract, calls) /\ s.contract \in Contracts
      BY <1>4, EntryFacts DEF StartsWrite
    <2>2. (\A b \in Contracts \ {s.contract} : fate'[b] = fate[b]) /\ fate'[s.contract] \in {"written", "apart"}
      BY <1>4, <2>1, FateTypes DEF StartsWrite
    <2> QED BY <1>1, <1>3, <2>1, <2>2
  <1>5. ASSUME NEW b \in Contracts, StartsDelete(w, b) PROVE SeenToIn(c)'
    <2>1. Starts(w, "delete", b, DeletePlan(b))
      BY <1>5 DEF StartsDelete
    <2>2. /\ \A a \in Contracts \ {b} : fate'[a] = fate[a]
          /\ fate'[b] = "deleted" => fate[b] # "apart" /\
                \A v \in Workers : request[v].contract = b => request[v].op \notin {"create", "update"}
      BY <1>5, FateTypes DEF StartsDelete
    <2>3. CASE b # c
      BY <1>3, <2>1, <2>2, <2>3
    <2>4. CASE b = c
      <3>1. /\ Same(c) /\ Reliable /\ Deleters(c) \subseteq Deleters(c)'
            /\ Deleters(c)' \subseteq Deleters(c) \cup {w}
            /\ \A v \in Deleters(c) : v # w /\ request'[v] = request[v]
        BY <1>1, <2>1, SameStart
      <3>2. /\ request'[w].todo = DeletePlan(c) /\ w \in Deleters(c)'
        BY <2>1, <2>4 DEF Starts, Deleters
      <3>3. fate[c] \in {"new", "written", "deleted"}
        BY <1>1, <2>2, <2>4 DEF StoreTypes_
      <3>4. Gathered(request[w])'
        BY <3>2, PlanDeletes DEF Gathered
      <3>5. CASE fate[c] = "new"
        <4>1. Deleters(c) = {} /\ \A x \in Collections : FamilyOf(c)[x] = {}
          BY <3>5 DEF FateOk
        <4>2. \A x \in Kinds \cup {"sub_contracts"} : FamilyOf(c)[x]' = {}
          BY <3>1, <4>1, SubIsCollection DEF Same
        <4>3. Deleters(c)' \subseteq {w}
          BY <3>1, <4>1
        <4> QED BY <3>4, <4>2, <4>3 DEF SeenToIn
      <3>6. CASE fate[c] = "written"
        <4>1. AnchoredIn(c) /\ Deleters(c) = {}
          BY <1>1, <3>1, <3>6 DEF Anchored, FateOk
        <4>2. ASSUME NEW x \in Kinds \cup {"sub_contracts"}, NEW d \in FamilyOf(c)[x]'
              PROVE  SeenTo(c, x, d)'
          <5>1. d \in FamilyOf(c)[x]
            BY <3>1, SubIsCollection DEF Same
          <5>2. x \in Kinds => Anchors(c, d.of)' # {}
            BY <3>1, <4>1, <5>1 DEF AnchoredIn, Same
          <5>3. WillFind(c, request[w], x, d)'
            BY <3>2, <5>2, PlanDeletes DEF WillFind
          <5> QED BY <3>2, <5>3 DEF SeenTo
        <4>3. Deleters(c)' \subseteq {w}
          BY <3>1, <4>1
        <4> QED BY <3>4, <4>2, <4>3 DEF SeenToIn
      <3>7. CASE fate[c] = "deleted"
        <4>1. SeenToIn(c)
          BY <1>1, <3>1, <3>7 DEF AllSeenTo
        <4>2. ASSUME NEW x \in Kinds \cup {"sub_contracts"}, NEW d \in FamilyOf(c)[x]'
              PROVE  SeenTo(c, x, d)'
          <5>1. d \in FamilyOf(c)[x] /\ Stock(x, d.id)' = Stock(x, d.id) /\ Anchors(c, d.of)' = Anchors(c, d.of)
            BY <3>1, SubIsCollection DEF Same
          <5>2. PICK v \in Deleters(c) : WillFind(c, request[v], x, d) \/ Covers(request[v], x, d.id)
            BY <4>1, <5>1 DEF SeenToIn, SeenTo
          <5>3. v \in Deleters(c)' /\ request'[v] = request[v]
            BY <3>1
          <5>4. WillFind(c, request[v], x, d) => WillFind(c, request[v], x, d)'
            BY <5>1, <5>3 DEF WillFind
          <5>5. Covers(request[v], x, d.id) => Covers(request[v], x, d.id)'
            BY <5>1, <5>3 DEF Covers
          <5> QED BY <5>2, <5>3, <5>4, <5>5 DEF SeenTo
        <4>3. docs' = docs
          BY <2>1 DEF Starts
        <4>4. \A v \in Deleters(c) : Gathered(request[v])'
          BY <3>1, <4>1, <4>3 DEF Gathered, SeenToIn, WithId, Held
        <4> QED BY <3>1, <3>4, <4>2, <4>4 DEF SeenToIn
      <3> QED BY <3>3, <3>5, <3>6, <3>7
    <2> QED BY <2>3, <2>4
  <1>6. ASSUME NEW calls \in Seq(CallSet), StartsRemove(w, calls) PROVE SeenToIn(c)'
    <2>1. Starts(w, "remove", "none", calls) /\ fate'[c] = fate[c]
      BY <1>1, <1>6 DEF StartsRemove
    <2> QED BY <1>3, <2>1
  <1> QED BY <1>2, <1>4, <1>5, <1>6, StartCases

LEMMA StoreOkStays == WellShaped /\ StoreOk /\ [StoreNext]_storeVars => StoreOk'
  <1> SUFFICES ASSUME WellShaped, StoreOk, [StoreNext]_storeVars PROVE StoreOk'
    OBVIOUS
  <1>1. CASE StoreNext
    <2>1. PICK w \in Workers : StoreStep(w)
      BY <1>1 DEF StoreNext
    <2> QED BY <2>1, StoreStepTypes, ShapesStay, FateStays, ApartStays, AnchoredStays, SeenStays
            DEF StoreOk
  <1>2. CASE UNCHANGED storeVars
    <2>1. StoreTypes_'
      BY StoreTypesStay DEF StoreOk
    <2>2. ShapesOk'
      BY <1>2 DEF storeVars, StoreOk, ShapesOk
    <2>3. FateOk'
      BY <1>2 DEF storeVars, StoreOk, FateOk, Deleters, Writers, FamilyOf, Held
    <2>4. docs' = docs /\ request' = request /\ errors' = errors /\ fate' = fate
      BY <1>2 DEF storeVars
    <2>5. ASSUME NEW c PROVE /\ Same(c) /\ Reliable' = Reliable
                             /\ Deleters(c)' = Deleters(c) /\ Writers(c)' = Writers(c)
      BY <2>4, SameDocs DEF Reliable, Deleters, Writers
    <2>6. Anchored'
      <3> SUFFICES ASSUME Reliable', NEW c \in Contracts, fate'[c] = "written"
                   PROVE  AnchoredIn(c)'
        BY DEF Anchored
      <3>1. AnchoredIn(c)
        BY <2>4, <2>5 DEF StoreOk, Anchored
      <3>2. \A w \in Writers(c)' : w \in Writers(c) /\ request'[w] = request[w]
        BY <2>4, <2>5
      <3> QED BY <2>5, <3>1, <3>2, AnchoredSame
    <2>7. AllSeenTo'
      <3> SUFFICES ASSUME Reliable', NEW c \in Contracts, ClausesAre(c, "dict"), fate'[c] = "deleted"
                   PROVE  SeenToIn(c)'
        BY DEF AllSeenTo, ClausesAre
      <3>1. SeenToIn(c)
        BY <2>4, <2>5 DEF StoreOk, AllSeenTo
      <3> QED BY <2>4, <2>5, <3>1, SeenSame DEF StoreOk
    <2>8. ApartOk'
      BY <2>4 DEF StoreOk, ApartOk
    <2> QED BY <2>1, <2>2, <2>3, <2>6, <2>7, <2>8 DEF StoreOk
  <1> QED BY <1>1, <1>2

(* Deletions of a contract, any number of them at the same time, leave     *)
(* nothing of it between them when the last is answered                    *)
(* (ContractManager.delete): provided that the specifications keep to one  *)
(* shape and clause data are dictionaries, no call failed, no write        *)
(* overlapped and no sub-contract of it was removed alone.                 *)
THEOREM DeletionsAreWhole ==
    ASSUME WellShaped
    PROVE  StoreSpec => []DeletedIsGone
  <1>1. StoreInit => StoreOk
    BY StoreStarts, AnchoredInit DEF StoreOk
  <1>2. StoreOk /\ [StoreNext]_storeVars => StoreOk'
    BY StoreOkStays
  <1>3. StoreOk => DeletedIsGone
    <2> SUFFICES ASSUME StoreOk, NEW c \in Contracts, ClausesAre(c, "dict"), errors = 0,
                        fate[c] = "deleted", \A w \in Workers : request[w].contract # c,
                        NEW x \in Collections \ {"contracts"}
                 PROVE  FamilyOf(c)[x] = {}
      BY DEF DeletedIsGone
    <2>1. Deleters(c) = {} /\ SeenToIn(c)
      BY DEF StoreOk, AllSeenTo, Reliable, Deleters
    <2>2. x \in Kinds \cup {"sub_contracts"}
      BY DEF Collections
    <2> QED BY <2>1, <2>2 DEF SeenToIn, SeenTo
  <1> QED BY <1>1, <1>2, <1>3, PTL DEF StoreSpec

-----------------------------------------------------------------------------
(* Reports.  What a report shows, and the clauses by which it finds more,  *)
(* are of its contract (ReportOwn); and a document of the contract that    *)
(* has been there since it began is either shown or, as its clause has a   *)
(* sub-contract to it all the time, still to be found (ReportFinds).       *)
ReadBy == [contracts |-> {}, sub_contracts |-> {"contracts"},
           actions |-> {"contracts", "sub_contracts"},
           verification_entries |-> {"contracts", "sub_contracts", "actions"},
           constraints |-> {"contracts", "sub_contracts", "actions", "verification_entries"},
           told |-> Collections]
Telling == report.at \in Collections \cup {"told"}
ReportTypes ==
    /\ DOMAIN report = {"at", "of", "clauses", "shown", "failed", "kept"}
    /\ report.at \in Collections \cup {"none", "told", "refused"}
    /\ Telling => report.of \in Contracts
    /\ DOMAIN report.shown = Collections /\ DOMAIN report.kept = Collections
    /\ report.failed \in BOOLEAN
OfContract(c, k) ==
    \E e \in Entries_ : /\ e.coll = "sub_contracts" /\ InSpecsOf(c, "sub_contracts", e.doc.id)
                        /\ k \in e.doc.clause.ids
ReportOwn ==
    Telling =>
        /\ \A x \in Collections : \A d \in report.shown[x] : InSpecsOf(report.of, x, d.id)
        /\ \A k \in report.clauses : OfContract(report.of, k)
        /\ \A x \in Collections : \A id \in report.kept[x] :
              InSpecsOf(report.of, x, id) /\ id \in Ids(x)
Shown(x) == {d.id : d \in report.shown[x]}
Careful ==
    /\ ~report.failed /\ errors = 0
    /\ ClausesAre(report.of, "list") /\ fate[report.of] = "written"
ToFind(x, id) ==
    \A e \in Entries_ : e.coll = x /\ e.doc.id = id => e.doc.of \in report.clauses
ReportFinds ==
    Telling =>
        /\ ~report.failed => \A x \in ReadBy[report.at] \ Kinds : report.kept[x] \subseteq Shown(x)
        /\ Careful => \A x \in Kinds : \A id \in report.kept[x] :
              /\ "sub_contracts" \in ReadBy[report.at] => ToFind(x, id)
              /\ x \in ReadBy[report.at] => id \in Shown(x)
ReportInv == ReportTypes /\ ReportOwn /\ ReportFinds

LEMMA ReadByFacts ==
    /\ Collections = {"contracts", "sub_contracts"} \cup Kinds
    /\ Kinds = {"actions", "verification_entries", "constraints"}
    /\ \A x \in Collections : /\ After[x] \in (Collections \ {"contracts"}) \cup {"told"}
                              /\ ReadBy[After[x]] = ReadBy[x] \cup {x}
    /\ \A x \in Collections \cup {"told"} : ReadBy[x] \subseteq Collections
    /\ \A x \in Kinds : "sub_contracts" \in ReadBy[x]
    /\ ReadBy["contracts"] = {} /\ "sub_contracts" \notin ReadBy["sub_contracts"]
    /\ ReadBy["told"] = Collections
  BY DEF Collections, Kinds, After, ReadBy

(* The entries from which a document of the store is drawn.                *)
LEMMA HeldHome ==
    ASSUME WellShaped, HeldOk, NEW x \in Collections, NEW d \in Held(x)
    PROVE  /\ \E s \in Specs : /\ InSpecsOf(s.contract, x, d.id)
                               /\ \E i \in DOMAIN s.docs : /\ s.docs[i].coll = x
                                                           /\ s.docs[i].doc.of = d.of
           /\ \E e \in Entries_ : e.coll = x /\ e.doc.id = d.id /\ e.doc.clause = d.clause
           /\ \A e \in Entries_ : e.coll = x /\ e.doc.id = d.id => e.doc.of = d.of
  <1>1. Drawn(x, d)
    BY HeldFacts
  <1>2. PICK e \in Entries_ : From(x, d, e) /\ e.doc.of = d.of
    BY <1>1 DEF Drawn
  <1>3. PICK s \in Specs : \E i \in DOMAIN s.docs : e = s.docs[i]
    BY EntryFacts
  <1>4. PICK i \in DOMAIN s.docs : e = s.docs[i]
    BY <1>3
  <1>5. InSpecsOf(s.contract, x, d.id) /\ s.docs[i].coll = x /\ s.docs[i].doc.of = d.of
    BY <1>2, <1>4 DEF InSpecsOf, From
  <1>6. \E f \in Entries_ : f.coll = x /\ f.doc.id = d.id /\ f.doc.clause = d.clause
    BY <1>1 DEF Drawn, From
  <1>7. \A f \in Entries_ : f.coll = x /\ f.doc.id = d.id => f.doc.of = d.of
    BY <1>2, EntriesAgree DEF From
  <1> QED BY <1>5, <1>6, <1>7

(* A document with the id of a contract is the contract's own.             *)
LEMMA ContractHome ==
    ASSUME WellShaped, HeldOk
    PROVE  /\ \A c, id : InSpecsOf(c, "contracts", id) => id = c
           /\ \A d \in Held("contracts") : InSpecsOf(d.id, "contracts", d.id)
  <1>1. \A c, id : InSpecsOf(c, "contracts", id) => id = c
    BY DEF InSpecsOf, WellShaped, SpecsNest
  <1>2. ASSUME NEW d \in Held("contracts") PROVE InSpecsOf(d.id, "contracts", d.id)
    <2>1. PICK s \in Specs : InSpecsOf(s.contract, "contracts", d.id)
      BY HeldHome, ReadByFacts
    <2> QED BY <1>1, <2>1
  <1> QED BY <1>1, <1>2

(* What a clause of a contract has in the store is of that contract.       *)
LEMMA ClauseHome ==
    ASSUME WellShaped, HeldOk, NEW c, NEW x \in Kinds, NEW d \in Held(x), OfContract(c, d.of)
    PROVE  InSpecsOf(c, x, d.id)
  <1>1. PICK e \in Entries_ : /\ e.coll = "sub_contracts" /\ InSpecsOf(c, "sub_contracts", e.doc.id)
                              /\ d.of \in e.doc.clause.ids
    BY DEF OfContract
  <1>2. PICK t \in Specs : \E j \in DOMAIN t.docs : e = t.docs[j]
    BY EntryFacts
  <1>3. PICK j \in DOMAIN t.docs : e = t.docs[j]
    BY <1>2
  <1>4. t.contract = c
    BY <1>1, <1>3, OneHome DEF InSpecsOf
  <1>5. PICK s \in Specs : /\ InSpecsOf(s.contract, x, d.id)
                           /\ \E i \in DOMAIN s.docs : s.docs[i].coll = x /\ s.docs[i].doc.of = d.of
    BY HeldHome, SubIsCollection
  <1>6. PICK i \in DOMAIN s.docs : s.docs[i].coll = x /\ s.docs[i].doc.of = d.of
    BY <1>5
  <1>7. s.contract = t.contract
    BY <1>1, <1>3, <1>6 DEF WellShaped, SpecsAgree
  <1> QED BY <1>4, <1>5, <1>7

(* A sub-contract that has documents of a clause has clause data, and they *)
(* are not both lists and dictionaries.                                    *)
LEMMA NotBoth ==
    ASSUME WellShaped, NEW c, NEW x \in Kinds, NEW id, InSpecsOf(c, x, id), ClausesAre(c, "list")
    PROVE  ~ClausesAre(c, "dict")
  <1>1. PICK s \in Specs : /\ s.contract = c
                           /\ \E i \in DOMAIN s.docs : s.docs[i].coll = x
    BY DEF InSpecsOf
  <1>2. PICK i \in DOMAIN s.docs : s.docs[i].coll = x
    BY <1>1
  <1>3. PICK j \in 1..(i - 1) :
            s.docs[j].coll = "sub_contracts" /\ s.docs[j].doc.clause.form # "none"
    BY <1>2 DEF WellShaped, SpecsNest
  <1>4. j \in DOMAIN s.docs
    BY EntryFacts
  <1> QED BY <1>1, <1>3, <1>4 DEF ClausesAre

(* The store, before a step after which a report may still be complete.    *)
LEMMA CarefulBefore ==
    ASSUME WellShaped, StoreOk, NEW w \in Workers, StoreStep(w), NEW c \in Contracts,
           NEW x \in Kinds, NEW id \in Ids(x), InSpecsOf(c, x, id), ClausesAre(c, "list"),
           errors' = 0, fate'[c] = "written"
    PROVE  errors = 0 /\ fate[c] = "written"
  <1> USE DEF StoreOk
  <1>1. errors \in Nat /\ fate[c] \in {"new", "written", "deleted", "apart"}
    BY DEF StoreTypes_
  <1>2. ~ClausesAre(c, "dict")
    BY NotBoth
  <1>3. fate[c] # "new"
    <2>1. PICK d \in Held(x) : d.id = id
      BY DEF Ids
    <2>2. d \in FamilyOf(c)[x]
      BY <2>1, FamilyMembers, SubIsCollection
    <2> QED BY <2>2, SubIsCollection DEF FateOk
  <1>4. CASE Calls(w)
    BY <1>1, <1>4, CallCases
  <1>5. ASSUME NEW s \in Specs, NEW op \in {"create", "update"}, NEW calls \in Seq(CallSet),
               StartsWrite(w, s, op, calls)
        PROVE  errors = 0 /\ fate[c] = "written"
    <2>1. Starts(w, op, s.contract, calls) /\ s.contract \in Contracts /\ errors = 0
      BY <1>5, EntryFacts DEF StartsWrite, Starts
    <2>2. \/ fate'[c] = fate[c]
          \/ fate[c] # "apart" /\ (fate[c] = "deleted" => ClausesAre(c, "dict"))
      BY <1>5, <2>1, FateTypes DEF StartsWrite
    <2> QED BY <1>1, <1>2, <1>3, <2>1, <2>2
  <1>6. ASSUME NEW b \in Contracts, StartsDelete(w, b) PROVE errors = 0 /\ fate[c] = "written"
    <2>1. errors = 0 /\ (\A a \in Contracts \ {b} : fate'[a] = fate[a])
          /\ fate'[b] \in {"deleted", "apart"}
      BY <1>6, FateTypes DEF StartsDelete, Starts
    <2> QED BY <2>1
  <1>7. ASSUME NEW calls \in Seq(CallSet), StartsRemove(w, calls)
        PROVE  errors = 0 /\ fate[c] = "written"
    BY <1>7 DEF StartsRemove, Starts
  <1> QED BY <1>4, <1>5, <1>6, <1>7, StartCases

(* The requests of the store go on between the reads of a report.          *)
LEMMA ReportWaits ==
    ASSUME WellShaped, StoreOk, ReportInv, NEW w \in Workers, StoreStep(w),
           report' = [report EXCEPT !.kept = [x \in Collections |-> @[x] \cap Ids(x)']]
    PROVE  ReportInv'
  <1> USE DEF ReportInv
  <1>1. /\ report'.at = report.at /\ report'.of = report.of /\ report'.clauses = report.clauses
        /\ report'.shown = report.shown /\ report'.failed = report.failed
        /\ DOMAIN report' = DOMAIN report /\ DOMAIN report'.kept = Collections
        /\ \A x \in Collections : report'.kept[x] = report.kept[x] \cap Ids(x)'
    BY DEF ReportTypes
  <1>2. Telling' = Telling /\ \A x : Shown(x)' = Shown(x)
    BY <1>1 DEF Telling, Shown
  <1>3. ReportTypes'
    BY <1>1, <1>2 DEF ReportTypes
  <1>4. ReportOwn'
    BY <1>1, <1>2 DEF ReportOwn, OfContract
  <1>5. ASSUME Telling', Careful', NEW x \in Kinds, NEW id \in report'.kept[x]
        PROVE  /\ "sub_contracts" \in ReadBy[report.at] => ToFind(x, id)
               /\ x \in ReadBy[report.at] => id \in Shown(x)
    <2>1. x \in Collections /\ id \in report.kept[x]
      BY <1>1, <1>5, SubIsCollection
    <2>2. InSpecsOf(report.of, x, id) /\ id \in Ids(x) /\ report.of \in Contracts
      BY <1>2, <1>5, <2>1 DEF ReportOwn, ReportTypes
    <2>3. ~report.failed /\ ClausesAre(report.of, "list") /\ errors' = 0 /\ fate'[report.of] = "written"
      BY <1>1, <1>5 DEF Careful, ClausesAre
    <2>4. Careful
      BY <2>2, <2>3, CarefulBefore DEF Careful
    <2> QED BY <1>2, <1>5, <2>1, <2>4 DEF ReportFinds
  <1>6. \A x, id : ToFind(x, id)' = ToFind(x, id)
    BY <1>1 DEF ToFind
  <1>7. ReportFinds'
    <2>1. ASSUME Telling', ~report'.failed, NEW x \in ReadBy[report'.at] \ Kinds
          PROVE  report'.kept[x] \subseteq Shown(x)'
      <3>1. x \in ReadBy[report.at] \ Kinds /\ Telling /\ ~report.failed
        BY <1>1, <1>2, <2>1
      <3>2. x \in Collections
        BY <3>1, ReadByFacts DEF Telling
      <3> QED BY <1>1, <1>2, <3>1, <3>2 DEF ReportFinds
    <2>2. ASSUME Telling', Careful', NEW x \in Kinds, NEW id \in report'.kept[x]
          PROVE  /\ "sub_contracts" \in ReadBy[report'.at] => ToFind(x, id)'
                 /\ x \in ReadBy[report'.at] => id \in Shown(x)'
      BY <1>1, <1>2, <1>5, <1>6, <2>2
    <2> QED BY <2>1, <2>2 DEF ReportFinds
  <1> QED BY <1>3, <1>4, <1>7

(* A read shows what belongs to the contract, and all that is still to be  *)
(* found in its collection.                                                *)
LEMMA ReportReads ==
    ASSUME WellShaped, StoreOk, ReportInv, UNCHANGED storeVars, NEW x \in Collections,
           report.at = x, NEW found, NEW clauses, Shows(found, clauses),
           \A d \in found : InSpecsOf(report.of, x, d.id),
           \A k \in clauses : OfContract(report.of, k),
           x \in Kinds => clauses = report.clauses,
           x \notin Kinds => report.kept[x] \subseteq {d.id : d \in found},
           x = "sub_contracts" /\ Careful => \A y \in Kinds : \A id \in report.kept[y] :
               \A e \in Entries_ : e.coll = y /\ e.doc.id = id => e.doc.of \in clauses,
           x \in Kinds => \A id \in report.kept[x] : ToFind(x, id) => id \in {d.id : d \in found}
    PROVE  ReportInv'
  <1> USE DEF ReportInv
  <1>1. /\ report'.at = After[x] /\ report'.of = report.of /\ report'.clauses = clauses
        /\ report'.failed = report.failed /\ report'.kept = report.kept
        /\ DOMAIN report' = DOMAIN report /\ DOMAIN report'.shown = DOMAIN report.shown
        /\ report'.shown[x] = found
        /\ \A y \in Collections \ {x} : report'.shown[y] = report.shown[y]
    BY DEF ReportTypes, Shows
  <1>2. Telling /\ Telling' /\ report.of \in Contracts
    BY <1>1, ReadByFacts DEF Telling, ReportTypes
  <1>3. \A y : Ids(y)' = Ids(y)
    BY DEF storeVars, Ids, Held
  <1>4. /\ Shown(x)' = {d.id : d \in found}
        /\ \A y \in Collections \ {x} : Shown(y)' = Shown(y)
    BY <1>1 DEF Shown
  <1>5. ReportTypes'
    BY <1>1, <1>2, ReadByFacts DEF ReportTypes
  <1>6. ReportOwn'
    <2>1. ASSUME NEW y \in Collections, NEW d \in report'.shown[y] PROVE InSpecsOf(report.of, y, d.id)
      BY <1>1, <1>2, <2>1 DEF ReportOwn
    <2>2. \A y \in Collections : \A id \in report'.kept[y] :
              InSpecsOf(report.of, y, id) /\ id \in Ids(y)'
      BY <1>1, <1>2, <1>3 DEF ReportOwn
    <2> QED BY <1>1, <2>1, <2>2 DEF ReportOwn, OfContract
  <1>7. Careful' => Careful
    BY <1>1 DEF Careful, ClausesAre, storeVars
  <1>8. ReadBy[report'.at] = ReadBy[x] \cup {x} /\ ReadBy[x] \subseteq Collections
    BY <1>1, ReadByFacts
  <1>9. ASSUME ~report'.failed, NEW y \in ReadBy[report'.at] \ Kinds
        PROVE  report'.kept[y] \subseteq Shown(y)'
    <2>1. CASE y = x
      BY <1>1, <1>4, <1>9, <2>1
    <2>2. CASE y # x
      <3>1. y \in ReadBy[report.at] \ Kinds /\ y \in Collections \ {x}
        BY <1>8, <1>9, <2>2
      <3> QED BY <1>1, <1>2, <1>4, <1>9, <3>1 DEF ReportFinds
    <2> QED BY <2>1, <2>2
  <1>10. ASSUME Careful', NEW y \in Kinds, NEW id \in report'.kept[y]
         PROVE  /\ "sub_contracts" \in ReadBy[report'.at] => ToFind(y, id)'
                /\ y \in ReadBy[report'.at] => id \in Shown(y)'
    <2>1. Careful /\ id \in report.kept[y] /\ y \in Collections
      BY <1>1, <1>7, <1>10, SubIsCollection
    <2>2. /\ "sub_contracts" \in ReadBy[x] => ToFind(y, id)
          /\ y \in ReadBy[x] => id \in Shown(y)
      BY <1>2, <2>1 DEF ReportFinds
    <2>3. ASSUME "sub_contracts" \in ReadBy[report'.at] PROVE ToFind(y, id)'
      <3>1. CASE x = "sub_contracts"
        BY <1>1, <2>1, <3>1 DEF ToFind
      <3>2. CASE x \in Kinds
        BY <1>1, <2>2, <3>2, ReadByFacts DEF ToFind
      <3>3. x # "contracts"
        BY <1>8, <2>3, ReadByFacts
      <3> QED BY <3>1, <3>2, <3>3, ReadByFacts
    <2>4. ASSUME y \in ReadBy[report'.at] PROVE id \in Shown(y)'
      <3>1. CASE y = x
        BY <1>4, <2>1, <2>2, <3>1, ReadByFacts
      <3>2. CASE y # x
        BY <1>4, <1>8, <2>1, <2>2, <2>4, <3>2
      <3> QED BY <3>1, <3>2
    <2> QED BY <2>3, <2>4
  <1>11. ReportFinds'
    BY <1>9, <1>10 DEF ReportFinds
  <1> QED BY <1>5, <1>6, <1>11

LEMMA ReportSteps ==
    ASSUME WellShaped, StoreOk, ReportInv, ReportStep, UNCHANGED storeVars
    PROVE  ReportInv'
  <1> DEFINE c == report.of
  <1> USE DEF StoreOk
  <1>0. HeldOk
    BY DEF StoreTypes_
  <1>1. ASSUME NEW b \in Contracts, Ask(b) PROVE ReportInv'
    <2>1. /\ report'.at = "contracts" /\ report'.of = b /\ report'.clauses = {}
          /\ report'.shown = Nothing /\ report'.failed = FALSE
          /\ DOMAIN report' = {"at", "of", "clauses", "shown", "failed", "kept"}
          /\ report'.kept = [x \in Collections |-> {d.id : d \in FamilyOf(b)[x]}]
      BY <1>1 DEF Ask, NoReport
    <2>2. "contracts" \in Collections /\ Telling' /\ docs' = docs
      BY <2>1, ReadByFacts DEF Telling, storeVars
    <2>3. ReportTypes'
      BY <1>1, <2>1, <2>2 DEF ReportTypes, Nothing
    <2>4. ASSUME NEW x \in Collections, NEW id \in report'.kept[x]
          PROVE  InSpecsOf(b, x, id) /\ id \in Ids(x)'
      <3>1. PICK d \in FamilyOf(b)[x] : d.id = id
        BY <2>1, <2>4
      <3> QED BY <2>2, <3>1, FamilyMembers DEF Ids, Held
    <2>5. ReportOwn'
      BY <2>1, <2>4 DEF ReportOwn, Nothing
    <2>6. ReportFinds'
      BY <2>1, ReadByFacts DEF ReportFinds
    <2> QED BY <2>3, <2>5, <2>6 DEF ReportInv
  <1>2. ASSUME report' = [report EXCEPT !.at = "refused"] PROVE ReportInv'
    <2>1. /\ report'.at = "refused" /\ DOMAIN report' = DOMAIN report
          /\ report'.shown = report.shown /\ report'.kept = report.kept
          /\ report'.failed = report.failed
      BY <1>2 DEF ReportInv, ReportTypes
    <2>2. ~Telling'
      BY <2>1, ReadByFacts DEF Telling
    <2> QED BY <2>1, <2>2 DEF ReportInv, ReportTypes, ReportOwn, ReportFinds
  <1>3. ASSUME report.at \in Collections \ {"contracts"},
               report' = [report EXCEPT !.at = After[@], !.failed = TRUE]
        PROVE  ReportInv'
    <2>1. /\ report'.at = After[report.at] /\ report'.of = c /\ report'.clauses = report.clauses
          /\ DOMAIN report' = DOMAIN report /\ report'.failed
          /\ report'.shown = report.shown /\ report'.kept = report.kept
      BY <1>3 DEF ReportInv, ReportTypes
    <2>2. Telling /\ Telling' /\ docs' = docs
      BY <1>3, <2>1, ReadByFacts DEF Telling, storeVars
    <2>3. ReportTypes'
      BY <1>3, <2>1, <2>2, ReadByFacts DEF ReportInv, ReportTypes
    <2>4. ReportOwn'
      BY <2>1, <2>2 DEF ReportInv, ReportOwn, OfContract, Ids, Held
    <2>5. ReportFinds'
      BY <2>1 DEF ReportFinds, Careful
    <2> QED BY <2>3, <2>4, <2>5 DEF ReportInv
  <1>4. ASSUME report.at \in Collections
        PROVE  /\ Telling /\ c \in Contracts
               /\ \A x \in Collections : \A id \in report.kept[x] :
                     InSpecsOf(c, x, id) /\ \E d \in Held(x) : d.id = id
    BY <1>4 DEF ReportInv, ReportTypes, ReportOwn, Telling, Ids
  <1>5. ASSUME report.at = "contracts", NEW d \in WithId("contracts", c), Shows({d}, {})
        PROVE  ReportInv'
    <2>1. "contracts" \in Collections /\ "contracts" \notin Kinds
      BY ReadByFacts
    <2>2. d \in Held("contracts") /\ d.id = c
      BY DEF WithId
    <2>3. InSpecsOf(c, "contracts", c)
      BY <1>0, <2>2, ContractHome
    <2>4. \A id \in report.kept["contracts"] : id = c
      BY <1>0, <1>4, <1>5, <2>1, ContractHome
    <2> QED BY <1>5, <2>1, <2>2, <2>3, <2>4, ReportReads
  <1>6. CASE ReadSubContracts
    <2> DEFINE x == "sub_contracts"  found == SubsOf(c)  clauses == ClausesListed(SubsOf(c))
    <2>1. report.at = x /\ x \in Collections /\ x \notin Kinds /\ Shows(found, clauses)
      BY <1>6, ReadByFacts DEF ReadSubContracts
    <2>2. \A d \in found : d \in Held(x) /\ d.of = c
      BY DEF SubsOf
    <2>3. \A d \in found : InSpecsOf(c, x, d.id)
      BY <1>0, <2>2, SubHome
    <2>4. \A k : k \in clauses <=> \E d \in found : d.clause.form = "list" /\ k \in d.clause.ids
      BY DEF ClausesListed
    <2>5. \A d \in Held(x) : d \in found <=> d.of = c
      BY DEF SubsOf
    <2> HIDE DEF found, clauses
    <2>6. ASSUME NEW k \in clauses PROVE OfContract(c, k)
      <3>1. PICK d \in found : k \in d.clause.ids
        BY <2>4
      <3>2. \E e \in Entries_ : e.coll = x /\ e.doc.id = d.id /\ e.doc.clause = d.clause
        BY <1>0, <2>1, <2>2, HeldHome
      <3> QED BY <2>3, <3>1, <3>2 DEF OfContract
    <2>7. report.kept[x] \subseteq {d.id : d \in found}
      <3>1. ASSUME NEW id \in report.kept[x] PROVE id \in {d.id : d \in found}
        <4>1. InSpecsOf(c, x, id) /\ c \in Contracts /\ \E d \in Held(x) : d.id = id
          BY <1>4, <2>1
        <4>2. PICK d \in Held(x) : d.id = id
          BY <4>1
        <4>3. d.of = c
          BY <1>0, <4>1, <4>2, SubHome
        <4> QED BY <2>5, <4>2, <4>3
      <3> QED BY <3>1
    <2>8. ASSUME Careful, NEW y \in Kinds, NEW id \in report.kept[y],
                 NEW e \in Entries_, e.coll = y, e.doc.id = id
          PROVE  e.doc.of \in clauses
      <3>1. InSpecsOf(c, y, id) /\ c \in Contracts /\ y \in Collections /\ \E d \in Held(y) : d.id = id
        BY <1>4, <2>1, SubIsCollection
      <3>2. PICK d \in Held(y) : d.id = id
        BY <3>1
      <3>3. d \in FamilyOf(c)[y] /\ e.doc.of = d.of
        BY <1>0, <2>8, <3>1, <3>2, FamilyMembers, HeldHome
      <3>4. AnchoredIn(c)
        BY <2>8, <3>1 DEF Anchored, Reliable, Careful
      <3>5. PICK a : a \in Anchors(c, d.of)
        BY <3>3, <3>4 DEF AnchoredIn
      <3>6. a \in Held(x) /\ a.of = c /\ a.clause.form # "none" /\ d.of \in a.clause.ids
        BY <3>5 DEF Anchors
      <3>7. a.clause.form \in {"none", "list"}
        BY <1>0, <2>8, <3>6, SubHome DEF Careful
      <3> QED BY <2>4, <2>5, <3>3, <3>6, <3>7
    <2> QED BY <2>1, <2>3, <2>6, <2>7, <2>8, ReportReads
  <1>7. ASSUME NEW x \in Kinds, ReadKind(x) PROVE ReportInv'
    <2> DEFINE found == {d \in Held(x) : d.of \in report.clauses}
    <2>1. report.at = x /\ x \in Collections /\ Shows(found, report.clauses)
      BY <1>7, SubIsCollection DEF ReadKind
    <2>2. \A d : d \in found <=> d \in Held(x) /\ d.of \in report.clauses
      OBVIOUS
    <2> HIDE DEF found
    <2>3. \A k \in report.clauses : OfContract(c, k)
      BY <1>4, <2>1 DEF ReportInv, ReportOwn
    <2>4. \A d \in found : InSpecsOf(c, x, d.id)
      BY <1>0, <2>2, <2>3, ClauseHome
    <2>5. ASSUME NEW id \in report.kept[x], ToFind(x, id) PROVE id \in {d.id : d \in found}
      <3>1. PICK d \in Held(x) : d.id = id
        BY <1>4, <2>1
      <3>2. \E e \in Entries_ : e.coll = x /\ e.doc.id = d.id
        BY <1>0, <2>1, HeldHome
      <3>3. \A e \in Entries_ : e.coll = x /\ e.doc.id = d.id => e.doc.of = d.of
        BY <1>0, <2>1, HeldHome
      <3>4. d.of \in report.clauses
        BY <2>5, <3>1, <3>2, <3>3 DEF ToFind
      <3> QED BY <2>2, <3>1, <3>4
    <2>6. x # "sub_contracts"
      BY SubIsCollection
    <2> QED BY <2>1, <2>3, <2>4, <2>5, <2>6, ReportReads
  <1>8. ReadContract => ReportInv'
    BY <1>2, <1>5 DEF ReadContract
  <1>9. ReadFails => ReportInv'
    BY <1>2, <1>3 DEF ReadFails
  <1> QED BY <1>1, <1>6, <1>7, <1>8, <1>9 DEF ReportStep

(* A report shows nothing of another contract, and all that was there of   *)
(* its own from its beginning to its end (generate_report), whatever       *)
(* requests came between its five reads: provided that the specifications  *)
(* keep to one shape; and, for the second, that clause data are lists, no  *)
(* call or read failed and the contract was neither deleted nor taken      *)
(* apart.                                                                  *)
THEOREM ReportsAreWhole ==
    ASSUME WellShaped
    PROVE  ReportSpec => []ReportIsWhole
  <1>1. ReportInit => StoreOk /\ ReportInv
    <2>1. ReportInit => StoreOk
      BY StoreStarts, AnchoredInit DEF ReportInit, StoreOk
    <2>2. ASSUME ReportInit PROVE ReportInv
      <3>1. /\ report.at = "none" /\ DOMAIN report.shown = Collections
            /\ DOMAIN report.kept = Collections /\ report.failed = FALSE
            /\ DOMAIN report = {"at", "of", "clauses", "shown", "failed", "kept"}
        BY <2>2 DEF ReportInit, NoReport, Nothing
      <3>2. ~Telling
        BY <3>1, ReadByFacts DEF Telling
      <3> QED BY <3>1, <3>2 DEF ReportInv, ReportTypes, ReportOwn, ReportFinds
    <2> QED BY <2>1, <2>2
  <1>2. StoreOk /\ ReportInv /\ [ReportNext]_reportVars => StoreOk' /\ ReportInv'
    <2>1. [ReportNext]_reportVars => [StoreNext]_storeVars
      BY DEF ReportNext, reportVars, storeVars
    <2>2. ASSUME StoreOk, ReportInv, ReportNext PROVE ReportInv'
      <3>1. CASE ReportStep /\ UNCHANGED storeVars
        BY <2>2, <3>1, ReportSteps
      <3>2. CASE /\ StoreNext
                 /\ report' = [report EXCEPT !.kept = [x \in Collections |-> @[x] \cap Ids(x)']]
        BY <2>2, <3>2, ReportWaits DEF StoreNext
      <3> QED BY <2>2, <3>1, <3>2 DEF ReportNext
    <2>3. ASSUME ReportInv, UNCHANGED reportVars PROVE ReportInv'
      <3>1. report' = report /\ docs' = docs /\ errors' = errors /\ fate' = fate
        BY <2>3 DEF reportVars, storeVars
      <3>2. /\ Telling' = Telling /\ (\A x : Ids(x)' = Ids(x)) /\ \A x : Shown(x)' = Shown(x)
            /\ Careful' = Careful /\ \A x, id : ToFind(x, id)' = ToFind(x, id)
        BY <3>1 DEF Telling, Ids, Held, Shown, Careful, ClausesAre, ToFind
      <3> QED BY <2>3, <3>1, <3>2 DEF ReportInv, ReportTypes, ReportOwn, ReportFinds, OfContract
    <2> QED BY <2>1, <2>2, <2>3, StoreOkStays
  <1>3. ReportInv => ReportIsWhole
    <2> SUFFICES ASSUME ReportInv, report.at = "told" PROVE ReportIsWhole
      BY DEF ReportIsWhole
    <2>1. Telling /\ ReadBy[report.at] = Collections
      BY ReadByFacts DEF Telling
    <2>2. \A x \in Collections : \A d \in report.shown[x] : InSpecsOf(report.of, x, d.id)
      BY <2>1 DEF ReportInv, ReportOwn
    <2>3. ASSUME Careful, NEW x \in Collections PROVE report.kept[x] \subseteq Shown(x)
      <3>1. CASE x \in Kinds
        BY <2>1, <2>3, <3>1 DEF ReportInv, ReportFinds
      <3>2. CASE x \notin Kinds
        BY <2>1, <2>3, <3>2 DEF ReportInv, ReportFinds, Careful
      <3> QED BY <3>1, <3>2
    <2> QED BY <2>2, <2>3 DEF ReportIsWhole, Careful, Shown
  <1> QED BY <1>1, <1>2, <1>3, PTL DEF ReportSpec

-----------------------------------------------------------------------------
(* One request at a time, against the store in which it happens at once.   *)
(* What a create, and what an update, has made of collections B when it    *)
(* has written k documents.                                                *)
First(s, k, x) ==
    {s.docs[i].doc : i \in {j \in DOMAIN s.docs : j <= k /\ s.docs[j].coll = x}}
CreatedTo(s, k, B) ==
    \A x \in Collections : docs[x] = B[x] (+) SetToBag(First(s, k, x))
SaysWhat(d, e) == d.id = e.id /\ d.of = e.of /\ d.version = e.version
UpdatedIn(W, x, B) ==
    /\ \A d : (\A e \in W : e.id # d.id) =>
          /\ d \in Held(x) <=> d \in DOMAIN B[x]
          /\ d \in Held(x) => docs[x][d] = B[x][d]
    /\ \A e \in W : \E d \in Held(x) : SaysWhat(d, e)
    /\ \A e \in W : (\A d \in DOMAIN B[x] : d.id # e.id) => \A d \in Held(x) : d.id = e.id => d = e
UpdatedTo(s, k, B) == \A x \in Collections : UpdatedIn(First(s, k, x), x, B)

(* What hangs on a contract, and what a deletion has made of it: one       *)
(* document with the id of the contract is gone, a collection is as it was *)
(* until it is asked, and then loses what hangs on the contract.           *)
Subs(c, B) == {d \in DOMAIN B["sub_contracts"] : d.of = c}
Clauses_(c, B) == UNION {d.clause.ids : d \in Subs(c, B)}
Hang(c, x, B) ==
    CASE x = "contracts" -> {}
      [] x = "sub_contracts" -> Subs(c, B)
      [] OTHER -> {d \in DOMAIN B[x] : d.of \in Clauses_(c, B)}
GoneOne(c, B) ==
    \/ \E d \in DOMAIN B["contracts"] :
          d.id = c /\ docs["contracts"] = B["contracts"] (-) SetToBag({d})
    \/ (\A d \in DOMAIN B["contracts"] : d.id # c) /\ docs["contracts"] = B["contracts"]
AskedFor(todo, x) == \E i \in DOMAIN todo : Asking(todo[i], x)
Ordered(todo) ==
    \A i, j \in DOMAIN todo : i < j /\ todo[j].do = "query" => todo[i].coll # todo[j].coll
Losing(c, todo, x, B) ==
    /\ AskedFor(todo, x) => docs[x] = B[x]
    /\ Held(x) \subseteq DOMAIN B[x]
    /\ \A d \in DOMAIN B[x] \ Hang(c, x, B) : d \in Held(x) /\ docs[x][d] = B[x][d]
    /\ ~AskedFor(todo, x) =>
          \A d \in Hang(c, x, B) : Stock(x, d.id) <= Places(todo, x, d.id)
DeletedTo(c, todo, clauses, B) ==
    /\ Deleting(c, todo) /\ Ordered(todo)
    /\ \A i \in DOMAIN todo : todo[i].do = "delete" =>
          todo[i].coll # "contracts" /\ \E d \in Hang(c, todo[i].coll, B) : d.id = todo[i].id
    /\ GoneOne(c, B)
    /\ ~AskedFor(todo, "sub_contracts") => clauses = Clauses_(c, B)
    /\ \A x \in Collections \ {"contracts"} : Losing(c, todo, x, B)

(* How far a request has come that found collections B.                    *)
Progress(r, B) ==
    \/ /\ r.op = "create"
       /\ \E s \in Specs, k \in Nat :
             /\ Writing(s.contract, r.todo, s, k) /\ CreatedTo(s, k, B)
             /\ \A i \in DOMAIN r.todo : r.todo[i].do = "insert"
    \/ /\ r.op = "update"
       /\ \E s \in Specs, k \in Nat :
             /\ Writing(s.contract, r.todo, s, k) /\ UpdatedTo(s, k, B)
             /\ \A i \in DOMAIN r.todo : r.todo[i].do = "update"
    \/ /\ r.op = "delete" /\ r.contract \in Contracts
       /\ \/ r.todo = DeletePlan(r.contract) /\ docs = B
          \/ DeletedTo(r.contract, r.todo, r.clauses, B)
    \/ /\ r.op = "remove" /\ docs = B
       /\ \E q \in Removable : r.todo = << Call("delete", q.coll, q.id, NoDoc) >>
Over(r, B) ==
    \/ r.op = "create" /\ \E s \in Specs : CreatedTo(s, Len(s.docs), B)
    \/ r.op = "update" /\ \E s \in Specs : UpdatedTo(s, Len(s.docs), B)
    \/ r.op = "delete" /\ r.contract \in Contracts /\ \E cl : DeletedTo(r.contract, <<>>, cl, B)
    \/ /\ r.op = "remove"
       /\ \E q \in Removable :
             \/ \E d \in DOMAIN B[q.coll] :
                   d.id = q.id /\ docs = [B EXCEPT ![q.coll] = @ (-) SetToBag({d})]
             \/ (\A d \in DOMAIN B[q.coll] : d.id # q.id) /\ docs = B

BagsOk(B) ==
    /\ B = [x \in Collections |-> B[x]]
    /\ \A x \in Collections :
          IsABag(B[x]) /\ IsFiniteSet(DOMAIN B[x]) /\ \A d \in DOMAIN B[x] : Drawn(x, d)
Alone ==
    /\ docs = [x \in Collections |-> docs[x]] /\ BagsOk(before.docs)
    /\ before.served \in Nat /\ before.errors \in Nat /\ before.errors <= errors
    /\ IF Quiet THEN docs = before.docs /\ served = before.served /\ errors = before.errors
                ELSE served > before.served
    /\ served = before.served + 1 =>
          \A w \in Asked :
             /\ \A v \in Asked : v = w
             /\ errors = before.errors => Progress(request[w], before.docs)

(* Writing a document.                                                     *)
LEMMA FirstNext ==
    ASSUME NEW s \in Specs, NEW k \in Nat, k + 1 \in DOMAIN s.docs, Neat
    PROVE  /\ First(s, k + 1, s.docs[k + 1].coll) =
                 First(s, k, s.docs[k + 1].coll) \cup {s.docs[k + 1].doc}
           /\ \A x : x # s.docs[k + 1].coll => First(s, k + 1, x) = First(s, k, x)
           /\ \A x : \A d \in First(s, k, x) :
                 x = s.docs[k + 1].coll => d.id # s.docs[k + 1].doc.id
  <1>1. DOMAIN s.docs = 1..Len(s.docs) /\ Len(s.docs) \in Nat
    BY EntryFacts
  <1>2. \A j \in DOMAIN s.docs : j <= k + 1 <=> j <= k \/ j = k + 1
    BY <1>1
  <1>3. \A x : First(s, k + 1, x) =
             {s.docs[i].doc : i \in {j \in DOMAIN s.docs : (j <= k \/ j = k + 1) /\ s.docs[j].coll = x}}
    BY <1>2 DEF First
  <1>4. \A j \in DOMAIN s.docs : j <= k => j # k + 1
    BY <1>1
  <1>5. ASSUME NEW x, NEW d \in First(s, k, x), x = s.docs[k + 1].coll
        PROVE  d.id # s.docs[k + 1].doc.id
    <2>1. PICK i \in DOMAIN s.docs : i <= k /\ s.docs[i].coll = x /\ d = s.docs[i].doc
      BY DEF First
    <2> QED BY <1>4, <1>5, <2>1 DEF Neat, NeatSpec
  <1>6. First(s, k + 1, s.docs[k + 1].coll) =
                 First(s, k, s.docs[k + 1].coll) \cup {s.docs[k + 1].doc}
    <2> DEFINE y == s.docs[k + 1].coll  q == s.docs
    <2>1. \A x : First(s, k, x) = {q[i].doc : i \in {j \in DOMAIN q : j <= k /\ q[j].coll = x}}
      BY DEF First
    <2>2. \A d : d \in First(s, k + 1, y) <=>
              \E i \in DOMAIN q : (i <= k \/ i = k + 1) /\ q[i].coll = y /\ d = q[i].doc
      BY <1>3
    <2>3. \A d : d \in First(s, k, y) <=>
              \E i \in DOMAIN q : i <= k /\ q[i].coll = y /\ d = q[i].doc
      BY <2>1
    <2>4. k + 1 \in DOMAIN q /\ q[k + 1].coll = y
      OBVIOUS
    <2> HIDE DEF q, y
    <2>5. \A d : d \in First(s, k + 1, y) <=> d \in First(s, k, y) \/ d = q[k + 1].doc
      BY <2>2, <2>3, <2>4
    <2> QED BY <2>5 DEF q, y
  <1>7. ASSUME NEW x, x # s.docs[k + 1].coll PROVE First(s, k + 1, x) = First(s, k, x)
    BY <1>3, <1>7 DEF First
  <1> QED BY <1>5, <1>6, <1>7

LEMMA BagOfMore ==
    ASSUME NEW B, IsABag(B), NEW S, NEW d, d \notin S
    PROVE  (B (+) SetToBag(S)) (+) SetToBag({d}) = B (+) SetToBag(S \cup {d})
  BY DEF IsABag, (+), SetToBag

LEMMA BagOfNone == ASSUME NEW B, IsABag(B) PROVE B (+) SetToBag({}) = B
  BY DEF IsABag, (+), SetToBag

LEMMA InsertOn ==
    ASSUME Neat, NEW B, BagsOk(B), NEW s \in Specs, NEW k \in Nat, k + 1 \in DOMAIN s.docs,
           CreatedTo(s, k, B), docs = [x \in Collections |-> docs[x]],
           docs' = [docs EXCEPT ![s.docs[k + 1].coll] = @ (+) SetToBag({s.docs[k + 1].doc})]
    PROVE  CreatedTo(s, k + 1, B)'
  <1> DEFINE y == s.docs[k + 1].coll  d == s.docs[k + 1].doc
  <1>1. y \in Collections /\ d \notin First(s, k, y)
    BY FirstNext, EntryFacts
  <1>2. docs'[y] = docs[y] (+) SetToBag({d}) /\ \A x \in Collections \ {y} : docs'[x] = docs[x]
    BY <1>1
  <1>3. docs'[y] = (B[y] (+) SetToBag(First(s, k, y))) (+) SetToBag({d})
    BY <1>1, <1>2 DEF CreatedTo
  <1>6. First(s, k + 1, y) = First(s, k, y) \cup {d}
    BY FirstNext
  <1>7. IsABag(B[y])
    BY <1>1 DEF BagsOk
  <1>4. docs'[y] = B[y] (+) SetToBag(First(s, k + 1, y))
    <2> DEFINE S == First(s, k, y)  c == B[y]
    <2>1. IsABag(c) /\ d \notin S
      BY <1>1, <1>7
    <2> HIDE DEF S, c, d
    <2>2. (c (+) SetToBag(S)) (+) SetToBag({d}) = c (+) SetToBag(S \cup {d})
      BY <2>1, BagOfMore
    <2> QED BY <1>3, <1>6, <2>2 DEF S, c, d
  <1>5. ASSUME NEW x \in Collections, x # y PROVE docs'[x] = B[x] (+) SetToBag(First(s, k + 1, x))
    BY <1>2, <1>5, FirstNext DEF CreatedTo
  <1> QED BY <1>4, <1>5 DEF CreatedTo

LEMMA UpsertSays ==
    ASSUME WellShaped, HeldOk, NEW e \in Entries_,
           NEW bag \in Upserted(docs[e.coll], e.doc), docs' = [docs EXCEPT ![e.coll] = bag]
    PROVE  /\ Untouched(e.coll, e.doc.id)
           /\ \E d \in Held(e.coll)' : SaysWhat(d, e.doc)
           /\ WithId(e.coll, e.doc.id) = {} => \A d \in Held(e.coll)' : d.id = e.doc.id => d = e.doc
  <1> DEFINE x == e.coll
             B == docs[x]
             olds == {o \in BagToSet(B) : o.id = e.doc.id}
  <1>0. x \in Collections /\ IsABag(B) /\ IsFiniteSet(DOMAIN B)
    BY EntryFacts DEF HeldOk
  <1>1. Untouched(x, e.doc.id)
    BY UpsertWrote DEF Wrote
  <1>2. docs'[x] = bag
    BY <1>0 DEF HeldOk
  <1>3. CASE olds = {}
    <2>1. bag = B (+) SetToBag({e.doc})
      BY <1>3 DEF Upserted
    <2>2. DOMAIN bag = DOMAIN B \cup {e.doc}
      BY <1>0, <2>1, OneMore
    <2>3. Held(x)' = Held(x) \cup {e.doc}
      BY <1>2, <2>2 DEF Held, BagToSet
    <2>4. \A d \in Held(x) : d.id # e.doc.id
      BY <1>3 DEF Held
    <2> QED BY <1>1, <2>3, <2>4 DEF SaysWhat
  <1>4. CASE olds # {}
    <2>1. PICK o \in olds : bag = (B (-) SetToBag({o})) (+) SetToBag({Merge(o, e.doc)})
      BY <1>4 DEF Upserted
    <2> DEFINE C == B (-) SetToBag({o})  m == Merge(o, e.doc)
    <2>2. o \in DOMAIN B
      BY DEF BagToSet
    <2>3. IsABag(C) /\ IsFiniteSet(DOMAIN C)
      BY <1>0, <2>2, OneLess
    <2>4. SaysWhat(m, e.doc)
      <3>1. Document(e.doc)
        BY EntryFacts
      <3> QED BY <3>1 DEF Merge, Document, SaysWhat
    <2> DEFINE D == C (+) SetToBag({m})
    <2>8. bag = D
      BY <2>1
    <2> HIDE DEF C, m
    <2>9. DOMAIN D = DOMAIN C \cup {m}
      BY <2>3, OneMore
    <2>5. m \in DOMAIN bag
      BY <2>8, <2>9
    <2>6. m \in Held(x)'
      BY <1>2, <2>5 DEF Held, BagToSet
    <2>7. WithId(x, e.doc.id) # {}
      BY <1>4 DEF WithId, Held
    <2> QED BY <1>1, <2>4, <2>6, <2>7
  <1> QED BY <1>3, <1>4

LEMMA UpsertOn ==
    ASSUME WellShaped, Neat, HeldOk, NEW B, NEW s \in Specs, NEW k \in Nat,
           k + 1 \in DOMAIN s.docs, UpdatedTo(s, k, B),
           NEW bag \in Upserted(docs[s.docs[k + 1].coll], s.docs[k + 1].doc),
           docs' = [docs EXCEPT ![s.docs[k + 1].coll] = bag]
    PROVE  UpdatedTo(s, k + 1, B)'
  <1> DEFINE f == s.docs[k + 1]  y == f.coll  e == f.doc
  <1>1. f \in Entries_ /\ y \in Collections
    BY EntryFacts
  <1>2. /\ Untouched(y, e.id)
        /\ \E d \in Held(y)' : SaysWhat(d, e)
        /\ WithId(y, e.id) = {} => \A d \in Held(y)' : d.id = e.id => d = e
    BY <1>1, UpsertSays
  <1>3. /\ First(s, k + 1, y) = First(s, k, y) \cup {e}
        /\ \A x : x # y => First(s, k + 1, x) = First(s, k, x)
        /\ \A d \in First(s, k, y) : d.id # e.id
    BY FirstNext
  <1> HIDE DEF f, e, y
  <1>4. ASSUME NEW x \in Collections, x # y
        PROVE  UpdatedIn(First(s, k + 1, x), x, B)'
    <2>1. UpdatedIn(First(s, k, x), x, B) /\ First(s, k + 1, x) = First(s, k, x)
      BY <1>3, <1>4 DEF UpdatedTo
    <2>2. \A d : (d \in Held(x)' <=> d \in Held(x)) /\ (d \in Held(x) => docs'[x][d] = docs[x][d])
      BY <1>2, <1>4 DEF Untouched
    <2> QED BY <2>1, <2>2 DEF UpdatedIn
  <1>5. UpdatedIn(First(s, k + 1, y), y, B)'
    <2> DEFINE W == First(s, k, y)
    <2>1. UpdatedIn(W, y, B)
      BY <1>1 DEF UpdatedTo
    <2>2. \A d : d.id # e.id => /\ d \in Held(y)' <=> d \in Held(y)
                                /\ d \in Held(y) => docs'[y][d] = docs[y][d]
      BY <1>1, <1>2 DEF Untouched
    <2> HIDE DEF W
    <2>3. ASSUME NEW d, \A g \in W \cup {e} : g.id # d.id
          PROVE  /\ d \in Held(y)' <=> d \in DOMAIN B[y]
                 /\ d \in Held(y)' => docs'[y][d] = B[y][d]
      BY <2>1, <2>2, <2>3 DEF UpdatedIn
    <2>4. ASSUME NEW g \in W \cup {e} PROVE \E d \in Held(y)' : SaysWhat(d, g)
      <3>1. CASE g = e
        BY <1>2, <3>1
      <3>2. CASE g \in W
        <4>1. PICK d \in Held(y) : SaysWhat(d, g)
          BY <2>1, <3>2 DEF UpdatedIn
        <4>2. d.id # e.id
          BY <1>3, <3>2, <4>1 DEF SaysWhat, W
        <4> QED BY <2>2, <4>1, <4>2
      <3> QED BY <3>1, <3>2
    <2>5. ASSUME NEW g \in W \cup {e}, \A d \in DOMAIN B[y] : d.id # g.id,
                 NEW d \in Held(y)', d.id = g.id
          PROVE  d = g
      <3>1. CASE g = e
        <4>1. ASSUME NEW o \in Held(y), o.id = e.id PROVE FALSE
          <5>1. \A h \in W : h.id # o.id
            BY <1>3, <4>1 DEF W
          <5>2. o \in DOMAIN B[y]
            BY <2>1, <5>1 DEF UpdatedIn
          <5> QED BY <2>5, <3>1, <4>1, <5>2
        <4>2. WithId(y, e.id) = {}
          BY <4>1 DEF WithId
        <4> QED BY <1>2, <2>5, <3>1, <4>2
      <3>2. CASE g \in W
        <4>1. d.id # e.id
          BY <1>3, <2>5, <3>2 DEF W
        <4>2. d \in Held(y)
          BY <2>2, <4>1
        <4> QED BY <2>1, <2>5, <3>2, <4>2 DEF UpdatedIn
      <3> QED BY <3>1, <3>2
    <2>6. First(s, k + 1, y) = W \cup {e}
      BY <1>3 DEF W
    <2> QED BY <2>3, <2>4, <2>5, <2>6 DEF UpdatedIn
  <1> QED BY <1>4, <1>5 DEF UpdatedTo

(* What hangs on a contract is told by its id.                             *)
LEMMA HangById ==
    ASSUME WellShaped, NEW B, BagsOk(B), NEW c, NEW x \in Collections \ {"contracts"},
           NEW h \in Hang(c, x, B), NEW d \in DOMAIN B[x], d.id = h.id
    PROVE  d \in Hang(c, x, B)
  <1>1. h \in DOMAIN B[x]
    BY DEF Hang, Subs
  <1>2. PICK e \in Entries_ : From(x, d, e) /\ e.doc.of = d.of
    BY DEF BagsOk, Drawn
  <1>3. PICK f \in Entries_ : From(x, h, f) /\ f.doc.of = h.of
    BY <1>1 DEF BagsOk, Drawn
  <1>4. d.of = h.of
    BY <1>2, <1>3, EntriesAgree DEF From
  <1> QED BY <1>4 DEF Hang, Subs

LEMMA AskedTail ==
    ASSUME NEW todo \in Seq(CallSet), todo # <<>>, todo[1].do # "query", NEW x
    PROVE  AskedFor(Tail(todo), x) <=> AskedFor(todo, x)
  BY TailMembers DEF AskedFor, Asking

LEMMA OrderedTail ==
    ASSUME NEW todo \in Seq(CallSet), todo # <<>>, Ordered(todo)
    PROVE  Ordered(Tail(todo))
  <1> SUFFICES ASSUME NEW i \in DOMAIN Tail(todo), NEW j \in DOMAIN Tail(todo), i < j,
                      Tail(todo)[j].do = "query"
               PROVE  Tail(todo)[i].coll # Tail(todo)[j].coll
    BY DEF Ordered
  <1>1. /\ i + 1 \in DOMAIN todo /\ Tail(todo)[i] = todo[i + 1] /\ i \in Nat
        /\ j + 1 \in DOMAIN todo /\ Tail(todo)[j] = todo[j + 1] /\ j \in Nat
    BY TailMembers
  <1>2. i + 1 < j + 1
    BY <1>1
  <1> QED BY <1>1, <1>2 DEF Ordered

(* A deletion of a document that hangs on the contract.                    *)
LEMMA DeleteOn ==
    ASSUME WellShaped, HeldOk, NEW B, BagsOk(B), NEW c \in Contracts, NEW clauses,
           NEW todo \in Seq(CallSet), todo # <<>>, DeletedTo(c, todo, clauses, B),
           todo[1].do = "delete",
           \/ \E d \in WithId(todo[1].coll, todo[1].id) :
                 docs' = [docs EXCEPT ![todo[1].coll] = @ (-) SetToBag({d})]
           \/ WithId(todo[1].coll, todo[1].id) = {} /\ docs' = docs
    PROVE  DeletedTo(c, Tail(todo), clauses, B)'
  <1> DEFINE x == todo[1].coll  id == todo[1].id  u == Tail(todo)
  <1>1. /\ 1 \in DOMAIN todo /\ todo[1] \in CallSet /\ u \in Seq(CallSet)
        /\ \A i \in DOMAIN u : \E j \in DOMAIN todo : u[i] = todo[j]
    BY TailMembers
  <1>2. x \in Collections \ {"contracts"}
    BY <1>1 DEF DeletedTo, CallSet
  <1>3. PICK h \in Hang(c, x, B) : h.id = id
    BY <1>1 DEF DeletedTo
  <1>4. ~AskedFor(todo, x)
    <2> SUFFICES ASSUME NEW j \in DOMAIN todo, Asking(todo[j], x) PROVE FALSE
      BY DEF AskedFor
    <2>1. j = 1 \/ 1 < j
      BY TailMembers
    <2>2. j # 1
      BY DEF Asking
    <2> QED BY <1>1, <2>1, <2>2 DEF DeletedTo, Ordered, Asking
  <1>5. /\ Untouched(x, id) /\ Held(x)' \subseteq Held(x)
        /\ \/ Stock(x, id)' = Stock(x, id) - 1
           \/ WithId(x, id) = {} /\ docs' = docs
    <2>1. CASE WithId(x, id) = {} /\ docs' = docs
      BY <2>1 DEF Untouched, Held
    <2>2. ASSUME NEW d \in WithId(x, id), docs' = [docs EXCEPT ![x] = @ (-) SetToBag({d})]
          PROVE  Untouched(x, id) /\ Held(x)' \subseteq Held(x) /\ Stock(x, id)' = Stock(x, id) - 1
      BY <1>2, <2>2, TakeEffect
    <2> QED BY <2>1, <2>2
  <1>6. \A y \in Collections \ {x} : docs'[y] = docs[y] /\ Held(y)' = Held(y)
    BY <1>2 DEF HeldOk, Held
  <1>7. \A y : AskedFor(u, y) <=> AskedFor(todo, y)
    BY AskedTail
  <1>8. Deleting(c, u) /\ Ordered(u)
    BY PopDeleting, OrderedTail DEF DeletedTo
  <1>9. \A y, i : Places(u, y, i) = IF x = y /\ id = i THEN Places(todo, y, i) - 1 ELSE Places(todo, y, i)
    BY PlacesTail
  <1>10. \A y \in Collections : \A i : y # x \/ i # id => Stock(y, i)' = Stock(y, i)
    BY <1>5, UntouchedStock
  <1>11. \A y \in Collections : \A i : Stock(y, i) \in Nat /\ Places(u, y, i) \in Nat /\ Places(todo, y, i) \in Nat
    BY <1>1, StockFacts, PlacesFinite
  <1>12. \A i \in DOMAIN u : u[i].do = "delete" =>
             u[i].coll # "contracts" /\ \E d \in Hang(c, u[i].coll, B) : d.id = u[i].id
    BY <1>1 DEF DeletedTo
  <1>13. GoneOne(c, B)'
    <2>1. "contracts" \in Collections \ {x}
      BY <1>2 DEF Collections
    <2>2. docs'["contracts"] = docs["contracts"]
      BY <1>6, <2>1
    <2> QED BY <2>2 DEF DeletedTo, GoneOne
  <1>14. ~AskedFor(u, "sub_contracts") => clauses = Clauses_(c, B)
    BY <1>7 DEF DeletedTo
  <1>15. ASSUME NEW y \in Collections \ {"contracts"}, y # x PROVE Losing(c, u, y, B)'
    <2>1. Losing(c, todo, y, B)
      BY DEF DeletedTo
    <2>2. docs'[y] = docs[y] /\ Held(y)' = Held(y)
      BY <1>6, <1>15
    <2>3. \A i : Stock(y, i)' = Stock(y, i) /\ Places(u, y, i) = Places(todo, y, i)
      BY <1>9, <1>10, <1>15
    <2> HIDE DEF u, x, id
    <2> QED BY <1>7, <2>1, <2>2, <2>3 DEF Losing
  <1>16. Losing(c, u, x, B)'
    <2>1. Losing(c, todo, x, B)
      BY <1>2 DEF DeletedTo
    <2>2. Held(x)' \subseteq DOMAIN B[x]
      BY <1>5, <2>1 DEF Losing
    <2>3. ASSUME NEW d \in DOMAIN B[x] \ Hang(c, x, B)
          PROVE  d \in Held(x)' /\ docs'[x][d] = B[x][d]
      <3>1. d.id # id
        BY <1>2, <1>3, HangById
      <3>2. d \in Held(x) /\ docs[x][d] = B[x][d]
        BY <2>1 DEF Losing
      <3> QED BY <1>2, <1>5, <3>1, <3>2 DEF Untouched
    <2>4. ASSUME NEW d \in Hang(c, x, B) PROVE Stock(x, d.id)' <= Places(u, x, d.id)
      <3>1. Stock(x, d.id) <= Places(todo, x, d.id)
        BY <1>4, <2>1 DEF Losing
      <3>2. CASE d.id # id
        <4>1. Stock(x, d.id)' = Stock(x, d.id) /\ Places(u, x, d.id) = Places(todo, x, d.id)
          BY <1>2, <1>9, <1>10, <3>2
        <4> QED BY <3>1, <4>1
      <3>3. CASE d.id = id /\ Stock(x, id)' = Stock(x, id) - 1
        <4>1. Places(u, x, id) = Places(todo, x, id) - 1
          BY <1>9
        <4> DEFINE a == Stock(x, id)  p == Places(todo, x, id)
        <4>2. a \in Nat /\ p \in Nat /\ a <= p
          BY <1>2, <1>11, <3>1, <3>3
        <4>3. Stock(x, d.id)' = a - 1 /\ Places(u, x, d.id) = p - 1
          BY <3>3, <4>1
        <4> HIDE DEF a, p
        <4> QED BY <4>2, <4>3
      <3>4. CASE d.id = id /\ WithId(x, id) = {} /\ docs' = docs
        <4>1. Copies(docs[x], WithId(x, id)) = {}
          BY <3>4 DEF Copies
        <4>2. Stock(x, id) = 0
          BY <4>1, FS_EmptySet DEF Stock
        <4>3. Stock(x, id)' = Stock(x, id)
          BY <3>4 DEF Stock, WithId, Held
        <4>4. Places(u, x, id) \in Nat
          BY <1>2, <1>11
        <4> QED BY <3>4, <4>2, <4>3, <4>4
      <3> QED BY <1>5, <3>2, <3>3, <3>4
    <2> HIDE DEF u, x, id
    <2> QED BY <1>4, <1>7, <2>2, <2>3, <2>4 DEF Losing
  <1> HIDE DEF u, x, id
  <1>17. \A y \in Collections \ {"contracts"} : Losing(c, u, y, B)'
    BY <1>15, <1>16
  <1>18. DeletedTo(c, u, clauses, B)'
    BY <1>8, <1>12, <1>13, <1>14, <1>17 DEF DeletedTo
  <1> QED BY <1>18 DEF u

(* The deletion of the contract's own document.                            *)
LEMMA PlanOn ==
    ASSUME WellShaped, HeldOk, NEW B, BagsOk(B), NEW c \in Contracts, NEW cl, docs = B,
           \/ \E d \in WithId("contracts", c) :
                 docs' = [docs EXCEPT !["contracts"] = @ (-) SetToBag({d})]
           \/ WithId("contracts", c) = {} /\ docs' = docs
    PROVE  DeletedTo(c, Tail(DeletePlan(c)), cl, B)'
  <1> DEFINE plan == DeletePlan(c)  u == Tail(plan)
  <1>1. /\ plan \in Seq(CallSet) /\ plan # <<>> /\ Deleting(c, plan)
        /\ u = << Call("query", "sub_contracts", c, NoDoc),
                  Call("query", "actions", c, NoDoc), Call("query", "verification_entries", c, NoDoc),
                  Call("query", "constraints", c, NoDoc) >>
    BY PlanFacts, PlanDeletes DEF DeletePlan
  <1>2. Deleting(c, u)
    BY <1>1, PopDeleting
  <1>3. DOMAIN u = 1..4 /\ u[1].coll = "sub_contracts" /\ u[2].coll = "actions"
        /\ u[3].coll = "verification_entries" /\ u[4].coll = "constraints"
        /\ \A i \in 1..4 : u[i].do = "query"
    <2> DEFINE p == Call("query", "sub_contracts", c, NoDoc)
               q == Call("query", "actions", c, NoDoc)
               r == Call("query", "verification_entries", c, NoDoc)
               t == Call("query", "constraints", c, NoDoc)
    <2>1. /\ p.do = "query" /\ p.coll = "sub_contracts" /\ q.do = "query" /\ q.coll = "actions"
          /\ r.do = "query" /\ r.coll = "verification_entries"
          /\ t.do = "query" /\ t.coll = "constraints"
      BY DEF Call
    <2>2. u = <<p, q, r, t>>
      BY <1>1
    <2> HIDE DEF u, plan, p, q, r, t
    <2>3. DOMAIN u = 1..4 /\ u[1] = p /\ u[2] = q /\ u[3] = r /\ u[4] = t
      BY <2>2
    <2>4. \A i \in 1..4 : i = 1 \/ i = 2 \/ i = 3 \/ i = 4
      OBVIOUS
    <2> QED BY <2>1, <2>3, <2>4
  <1>4. Ordered(u)
    <2> HIDE DEF u
    <2> QED BY <1>3 DEF Ordered
  <1>5. \A x \in Collections \ {"contracts"} : AskedFor(u, x)
    <2> HIDE DEF u
    <2>1. 1 \in DOMAIN u /\ 2 \in DOMAIN u /\ 3 \in DOMAIN u /\ 4 \in DOMAIN u
      BY <1>3
    <2>2. /\ Asking(u[1], "sub_contracts") /\ Asking(u[2], "actions")
          /\ Asking(u[3], "verification_entries") /\ Asking(u[4], "constraints")
      BY <1>3 DEF Asking
    <2> QED BY <2>1, <2>2 DEF AskedFor, Collections, Kinds
  <1>6. "contracts" \in Collections /\ "sub_contracts" \in Collections \ {"contracts"}
    BY DEF Collections
  <1>7. \A x \in Collections \ {"contracts"} : docs'[x] = B[x] /\ Held(x)' = DOMAIN B[x]
    BY <1>6 DEF HeldOk, Held, BagToSet
  <1>8. GoneOne(c, B)'
    <2>1. ASSUME NEW d \in WithId("contracts", c),
                 docs' = [docs EXCEPT !["contracts"] = @ (-) SetToBag({d})]
          PROVE  GoneOne(c, B)'
      <3>1. d \in DOMAIN B["contracts"] /\ d.id = c
        BY DEF WithId, Held, BagToSet
      <3>2. docs'["contracts"] = B["contracts"] (-) SetToBag({d})
        BY <1>6, <2>1 DEF HeldOk
      <3> QED BY <3>1, <3>2 DEF GoneOne
    <2>2. CASE WithId("contracts", c) = {} /\ docs' = docs
      BY <2>2 DEF GoneOne, WithId, Held, BagToSet
    <2> QED BY <2>1, <2>2
  <1> HIDE DEF u, plan
  <1>9. \A x \in Collections \ {"contracts"} : Losing(c, u, x, B)'
    BY <1>5, <1>7 DEF Losing
  <1>10. DeletedTo(c, u, cl, B)'
    BY <1>2, <1>3, <1>4, <1>5, <1>6, <1>8, <1>9 DEF DeletedTo
  <1> QED BY <1>10 DEF u, plan

LEMMA PutBefore ==
    ASSUME NEW S, NEW a \in Seq(S), NEW b \in Seq(S), NEW n, Len(a) = n
    PROVE  /\ a \o b \in Seq(S)
           /\ \A i \in DOMAIN (a \o b) :
                 \/ i \in 1..n /\ (a \o b)[i] = a[i]
                 \/ i - n \in DOMAIN b /\ (a \o b)[i] = b[i - n] /\ i \notin 1..n
           /\ \A i \in DOMAIN b : n + i \in DOMAIN (a \o b) /\ (a \o b)[n + i] = b[i]
           /\ \A i \in DOMAIN (a \o b) : i \in Nat
  <1> DEFINE all == a \o b  m == Len(b)
  <1>1. /\ all \in Seq(S) /\ n \in Nat /\ m \in Nat
        /\ DOMAIN all = 1..(n + m) /\ DOMAIN b = 1..m
        /\ \A i \in 1..n : i \in DOMAIN all /\ all[i] = a[i]
        /\ \A i \in 1..m : n + i \in DOMAIN all /\ all[n + i] = b[i]
        /\ \A i \in DOMAIN all : i \in 1..n \/ i - n \in 1..m
        /\ \A i \in DOMAIN all : i - n \in 1..m => all[i] = b[i - n]
    <2> DEFINE k == Len(a)
    <2>1. k = n
      OBVIOUS
    <2>2. all \in Seq(S) /\ k \in Nat /\ m \in Nat /\ DOMAIN b = 1..m
      BY LenProperties
    <2>6. DOMAIN all = 1..(k + m)
      <3>1. Len(all) = k + m
        BY ConcatMembers
      <3>2. DOMAIN all = 1..Len(all)
        BY <2>2, LenProperties
      <3> QED BY <3>1, <3>2
    <2>3. /\ \A i \in 1..k : i \in DOMAIN all /\ all[i] = a[i]
          /\ \A i \in 1..m : k + i \in DOMAIN all /\ all[k + i] = b[i]
      BY ConcatMembers
    <2>4. \A i \in DOMAIN all : i \in 1..k \/ i - k \in 1..m
      BY ConcatMembers
    <2>5. \A i \in DOMAIN all : i - k \in 1..m => all[i] = b[i - k]
      BY ConcatMembers
    <2> HIDE DEF k, m, all
    <2> QED BY <2>1, <2>2, <2>3, <2>4, <2>5, <2>6
  <1> HIDE DEF all, m
  <1>2. \A i \in 1..(n + m) : i \in Nat /\ (i - n \in 1..m => i \notin 1..n)
    BY <1>1
  <1> QED BY <1>1, <1>2 DEF all

(* A query puts the deletions of what it finds before the rest.            *)
LEMMA QueryOn ==
    ASSUME WellShaped, HeldOk, Neat, "delete" \in Ops, NEW B, BagsOk(B), NEW c \in Contracts,
           NEW clauses, NEW todo \in Seq(CallSet), todo # <<>>, DeletedTo(c, todo, clauses, B),
           todo[1].do = "query", docs' = docs, NEW found, NEW more,
           found = {d \in Held(todo[1].coll) :
                       IF todo[1].coll = "sub_contracts" THEN d.of = c ELSE d.of \in clauses},
           more = IF todo[1].coll = "sub_contracts" THEN ClausesIn(found) ELSE clauses,
           NEW q \in Listed(todo[1].coll, found), NEW kills \in Seq(CallSet), Len(kills) = Len(q),
           \A i \in 1..Len(q) : kills[i] = Call("delete", todo[1].coll, q[i].id, NoDoc)
    PROVE  DeletedTo(c, kills \o Tail(todo), more, B)'
  <1> DEFINE x == todo[1].coll  u == Tail(todo)  all == kills \o u  n == Len(q)
  <1>1. /\ 1 \in DOMAIN todo /\ todo[1] \in CallSet /\ u \in Seq(CallSet)
        /\ \A i \in DOMAIN u : i + 1 \in DOMAIN todo /\ u[i] = todo[i + 1] /\ i \in Nat
        /\ \A j \in DOMAIN todo : j \in Nat /\ (j > 1 => j - 1 \in DOMAIN u /\ u[j - 1] = todo[j])
        /\ \A j \in DOMAIN todo : j = 1 \/ j > 1
    BY TailMembers
  <1>2. x \in Collections \ {"contracts"} /\ Deleting(c, todo) /\ Ordered(todo)
    BY <1>1 DEF DeletedTo, Deleting, CallSet
  <1>3. Asking(todo[1], x) /\ AskedFor(todo, x)
    BY <1>1 DEF Asking, AskedFor
  <1>4. docs[x] = B[x] /\ Held(x) = DOMAIN B[x]
    BY <1>2, <1>3 DEF DeletedTo, Losing, Held, BagToSet
  <1>5. x # "sub_contracts" => clauses = Clauses_(c, B)
    <2> SUFFICES ASSUME x # "sub_contracts", AskedFor(todo, "sub_contracts") PROVE FALSE
      BY DEF DeletedTo
    <2>1. PICK j \in DOMAIN todo : Asking(todo[j], "sub_contracts")
      BY DEF AskedFor
    <2>2. j > 1
      BY <1>1, <2>1 DEF Asking
    <2> QED BY <1>1, <1>2, <2>1, <2>2 DEF Deleting
  <1>6. found = Hang(c, x, B)
    BY <1>2, <1>4, <1>5 DEF Hang, Subs
  <1>7. found \subseteq Held(x)
    OBVIOUS
  <1>8. /\ q \in Seq(found) /\ n \in Nat /\ DOMAIN q = 1..n
        /\ \A i \in 1..n : q[i] \in found
    <2>1. q \in Seq(found) /\ n \in Nat /\ DOMAIN q = 1..n
      BY <1>2, <1>7, ListedFacts
    <2> QED BY <2>1, LenProperties
  <1>9. /\ DOMAIN kills = 1..n
        /\ \A i \in 1..n : /\ kills[i].do = "delete" /\ kills[i].coll = x
                           /\ kills[i].id = q[i].id
    <2>1. DOMAIN kills = 1..n
      BY LenProperties
    <2> QED BY <2>1 DEF Call
  <1>10. /\ all \in Seq(CallSet)
         /\ \A i \in DOMAIN all :
               \/ i \in 1..n /\ all[i] = kills[i]
               \/ i - n \in DOMAIN u /\ all[i] = u[i - n] /\ i \notin 1..n
         /\ \A i \in DOMAIN u : n + i \in DOMAIN all /\ all[n + i] = u[i]
         /\ \A i \in DOMAIN all : i \in Nat
    <2> HIDE DEF n, u
    <2>1. u \in Seq(CallSet) /\ Len(kills) = n
      BY <1>1 DEF n
    <2> QED BY <2>1, PutBefore
  <1>11. ASSUME NEW y PROVE AskedFor(all, y) <=> y # x /\ AskedFor(todo, y)
    <2>1. ASSUME AskedFor(all, y) PROVE y # x /\ AskedFor(todo, y)
      <3>1. PICK i \in DOMAIN all : Asking(all[i], y)
        BY <2>1 DEF AskedFor
      <3>2. i - n \in DOMAIN u /\ all[i] = u[i - n]
        BY <1>9, <1>10, <3>1 DEF Asking
      <3>3. PICK k \in DOMAIN u : all[i] = u[k]
        BY <3>2
      <3>4. k + 1 \in DOMAIN todo /\ all[i] = todo[k + 1] /\ k + 1 \in Nat /\ 1 < k + 1
        <4>1. k \in 1..Len(u)
          BY <1>1, LenProperties
        <4> QED BY <1>1, <3>3, <4>1
      <3>5. todo[1].coll # todo[k + 1].coll
        <4> DEFINE j == k + 1
        <4>1. j \in DOMAIN todo /\ todo[j].do = "query" /\ 1 < j
          BY <3>1, <3>4 DEF Asking
        <4> HIDE DEF j
        <4>2. todo[1].coll # todo[j].coll
          BY <1>1, <1>2, <4>1 DEF Ordered
        <4> QED BY <4>2 DEF j
      <3> QED BY <3>1, <3>4, <3>5 DEF Asking, AskedFor
    <2>2. ASSUME y # x, AskedFor(todo, y) PROVE AskedFor(all, y)
      <3>1. PICK j \in DOMAIN todo : Asking(todo[j], y)
        BY <2>2 DEF AskedFor
      <3>2. j > 1
        BY <1>1, <2>2, <3>1 DEF Asking
      <3>3. j - 1 \in DOMAIN u /\ u[j - 1] = todo[j]
        BY <1>1, <3>2
      <3>4. PICK k \in DOMAIN u : Asking(u[k], y)
        BY <3>1, <3>3
      <3> QED BY <1>10, <3>4 DEF AskedFor
    <2> QED BY <2>1, <2>2
  <1>12. Deleting(c, all)
    <2>1. ASSUME NEW i \in DOMAIN kills
          PROVE  /\ kills[i].do = "delete" /\ kills[i].coll = todo[1].coll
                 /\ kills[i].coll = "sub_contracts" => InSpecsOf(c, "sub_contracts", kills[i].id)
      <3>1. x = "sub_contracts" => q[i] \in Held("sub_contracts") /\ q[i].of = c
        BY <1>8, <1>9
      <3> QED BY <1>9, <3>1, SubHome
    <2> QED BY <1>2, <2>1, QueryDeleting
  <1>13. Ordered(all)
    <2> SUFFICES ASSUME NEW i \in DOMAIN all, NEW j \in DOMAIN all, i < j, all[j].do = "query"
                 PROVE  all[i].coll # all[j].coll
      BY DEF Ordered
    <2>1. j - n \in DOMAIN u /\ all[j] = u[j - n] /\ j \notin 1..n
      BY <1>9, <1>10
    <2>2. (j - n) + 1 \in DOMAIN todo /\ all[j] = todo[(j - n) + 1] /\ (j - n) \in 1..Len(u)
      BY <1>1, <2>1, LenProperties
    <2>3. CASE i \in 1..n /\ all[i] = kills[i]
      <3>1. 1 < (j - n) + 1
        BY <2>2
      <3>2. todo[1].coll # todo[(j - n) + 1].coll
        BY <1>1, <1>2, <2>2, <3>1 DEF Ordered
      <3> QED BY <1>9, <2>2, <2>3, <3>2
    <2>4. CASE i - n \in DOMAIN u /\ all[i] = u[i - n]
      <3>1. (i - n) + 1 \in DOMAIN todo /\ all[i] = todo[(i - n) + 1]
        BY <1>1, <2>4
      <3>2. (i - n) + 1 < (j - n) + 1
        BY <1>8, <1>10
      <3> QED BY <1>2, <2>2, <3>1, <3>2 DEF Ordered
    <2> QED BY <1>10, <2>3, <2>4
  <1>14. \A i \in DOMAIN all : all[i].do = "delete" =>
             all[i].coll # "contracts" /\ \E d \in Hang(c, all[i].coll, B) : d.id = all[i].id
    <2> SUFFICES ASSUME NEW i \in DOMAIN all, all[i].do = "delete"
                 PROVE  all[i].coll # "contracts" /\ \E d \in Hang(c, all[i].coll, B) : d.id = all[i].id
      OBVIOUS
    <2>1. CASE i \in 1..n /\ all[i] = kills[i]
      BY <1>2, <1>6, <1>8, <1>9, <2>1
    <2>2. CASE i - n \in DOMAIN u /\ all[i] = u[i - n]
      <3>1. PICK j \in DOMAIN todo : all[i] = todo[j]
        BY <1>1, <2>2
      <3> QED BY <3>1 DEF DeletedTo
    <2> QED BY <1>10, <2>1, <2>2
  <1>15. GoneOne(c, B)'
    BY DEF DeletedTo, GoneOne
  <1>16. ~AskedFor(all, "sub_contracts") => more = Clauses_(c, B)
    <2>1. CASE x = "sub_contracts"
      <3>1. found = Subs(c, B)
        BY <1>6, <2>1 DEF Hang
      <3>2. \A d \in found : d.clause.form = "dict" \/ d.clause.ids = {}
        <4> SUFFICES ASSUME NEW d \in found PROVE d.clause.form = "dict" \/ d.clause.ids = {}
          OBVIOUS
        <4>1. PICK e \in Entries_ : e.doc.clause = d.clause
          BY <1>2, <1>4, <1>7 DEF BagsOk, Drawn
        <4> QED BY <4>1 DEF Neat, NeatSpec, Entries_
      <3>3. ClausesIn(found) = UNION {d.clause.ids : d \in found}
        BY <3>2 DEF ClausesIn
      <3> QED BY <2>1, <3>1, <3>3 DEF Clauses_
    <2>2. CASE x # "sub_contracts"
      BY <1>5, <2>2
    <2> QED BY <2>1, <2>2
  <1>17. ASSUME NEW y \in Collections, NEW i
         PROVE  /\ Stock(y, i)' = Stock(y, i)
                /\ Places(todo, y, i) <= Places(all, y, i)
                /\ Places(kills, y, i) <= Places(all, y, i)
                /\ {Stock(y, i), Places(todo, y, i), Places(all, y, i), Places(kills, y, i)} \subseteq Nat
    <2>1. Stock(y, i)' = Stock(y, i)
      BY DEF Stock, WithId, Held
    <2>2. Places(u, y, i) = Places(todo, y, i)
      BY PlacesTail
    <2>3. Places(kills, y, i) <= Places(all, y, i) /\ Places(u, y, i) <= Places(all, y, i)
      BY <1>1, PlacesConcat
    <2>4. {Stock(y, i), Places(todo, y, i), Places(all, y, i), Places(kills, y, i)} \subseteq Nat
      BY <1>10, StockFacts, PlacesFinite
    <2> QED BY <2>1, <2>2, <2>3, <2>4
  <1>18. ASSUME NEW d \in Hang(c, x, B) PROVE Stock(x, d.id) <= Places(kills, x, d.id)
    <2>1. WithId(x, d.id) \subseteq found
      BY <1>2, <1>4, <1>6, HangById DEF WithId
    <2>2. Stock(x, d.id) <= Cardinality({i \in 1..n : q[i].id = d.id})
      BY <1>2, <1>7, <2>1, ListedStock
    <2>3. Placed(kills, x, d.id) = {i \in 1..n : q[i].id = d.id}
      BY <1>9 DEF Placed
    <2> QED BY <2>2, <2>3 DEF Places
  <1> HIDE DEF x, u, all, n
  <1>19. ASSUME NEW y \in Collections \ {"contracts"} PROVE Losing(c, all, y, B)'
    <2>1. Losing(c, todo, y, B)
      BY DEF DeletedTo
    <2>2. docs'[y] = docs[y] /\ Held(y)' = Held(y)
      BY DEF Held
    <2>3. ASSUME ~AskedFor(all, y), NEW d \in Hang(c, y, B) PROVE Stock(y, d.id)' <= Places(all, y, d.id)
      <3> DEFINE s == Stock(y, d.id)  a == Places(all, y, d.id)
                 t == Places(todo, y, d.id)  k == Places(kills, y, d.id)
      <3>1. Stock(y, d.id)' = s /\ t <= a /\ k <= a /\ s \in Nat /\ a \in Nat /\ t \in Nat /\ k \in Nat
        BY <1>17
      <3>2. s <= t \/ s <= k
        <4>1. CASE y = x
          BY <1>18, <2>3, <4>1
        <4>2. CASE y # x
          BY <1>11, <2>1, <2>3, <4>2 DEF Losing
        <4> QED BY <4>1, <4>2
      <3> HIDE DEF s, a, t, k
      <3>3. Stock(y, d.id)' <= a
        BY <3>1, <3>2
      <3> QED BY <3>3 DEF a
    <2>4. AskedFor(all, y) => docs'[y] = B[y]
      BY <1>11, <2>1, <2>2 DEF Losing
    <2> QED BY <2>1, <2>2, <2>3, <2>4 DEF Losing
  <1>20. DeletedTo(c, all, more, B)'
    BY <1>12, <1>13, <1>14, <1>15, <1>16, <1>19 DEF DeletedTo
  <1> QED BY <1>20 DEF all, u

LEMMA NoPlaces == ASSUME NEW x, NEW id PROVE Places(<<>>, x, id) = 0
  <1>1. Placed(<<>>, x, id) = {}
    BY DEF Placed
  <1> QED BY <1>1, FS_EmptySet DEF Places

(* A finished create is a creation.                                        *)
LEMMA CreateDone ==
    ASSUME NEW B, NEW s \in Specs, CreatedTo(s, Len(s.docs), B)',
           docs' = [x \in Collections |-> docs'[x]]
    PROVE  docs' = [x \in Collections |->
              B[x] (+) SetToBag({s.docs[i].doc : i \in {j \in DOMAIN s.docs : s.docs[j].coll = x}})]
  <1> DEFINE n == Len(s.docs)
  <1>1. \A j \in DOMAIN s.docs : j <= n
    BY EntryFacts
  <1> HIDE DEF n
  <1>2. \A x : First(s, n, x) = {s.docs[i].doc : i \in {j \in DOMAIN s.docs : s.docs[j].coll = x}}
    BY <1>1 DEF First
  <1>3. \A x \in Collections : docs'[x] = B[x] (+) SetToBag(First(s, n, x))
    BY DEF CreatedTo, n
  <1>4. \A x \in Collections : docs'[x] =
            B[x] (+) SetToBag({s.docs[i].doc : i \in {j \in DOMAIN s.docs : s.docs[j].coll = x}})
    BY <1>2, <1>3
  <1> QED BY <1>4

(* What an update with some documents makes of a collection.               *)
Renewed(wanted, a, b) ==
    LET others(bag) == Atomic!Without(bag, {d \in BagToSet(bag) : \E e \in wanted : d.id = e.id})
    IN  /\ others(b) = others(a)
        /\ \A e \in wanted :
            /\ \E d \in BagToSet(b) : Atomic!SaysWhat(d, e)
            /\ {d \in BagToSet(a) : d.id = e.id} = {} => {d \in BagToSet(b) : d.id = e.id} = {e}

(* What the deletion of a contract makes of the store.                     *)
Dropped(c, B, C) ==
    \/ \E d \in BagToSet(B["contracts"]) :
         /\ d.id = c
         /\ C = [x \in Collections |-> IF x = "contracts" THEN B[x] (-) SetToBag({d})
                                       ELSE Atomic!Without(B[x], Hang(c, x, B))]
    \/ /\ \A d \in BagToSet(B["contracts"]) : d.id # c
       /\ C = [x \in Collections |-> Atomic!Without(B[x], Hang(c, x, B))]

LEMMA UpdateDone ==
    ASSUME NEW B, NEW s \in Specs, UpdatedTo(s, Len(s.docs), B)', BagsOk(B), HeldOk',
           NEW x \in Collections
    PROVE  Renewed({s.docs[i].doc : i \in {j \in DOMAIN s.docs : s.docs[j].coll = x}}, B[x], docs'[x])
  <1> DEFINE n == Len(s.docs)
             W == {s.docs[i].doc : i \in {j \in DOMAIN s.docs : s.docs[j].coll = x}}
             D == docs'[x]
  <1>1. \A j \in DOMAIN s.docs : j <= n
    BY EntryFacts
  <1> HIDE DEF n
  <1>2. First(s, n, x) = W
    BY <1>1 DEF First
  <1> HIDE DEF W
  <1>3. UpdatedIn(W, x, B)'
    BY <1>2 DEF UpdatedTo, n
  <1>4. /\ \A d : (\A e \in W : e.id # d.id) =>
              /\ d \in DOMAIN D <=> d \in DOMAIN B[x]
              /\ d \in DOMAIN D => D[d] = B[x][d]
        /\ \A e \in W : \E d \in DOMAIN D : SaysWhat(d, e)
        /\ \A e \in W : (\A d \in DOMAIN B[x] : d.id # e.id) => \A d \in DOMAIN D : d.id = e.id => d = e
    BY <1>3 DEF UpdatedIn, Held, BagToSet
  <1> HIDE DEF D
  <1>5. \A bag : Atomic!Without(bag, {d \in BagToSet(bag) : \E e \in W : d.id = e.id}) =
                 [d \in {f \in DOMAIN bag : \A e \in W : e.id # f.id} |-> bag[d]]
    <2> SUFFICES ASSUME NEW bag
                 PROVE  Atomic!Without(bag, {d \in BagToSet(bag) : \E e \in W : d.id = e.id}) =
                        [d \in {f \in DOMAIN bag : \A e \in W : e.id # f.id} |-> bag[d]]
      OBVIOUS
    <2> DEFINE G == {d \in BagToSet(bag) : \E e \in W : d.id = e.id}
               H == {f \in DOMAIN bag : \A e \in W : e.id # f.id}
    <2>1. BagToSet(bag) \ G = H
      BY DEF BagToSet
    <2> HIDE DEF G, H
    <2>2. Atomic!Without(bag, G) = [d \in H |-> bag[d]]
      BY <2>1 DEF Atomic!Without, Atomic!BagToSet, BagToSet
    <2> QED BY <2>2 DEF G, H
  <1>6. {f \in DOMAIN D : \A e \in W : e.id # f.id} = {f \in DOMAIN B[x] : \A e \in W : e.id # f.id}
    BY <1>4
  <1>7. \A f \in {g \in DOMAIN D : \A e \in W : e.id # g.id} : D[f] = B[x][f]
    BY <1>4
  <1>8. [d \in {f \in DOMAIN D : \A e \in W : e.id # f.id} |-> D[d]] =
        [d \in {f \in DOMAIN B[x] : \A e \in W : e.id # f.id} |-> B[x][d]]
    BY <1>6, <1>7
  <1>9. ASSUME NEW e \in W
        PROVE  /\ \E d \in DOMAIN D : Atomic!SaysWhat(d, e)
               /\ {d \in DOMAIN B[x] : d.id = e.id} = {} => {d \in DOMAIN D : d.id = e.id} = {e}
    <2>1. PICK d \in DOMAIN D : SaysWhat(d, e)
      BY <1>4
    <2>2. Atomic!SaysWhat(d, e) /\ d.id = e.id
      BY <2>1 DEF SaysWhat, Atomic!SaysWhat
    <2>3. {g \in DOMAIN B[x] : g.id = e.id} = {} => \A g \in DOMAIN D : g.id = e.id => g = e
      BY <1>4
    <2> QED BY <2>1, <2>2, <2>3
  <1>10. Renewed(W, B[x], D)
    BY <1>5, <1>8, <1>9 DEF Renewed, BagToSet
  <1> QED BY <1>10 DEF W, D

(* A finished deletion has left in a collection what hangs not on the      *)
(* contract.                                                               *)
LEMMA DeleteLeft ==
    ASSUME NEW B, BagsOk(B), HeldOk', NEW c, NEW cl, DeletedTo(c, <<>>, cl, B)',
           NEW x \in Collections \ {"contracts"}
    PROVE  docs'[x] = Atomic!Without(B[x], Hang(c, x, B))
  <1> DEFINE D == docs'[x]  H == Hang(c, x, B)
  <1>1. Losing(c, <<>>, x, B)' /\ ~AskedFor(<<>>, x)
    BY DEF DeletedTo, AskedFor
  <1>2. ASSUME NEW d \in H PROVE d \notin DOMAIN D
    <2>1. Stock(x, d.id)' <= Places(<<>>, x, d.id)
      BY <1>1 DEF Losing
    <2>2. Stock(x, d.id)' <= 0 /\ Stock(x, d.id)' \in Nat
      BY <2>1, NoPlaces, StockNext
    <2>3. WithId(x, d.id)' = {}
      BY <2>2, StockNext
    <2> QED BY <2>3 DEF WithId, Held, BagToSet
  <1>3. /\ DOMAIN D \subseteq DOMAIN B[x]
        /\ \A d \in DOMAIN B[x] \ H : d \in DOMAIN D /\ D[d] = B[x][d]
    BY <1>1 DEF Losing, Held, BagToSet
  <1>4. D = [d \in DOMAIN D |-> D[d]]
    <2>1. IsABag(D)
      BY DEF HeldOk
    <2> HIDE DEF D
    <2> QED BY <2>1 DEF IsABag
  <1>5. Atomic!Without(B[x], H) = [d \in DOMAIN B[x] \ H |-> B[x][d]]
    BY DEF Atomic!Without, Atomic!BagToSet, BagToSet
  <1> HIDE DEF D, H
  <1>6. DOMAIN D = DOMAIN B[x] \ H
    BY <1>2, <1>3
  <1>7. D = [d \in DOMAIN B[x] \ H |-> B[x][d]]
    BY <1>3, <1>4, <1>6
  <1> QED BY <1>5, <1>7 DEF D, H

LEMMA DeleteDone ==
    ASSUME NEW B, BagsOk(B), HeldOk', docs' = [x \in Collections |-> docs'[x]],
           NEW c, NEW cl, DeletedTo(c, <<>>, cl, B)'
    PROVE  Dropped(c, B, docs')
  <1>1. \A x \in Collections \ {"contracts"} : docs'[x] = Atomic!Without(B[x], Hang(c, x, B))
    BY DeleteLeft
  <1>2. CASE \E d \in DOMAIN B["contracts"] :
               d.id = c /\ docs'["contracts"] = B["contracts"] (-) SetToBag({d})
    <2>1. PICK d \in DOMAIN B["contracts"] :
             d.id = c /\ docs'["contracts"] = B["contracts"] (-) SetToBag({d})
      BY <1>2
    <2>2. \A x \in Collections : docs'[x] =
             IF x = "contracts" THEN B[x] (-) SetToBag({d}) ELSE Atomic!Without(B[x], Hang(c, x, B))
      BY <1>1, <2>1
    <2>3. docs' = [x \in Collections |->
             IF x = "contracts" THEN B[x] (-) SetToBag({d}) ELSE Atomic!Without(B[x], Hang(c, x, B))]
      BY <2>2
    <2> QED BY <2>1, <2>3 DEF Dropped, BagToSet
  <1>3. CASE (\A d \in DOMAIN B["contracts"] : d.id # c) /\ docs'["contracts"] = B["contracts"]
    <2>1. Atomic!Without(B["contracts"], Hang(c, "contracts", B)) = B["contracts"]
      <3> DEFINE C == B["contracts"]
      <3>1. Hang(c, "contracts", B) = {}
        BY DEF Hang
      <3>2. IsABag(C)
        BY DEF BagsOk, Collections
      <3> HIDE DEF C
      <3>3. C = [d \in DOMAIN C |-> C[d]]
        BY <3>2 DEF IsABag
      <3>4. DOMAIN C \ {} = DOMAIN C
        OBVIOUS
      <3>5. Atomic!Without(C, {}) = [d \in DOMAIN C |-> C[d]]
        BY <3>4 DEF Atomic!Without, Atomic!BagToSet, BagToSet
      <3> QED BY <3>1, <3>3, <3>5 DEF C
    <2>2. \A x \in Collections : docs'[x] = Atomic!Without(B[x], Hang(c, x, B))
      BY <1>1, <1>3, <2>1
    <2>3. docs' = [x \in Collections |-> Atomic!Without(B[x], Hang(c, x, B))]
      BY <2>2
    <2> QED BY <1>3, <2>3 DEF Dropped, BagToSet
  <1> QED BY <1>2, <1>3 DEF DeletedTo, GoneOne

LEMMA GoesOn ==
    ASSUME StoreTypes_, NEW w \in Workers, NEW calls, NEW clauses, Proceed(w, calls, clauses)
    PROVE  Goes(w, calls, clauses) /\ (calls # <<>> => request'[w] # Idle)
  <1>1. request[w] \in Requests_ /\ request \in [Workers -> Requests_]
    BY DEF StoreTypes_
  <1>2. request'[w] = IF calls = <<>> THEN Idle
                      ELSE [request[w] EXCEPT !.todo = calls, !.clauses = clauses]
    BY <1>1 DEF Proceed
  <1>3. CASE calls = <<>>
    BY <1>2, <1>3 DEF Goes
  <1>4. CASE calls # <<>>
    <2>1. request'[w] = [request[w] EXCEPT !.todo = calls, !.clauses = clauses]
      BY <1>2, <1>4
    <2>2. /\ request'[w].todo = calls /\ request'[w].clauses = clauses
          /\ request'[w].op = request[w].op /\ request'[w].contract = request[w].contract
      BY <1>1, <2>1 DEF Requests_
    <2>3. request'[w] # Idle
      BY <1>4, <2>2, IdleFacts
    <2> QED BY <1>4, <2>2, <2>3 DEF Goes
  <1> QED BY <1>3, <1>4

(* The request goes on with what is left, or has done what it is to do.    *)
Advance(w, r, todo, clauses, B) ==
    /\ Goes(w, todo, clauses) /\ (todo # <<>> => request'[w] # Idle)
    /\ todo = <<>> => Over(r, B)'
    /\ todo # <<>> => \A q :
          (q.op = r.op /\ q.contract = r.contract /\ q.todo = todo /\ q.clauses = clauses)
             => Progress(q, B)'

LEMMA ProgressNext ==
    ASSUME NEW q, NEW B
    PROVE  Progress(q, B)' <=>
    \/ /\ q.op = "create"
       /\ \E s \in Specs, k \in Nat :
             /\ Writing(s.contract, q.todo, s, k) /\ CreatedTo(s, k, B)'
             /\ \A i \in DOMAIN q.todo : q.todo[i].do = "insert"
    \/ /\ q.op = "update"
       /\ \E s \in Specs, k \in Nat :
             /\ Writing(s.contract, q.todo, s, k) /\ UpdatedTo(s, k, B)'
             /\ \A i \in DOMAIN q.todo : q.todo[i].do = "update"
    \/ /\ q.op = "delete" /\ q.contract \in Contracts
       /\ \/ q.todo = DeletePlan(q.contract) /\ docs' = B
          \/ DeletedTo(q.contract, q.todo, q.clauses, B)'
    \/ /\ q.op = "remove" /\ docs' = B
       /\ \E p \in Removable : q.todo = << Call("delete", p.coll, p.id, NoDoc) >>
  BY DEF Progress, Writing, DeletePlan

LEMMA CallAtHand ==
    ASSUME StoreTypes_, NEW w \in Workers, Calls(w), NEW r, r = request[w]
    PROVE  /\ request[w] # Idle /\ r.todo \in Seq(CallSet) /\ r.todo # <<>> /\ Task(w) = r.todo[1]
           /\ 1 \in DOMAIN r.todo /\ errors \in Nat /\ Tail(r.todo) \in Seq(CallSet)
           /\ Len(r.todo) \in Nat \ {0} /\ Len(Tail(r.todo)) = Len(r.todo) - 1
           /\ \A i \in DOMAIN Tail(r.todo) : \E j \in DOMAIN r.todo : Tail(r.todo)[i] = r.todo[j]
           /\ r.op \in Ops /\ r.op # "idle" /\ HeldOk
  <1> DEFINE todo == r.todo  u == Tail(todo)
  <1>1. request[w] # Idle /\ errors \in Nat /\ HeldOk
    BY DEF Calls, StoreTypes_
  <1>2. /\ todo \in Seq(CallSet) /\ todo # <<>> /\ Task(w) = todo[1]
        /\ Len(todo) \in Nat \ {0} /\ Len(u) = Len(todo) - 1
        /\ r.op \in Ops /\ r.op # "idle"
    BY <1>1, TaskFacts
  <1> QED BY <1>1, <1>2, TailMembers

LEMMA CreateCall ==
    ASSUME WellShaped, Neat, StoreTypes_, docs = [x \in Collections |-> docs[x]],
           NEW w \in Workers, Calls(w), errors' = errors, NEW r, r = request[w],
           NEW B, BagsOk(B), Progress(r, B), r.op = "create"
    PROVE  Advance(w, r, Tail(r.todo), r.clauses, B)
  <1> DEFINE todo == r.todo  u == Tail(todo)
  <1>1. /\ request[w] # Idle /\ todo \in Seq(CallSet) /\ todo # <<>> /\ Task(w) = todo[1]
        /\ 1 \in DOMAIN todo /\ errors \in Nat /\ u \in Seq(CallSet)
        /\ Len(todo) \in Nat \ {0} /\ Len(u) = Len(todo) - 1
        /\ \A i \in DOMAIN u : \E j \in DOMAIN todo : u[i] = todo[j]
    BY CallAtHand
  <1>2. PICK s \in Specs, k \in Nat :
           /\ Writing(s.contract, todo, s, k) /\ CreatedTo(s, k, B)
           /\ \A i \in DOMAIN todo : todo[i].do = "insert"
    BY DEF Progress
  <1>3. /\ k + 1 \in DOMAIN s.docs
        /\ todo[1].do = "insert" /\ todo[1].coll = s.docs[k + 1].coll
        /\ todo[1].doc = s.docs[k + 1].doc
        /\ u # <<>> => Writing(s.contract, u, s, k + 1)
    BY <1>1, <1>2, PopWriting
  <1>4. /\ docs' = [docs EXCEPT ![todo[1].coll] = @ (+) SetToBag({todo[1].doc})]
        /\ Proceed(w, u, r.clauses)
    <2> HIDE DEF todo
    <2>1. Insert(w)
      BY <1>1, <1>3 DEF Calls, Upsert, DeleteOne, Query, Fails
    <2>2. errors' # errors + 1
      BY <1>1
    <2> QED BY <1>1, <2>1, <2>2 DEF Insert, Proceeds, todo
  <1>5. CreatedTo(s, k + 1, B)'
    BY <1>2, <1>3, <1>4, InsertOn
  <1>6. Goes(w, u, r.clauses) /\ (u # <<>> => request'[w] # Idle)
    BY <1>4, GoesOn
  <1>7. ASSUME u = <<>> PROVE Over(r, B)'
    <2>1. Len(u) = 0
      BY <1>7
    <2> DEFINE n == Len(todo)  m == Len(s.docs)
    <2>2. n \in Nat /\ Len(u) = n - 1 /\ m \in Nat /\ n = m - k
      BY <1>1, <1>2, EntryFacts DEF Writing
    <2> HIDE DEF n, m, u, todo
    <2>3. k + 1 = m
      BY <2>1, <2>2
    <2> QED BY <1>5, <2>3 DEF Over, m
  <1>8. ASSUME u # <<>>
        PROVE  \A q :
                 (q.op = r.op /\ q.contract = r.contract /\ q.todo = u /\ q.clauses = r.clauses)
                    => Progress(q, B)'
    <2> SUFFICES ASSUME NEW q, q.op = r.op, q.contract = r.contract, q.todo = u
                 PROVE  Progress(q, B)'
      OBVIOUS
    <2>1. \A i \in DOMAIN u : u[i].do = "insert"
      BY <1>1, <1>2
    <2>2. k + 1 \in Nat
      OBVIOUS
    <2> HIDE DEF u
    <2> QED BY <1>3, <1>5, <1>8, <2>1, <2>2, ProgressNext
  <1> HIDE DEF u, todo
  <1>9. Advance(w, r, u, r.clauses, B)
    BY <1>6, <1>7, <1>8 DEF Advance
  <1> QED BY <1>9 DEF u, todo

LEMMA UpdateCall ==
    ASSUME WellShaped, Neat, StoreTypes_, docs = [x \in Collections |-> docs[x]],
           NEW w \in Workers, Calls(w), errors' = errors, NEW r, r = request[w],
           NEW B, BagsOk(B), Progress(r, B), r.op = "update"
    PROVE  Advance(w, r, Tail(r.todo), r.clauses, B)
  <1> DEFINE todo == r.todo  u == Tail(todo)
  <1>1. /\ request[w] # Idle /\ todo \in Seq(CallSet) /\ todo # <<>> /\ Task(w) = todo[1]
        /\ 1 \in DOMAIN todo /\ errors \in Nat /\ u \in Seq(CallSet)
        /\ Len(todo) \in Nat \ {0} /\ Len(u) = Len(todo) - 1
        /\ \A i \in DOMAIN u : \E j \in DOMAIN todo : u[i] = todo[j]
    BY CallAtHand
  <1>2. PICK s \in Specs, k \in Nat :
           /\ Writing(s.contract, todo, s, k) /\ UpdatedTo(s, k, B)
           /\ \A i \in DOMAIN todo : todo[i].do = "update"
    BY DEF Progress
  <1>3. /\ k + 1 \in DOMAIN s.docs
        /\ todo[1].do = "update" /\ todo[1].coll = s.docs[k + 1].coll
        /\ todo[1].doc = s.docs[k + 1].doc
        /\ u # <<>> => Writing(s.contract, u, s, k + 1)
    BY <1>1, <1>2, PopWriting
  <1>4. /\ \E bag \in Upserted(docs[todo[1].coll], todo[1].doc) :
              docs' = [docs EXCEPT ![todo[1].coll] = bag]
        /\ Proceed(w, u, r.clauses)
    <2> HIDE DEF todo
    <2>1. errors' # errors + 1
      BY <1>1
    <2>2. Upsert(w)
      BY <1>1, <1>3, <2>1 DEF Calls, Insert, DeleteOne, Query, Fails
    <2> QED BY <1>1, <2>2 DEF Upsert, Proceeds, todo
  <1>5. UpdatedTo(s, k + 1, B)'
    <2>1. HeldOk
      BY DEF StoreTypes_
    <2> QED BY <1>2, <1>3, <1>4, <2>1, UpsertOn
  <1>6. Goes(w, u, r.clauses) /\ (u # <<>> => request'[w] # Idle)
    BY <1>4, GoesOn
  <1>7. ASSUME u = <<>> PROVE Over(r, B)'
    <2>1. Len(u) = 0
      BY <1>7
    <2> DEFINE n == Len(todo)  m == Len(s.docs)
    <2>2. n \in Nat /\ Len(u) = n - 1 /\ m \in Nat /\ n = m - k
      BY <1>1, <1>2, EntryFacts DEF Writing
    <2> HIDE DEF n, m, u, todo
    <2>3. k + 1 = m
      BY <2>1, <2>2
    <2> QED BY <1>5, <2>3 DEF Over, m
  <1>8. ASSUME u # <<>>
        PROVE  \A q :
                 (q.op = r.op /\ q.contract = r.contract /\ q.todo = u /\ q.clauses = r.clauses)
                    => Progress(q, B)'
    <2> SUFFICES ASSUME NEW q, q.op = r.op, q.contract = r.contract, q.todo = u
                 PROVE  Progress(q, B)'
      OBVIOUS
    <2>1. \A i \in DOMAIN u : u[i].do = "update"
      BY <1>1, <1>2
    <2>2. k + 1 \in Nat
      OBVIOUS
    <2> HIDE DEF u
    <2> QED BY <1>3, <1>5, <1>8, <2>1, <2>2, ProgressNext
  <1> HIDE DEF u, todo
  <1>9. Advance(w, r, u, r.clauses, B)
    BY <1>6, <1>7, <1>8 DEF Advance
  <1> QED BY <1>9 DEF u, todo

LEMMA RemoveCall ==
    ASSUME WellShaped, Neat, StoreTypes_, docs = [x \in Collections |-> docs[x]],
           NEW w \in Workers, Calls(w), errors' = errors, NEW r, r = request[w],
           NEW B, BagsOk(B), Progress(r, B), r.op = "remove"
    PROVE  Advance(w, r, Tail(r.todo), r.clauses, B)
  <1> DEFINE todo == r.todo  u == Tail(todo)
  <1>1. Task(w) = todo[1] /\ errors \in Nat /\ Len(u) = Len(todo) - 1 /\ u \in Seq(CallSet)
    BY CallAtHand
  <1>2. docs = B
    BY DEF Progress
  <1>3. PICK p \in Removable : todo = << Call("delete", p.coll, p.id, NoDoc) >>
    BY DEF Progress
  <1>4. Len(todo) = 1 /\ todo[1].do = "delete" /\ todo[1].coll = p.coll /\ todo[1].id = p.id
    BY <1>3 DEF Call
  <1>5. u = <<>>
    <2>1. Len(u) = 0
      BY <1>1, <1>4
    <2> HIDE DEF u
    <2> QED BY <1>1, <2>1, EmptySeq
  <1>6. DeleteOne(w)
    <2> HIDE DEF todo
    <2>1. errors' # errors + 1
      BY <1>1
    <2> QED BY <1>1, <1>4, <2>1 DEF Calls, Insert, Upsert, Query, Fails
  <1> HIDE DEF u
  <1>7. Goes(w, u, r.clauses) /\ (u # <<>> => request'[w] # Idle)
    <2>1. Proceed(w, u, r.clauses)
      BY <1>6 DEF DeleteOne, Proceeds, u
    <2> QED BY <2>1, GoesOn
  <1>8. \/ \E d \in DOMAIN B[p.coll] :
              d.id = p.id /\ docs' = [B EXCEPT ![p.coll] = @ (-) SetToBag({d})]
        \/ (\A d \in DOMAIN B[p.coll] : d.id # p.id) /\ docs' = B
    <2> HIDE DEF todo
    <2>1. \/ \E d \in WithId(p.coll, p.id) :
                docs' = [docs EXCEPT ![p.coll] = @ (-) SetToBag({d})]
          \/ WithId(p.coll, p.id) = {} /\ docs' = docs
      <3>1. \/ \E d \in WithId(todo[1].coll, todo[1].id) :
                  docs' = [docs EXCEPT ![todo[1].coll] = @ (-) SetToBag({d})]
            \/ WithId(todo[1].coll, todo[1].id) = {} /\ docs' = docs
        BY <1>1, <1>6 DEF DeleteOne
      <3> QED BY <1>4, <3>1
    <2>2. WithId(p.coll, p.id) = {d \in DOMAIN B[p.coll] : d.id = p.id}
      BY <1>2 DEF WithId, Held, BagToSet
    <2> QED BY <1>2, <2>1, <2>2
  <1>9. Over(r, B)'
    BY <1>8 DEF Over
  <1>10. Advance(w, r, u, r.clauses, B)
    BY <1>5, <1>7, <1>9 DEF Advance
  <1> QED BY <1>10 DEF u, todo

LEMMA DeleteCall ==
    ASSUME WellShaped, Neat, StoreTypes_, docs = [x \in Collections |-> docs[x]],
           NEW w \in Workers, Calls(w), errors' = errors, NEW r, r = request[w],
           NEW B, BagsOk(B), Progress(r, B), r.op = "delete"
    PROVE  \E todo, clauses : Advance(w, r, todo, clauses, B)
  <1> DEFINE todo == r.todo  u == Tail(todo)  c == r.contract
  <1>1. /\ request[w] # Idle /\ todo \in Seq(CallSet) /\ todo # <<>> /\ Task(w) = todo[1]
        /\ errors \in Nat /\ "delete" \in Ops /\ HeldOk
    BY CallAtHand
  <1>2. /\ c \in Contracts
        /\ \/ todo = DeletePlan(c) /\ docs = B
           \/ DeletedTo(c, todo, r.clauses, B)
    BY DEF Progress
  <1>3. ASSUME NEW calls, NEW clauses, Proceed(w, calls, clauses), DeletedTo(c, calls, clauses, B)'
        PROVE  Advance(w, r, calls, clauses, B)
    <2>1. Goes(w, calls, clauses) /\ (calls # <<>> => request'[w] # Idle)
      BY <1>3, GoesOn
    <2>2. ASSUME calls = <<>> PROVE Over(r, B)'
      BY <1>2, <1>3, <2>2 DEF Over
    <2>3. ASSUME calls # <<>>
          PROVE  \A q : (q.op = r.op /\ q.contract = r.contract /\ q.todo = calls /\ q.clauses = clauses)
                           => Progress(q, B)'
      <3> SUFFICES ASSUME NEW q, q.op = r.op, q.contract = r.contract, q.todo = calls,
                          q.clauses = clauses
                   PROVE  Progress(q, B)'
        OBVIOUS
      <3>1. DeletedTo(q.contract, q.todo, q.clauses, B)'
        BY <1>3
      <3> QED BY <1>2, <3>1, ProgressNext
    <2> QED BY <2>1, <2>2, <2>3 DEF Advance
  <1>4. CASE todo[1].do = "delete"
    <2>1. /\ \/ \E d \in WithId(todo[1].coll, todo[1].id) :
                  docs' = [docs EXCEPT ![todo[1].coll] = @ (-) SetToBag({d})]
             \/ WithId(todo[1].coll, todo[1].id) = {} /\ docs' = docs
          /\ Proceed(w, u, r.clauses)
      <3> HIDE DEF todo
      <3>1. errors' # errors + 1
        BY <1>1
      <3>2. DeleteOne(w)
        BY <1>1, <1>4, <3>1 DEF Calls, Insert, Upsert, Query, Fails
      <3> QED BY <1>1, <3>2 DEF DeleteOne, Proceeds, todo
    <2>2. DeletedTo(c, u, r.clauses, B)'
      <3>1. CASE todo = DeletePlan(c) /\ docs = B
        <4>1. todo[1].coll = "contracts" /\ todo[1].id = c
          BY <3>1 DEF DeletePlan, Call
        <4>2. \/ \E d \in WithId("contracts", c) :
                  docs' = [docs EXCEPT !["contracts"] = @ (-) SetToBag({d})]
              \/ WithId("contracts", c) = {} /\ docs' = docs
          BY <2>1, <4>1
        <4>3. \A cl : DeletedTo(c, Tail(DeletePlan(c)), cl, B)'
          BY <1>1, <1>2, <3>1, <4>2, PlanOn
        <4> QED BY <3>1, <4>3
      <3>2. CASE DeletedTo(c, todo, r.clauses, B)
        <4> DEFINE cl == r.clauses
        <4> HIDE DEF todo, c, cl
        <4>1. DeletedTo(c, Tail(todo), cl, B)'
          BY <1>1, <1>2, <1>4, <2>1, <3>2, DeleteOn DEF cl
        <4> QED BY <4>1 DEF todo, c, cl
      <3> QED BY <1>2, <3>1, <3>2
    <2> QED BY <1>3, <2>1, <2>2
  <1>5. CASE todo[1].do = "query"
    <2> DEFINE x == todo[1].coll  found == Matches(w, x)
               more == IF x = "sub_contracts" THEN ClausesIn(found) ELSE r.clauses
    <2>1. Query(w)
      <3> HIDE DEF todo
      <3>1. errors' # errors + 1
        BY <1>1
      <3> QED BY <1>1, <1>5, <3>1 DEF Calls, Insert, Upsert, DeleteOne, Fails
    <2>2. docs' = docs
      BY <2>1 DEF Query
    <2>3. \E q \in Listed(x, found) : \E kills \in Seq(CallSet) :
             /\ Len(kills) = Len(q)
             /\ \A i \in 1..Len(q) : kills[i] = Call("delete", x, q[i].id, NoDoc)
             /\ Proceed(w, kills \o u, more)
      BY <1>1, <2>1, QueryFacts
    <2>4. PICK f, m : f = found /\ m = more
      OBVIOUS
    <2>5. PICK q \in Listed(x, f) : \E kills \in Seq(CallSet) :
             /\ Len(kills) = Len(q)
             /\ \A i \in 1..Len(q) : kills[i] = Call("delete", x, q[i].id, NoDoc)
             /\ Proceed(w, kills \o u, m)
      BY <2>3, <2>4
    <2>6. PICK kills \in Seq(CallSet) :
             /\ Len(kills) = Len(q)
             /\ \A i \in 1..Len(q) : kills[i] = Call("delete", x, q[i].id, NoDoc)
             /\ Proceed(w, kills \o u, m)
      BY <2>5
    <2>7. DeletedTo(c, todo, r.clauses, B)
      <3> SUFFICES ASSUME todo = DeletePlan(c) PROVE FALSE
        BY <1>2
      <3>1. todo[1].do = "delete"
        BY DEF DeletePlan, Call
      <3> QED BY <1>5, <3>1
    <2>8. DeletedTo(c, kills \o u, m, B)'
      <3> DEFINE cl == r.clauses
      <3>1. f = {d \in Held(x) : IF x = "sub_contracts" THEN d.of = c ELSE d.of \in cl}
        BY <2>4 DEF Matches
      <3>2. m = IF x = "sub_contracts" THEN ClausesIn(f) ELSE cl
        BY <2>4
      <3>3. DeletedTo(c, todo, cl, B)
        BY <2>7
      <3> HIDE DEF todo, c, cl
      <3> QED BY <1>1, <1>2, <1>5, <2>2, <2>6, <3>1, <3>2, <3>3, QueryOn
    <2> QED BY <1>3, <2>6, <2>8
  <1>6. todo[1].do \in {"delete", "query"}
    <2>1. CASE todo = DeletePlan(c)
      BY <2>1 DEF DeletePlan, Call
    <2>2. CASE DeletedTo(c, todo, r.clauses, B)
      <3>1. 1 \in DOMAIN todo
        BY CallAtHand
      <3> QED BY <2>2, <3>1 DEF DeletedTo, Deleting
    <2> QED BY <1>2, <2>1, <2>2
  <1> QED BY <1>4, <1>5, <1>6

LEMMA CallOn ==
    ASSUME WellShaped, Neat, StoreTypes_, docs = [x \in Collections |-> docs[x]],
           NEW w \in Workers, Calls(w), errors' = errors, NEW r, r = request[w],
           NEW B, BagsOk(B), Progress(r, B)
    PROVE  \E todo, clauses : Advance(w, r, todo, clauses, B)
  <1>1. CASE r.op = "create"
    <2>1. Advance(w, r, Tail(r.todo), r.clauses, B)
      BY <1>1, CreateCall
    <2> QED BY <2>1
  <1>2. CASE r.op = "update"
    <2>1. Advance(w, r, Tail(r.todo), r.clauses, B)
      BY <1>2, UpdateCall
    <2> QED BY <2>1
  <1>3. CASE r.op = "remove"
    <2>1. Advance(w, r, Tail(r.todo), r.clauses, B)
      BY <1>3, RemoveCall
    <2> QED BY <2>1
  <1>4. CASE r.op = "delete"
    BY <1>4, DeleteCall
  <1>5. r.op \in {"create", "update", "delete", "remove"}
    BY DEF Progress
  <1> QED BY <1>1, <1>2, <1>3, <1>4, <1>5

(* No step does anything but change collections.                           *)
LEMMA DocsStay ==
    ASSUME StoreTypes_, docs = [x \in Collections |-> docs[x]], NEW w \in Workers, StoreStep(w)
    PROVE  docs' = [x \in Collections |-> docs'[x]]
  <1>1. ASSUME NEW x, NEW bag, docs' = [docs EXCEPT ![x] = bag] PROVE docs' = [y \in Collections |-> docs'[y]]
    BY <1>1
  <1>2. docs' = docs \/ \E x, bag : docs' = [docs EXCEPT ![x] = bag]
    <2>1. CASE Insert(w)
      <3>1. docs' = docs \/ docs' = [docs EXCEPT ![Task(w).coll] =
                                        docs[Task(w).coll] (+) SetToBag({Task(w).doc})]
        BY <2>1 DEF Insert
      <3> QED BY <3>1
    <2>2. CASE Upsert(w)
      <3>1. \E bag \in Upserted(docs[Task(w).coll], Task(w).doc) :
               docs' = [docs EXCEPT ![Task(w).coll] = bag]
        BY <2>2 DEF Upsert
      <3> QED BY <3>1
    <2>3. CASE DeleteOne(w)
      <3>1. \/ \E d \in WithId(Task(w).coll, Task(w).id) : docs' = [docs EXCEPT ![Task(w).coll] =
                  docs[Task(w).coll] (-) SetToBag({d})]
            \/ docs' = docs
        BY <2>3 DEF DeleteOne
      <3> QED BY <3>1
    <2>4. CASE Query(w) \/ Fails(w)
      BY <2>4 DEF Query, Fails
    <2>5. ASSUME NEW op, NEW c, NEW calls, Begin(w, op, c, calls) PROVE docs' = docs
      BY <2>5 DEF Begin
    <2> QED BY <2>1, <2>2, <2>3, <2>4, <2>5 DEF StoreStep, Calls, Create, Update, Delete, Remove
  <1> QED BY <1>1, <1>2

(* A request that has just been taken has not begun.                       *)
LEMMA FirstNone ==
    ASSUME NEW s \in Specs, NEW x
    PROVE  First(s, 0, x) = {}
  <1>1. \A j \in DOMAIN s.docs : ~(j <= 0)
    BY EntryFacts
  <1> QED BY <1>1 DEF First

LEMMA TakenOn ==
    ASSUME WellShaped, StoreTypes_, NEW w \in Workers, StoreStep(w), ~Calls(w)
    PROVE  /\ request[w] = Idle /\ request'[w] # Idle
           /\ served' = served + 1 /\ docs' = docs /\ errors' = errors
           /\ \A v \in Workers \ {w} : request'[v] = request[v]
           /\ BagsOk(docs) => \A q, B : q = request'[w] /\ B = docs => Progress(q, B)'
  <1>1. ASSUME NEW op, NEW c \in Contracts \cup {"none"}, NEW calls \in Seq(CallSet), calls # <<>>,
               \A i \in DOMAIN calls : WriteOk(calls[i]), Begin(w, op, c, calls)
        PROVE  /\ request[w] = Idle /\ request'[w] # Idle
               /\ served' = served + 1 /\ docs' = docs /\ errors' = errors
               /\ \A v \in Workers \ {w} : request'[v] = request[v]
               /\ request'[w].op = op /\ request'[w].contract = c
               /\ request'[w].todo = calls /\ request'[w].clauses = {}
    <2>1. /\ request[w] = Idle /\ request'[w] # Idle
          /\ \A v \in Workers \ {w} : request'[v] = request[v]
          /\ request'[w].op = op /\ request'[w].contract = c
          /\ request'[w].todo = calls /\ request'[w].clauses = {}
      BY <1>1, BeginTypes
    <2>2. served' = served + 1 /\ docs' = docs /\ errors' = errors
      BY <1>1 DEF Begin
    <2> QED BY <2>1, <2>2
  <1>2. ASSUME NEW s \in Specs, NEW do \in {"insert", "update"}
        PROVE  Writing(s.contract, CallsFor(do, s), s, 0) /\ s.contract \in Contracts
               /\ \A i \in DOMAIN CallsFor(do, s) : CallsFor(do, s)[i].do = do
    <2> DEFINE calls == CallsFor(do, s)  n == Len(s.docs)
    <2>1. s.contract \in Contracts /\ n \in Nat \ {0} /\ DOMAIN s.docs = 1..n
      BY EntryFacts
    <2>2. calls = [i \in 1..n |-> Call(do, s.docs[i].coll, s.docs[i].doc.id, s.docs[i].doc)]
      BY <2>1 DEF CallsFor
    <2>3. Len(calls) = n /\ DOMAIN calls = 1..n
      <3>1. calls \in Seq(CallSet)
        BY PlanFacts
      <3> HIDE DEF calls, n
      <3> QED BY <2>1, <2>2, <3>1, LenProperties
    <2>4. \A i \in 1..n : calls[i] = Call(do, s.docs[i].coll, s.docs[i].doc.id, s.docs[i].doc)
      BY <2>2
    <2>5. \A i \in 1..n : 0 + i = i
      BY <2>1
    <2> HIDE DEF calls, n
    <2>6. 0 \in 0..(n - 1) /\ n - 0 = n
      BY <2>1
    <2>8. \A i \in 1..n : /\ calls[i].do \in {"insert", "update"}
                           /\ calls[i].coll = s.docs[0 + i].coll
                           /\ calls[i].doc = s.docs[0 + i].doc
                           /\ calls[i].id = s.docs[0 + i].doc.id
      <3> SUFFICES ASSUME NEW i \in 1..n
                   PROVE  /\ calls[i].do \in {"insert", "update"}
                          /\ calls[i].coll = s.docs[0 + i].coll
                          /\ calls[i].doc = s.docs[0 + i].doc
                          /\ calls[i].id = s.docs[0 + i].doc.id
        OBVIOUS
      <3>1. 0 + i = i
        BY <2>5
      <3>2. /\ calls[i].do \in {"insert", "update"} /\ calls[i].coll = s.docs[i].coll
            /\ calls[i].doc = s.docs[i].doc /\ calls[i].id = s.docs[i].doc.id
        <4> DEFINE y == s.docs[i]  g == calls[i]
        <4>1. g = Call(do, y.coll, y.doc.id, y.doc)
          BY <2>4
        <4> HIDE DEF y, g
        <4>2. g.do = do /\ g.coll = y.coll /\ g.doc = y.doc /\ g.id = y.doc.id
          BY <4>1 DEF Call
        <4> QED BY <4>2 DEF y, g
      <3> QED BY <3>1, <3>2
    <2>7. Writing(s.contract, calls, s, 0)
      BY <2>3, <2>6, <2>8 DEF Writing, n
    <2> QED BY <2>1, <2>3, <2>4, <2>7 DEF Call, calls
  <1>3. ASSUME NEW s \in Specs, Create(w, s)
        PROVE  /\ Begin(w, "create", s.contract, CallsFor("insert", s))
               /\ BagsOk(docs) /\ docs' = docs => \A B : B = docs => CreatedTo(s, 0, B)'
    <2>1. Begin(w, "create", s.contract, CallsFor("insert", s))
      BY <1>3 DEF Create
    <2>2. ASSUME BagsOk(docs), docs' = docs, NEW B, B = docs PROVE CreatedTo(s, 0, B)'
      BY <2>2, FirstNone, BagOfNone DEF BagsOk, CreatedTo
    <2> QED BY <2>1, <2>2
  <1>4. ASSUME NEW s \in Specs, Update(w, s)
        PROVE  /\ Begin(w, "update", s.contract, CallsFor("update", s))
               /\ docs' = docs => \A B : B = docs => UpdatedTo(s, 0, B)'
    <2>1. Begin(w, "update", s.contract, CallsFor("update", s))
      BY <1>4 DEF Update
    <2>2. ASSUME docs' = docs, NEW B, B = docs PROVE UpdatedTo(s, 0, B)'
      BY <2>2, FirstNone DEF UpdatedTo, UpdatedIn, Held, BagToSet
    <2> QED BY <2>1, <2>2
  <1> DEFINE Goal == /\ request[w] = Idle /\ request'[w] # Idle
                     /\ served' = served + 1 /\ docs' = docs /\ errors' = errors
                     /\ \A v \in Workers \ {w} : request'[v] = request[v]
                     /\ BagsOk(docs) => \A q, B : q = request'[w] /\ B = docs => Progress(q, B)'
  <1>5. ASSUME NEW s \in Specs, Create(w, s) PROVE Goal
    <2> DEFINE calls == CallsFor("insert", s)
    <2>1. Begin(w, "create", s.contract, calls) /\ s.contract \in Contracts
      BY <1>2, <1>3, <1>5
    <2>2. calls \in Seq(CallSet) /\ calls # <<>> /\ \A i \in DOMAIN calls : WriteOk(calls[i])
      BY PlanFacts
    <2>3. Writing(s.contract, calls, s, 0) /\ \A i \in DOMAIN calls : calls[i].do = "insert"
      BY <1>2
    <2> HIDE DEF calls
    <2>4. /\ request[w] = Idle /\ request'[w] # Idle
          /\ served' = served + 1 /\ docs' = docs /\ errors' = errors
          /\ \A v \in Workers \ {w} : request'[v] = request[v]
          /\ request'[w].op = "create" /\ request'[w].todo = calls
      BY <1>1, <2>1, <2>2
    <2>5. ASSUME BagsOk(docs), NEW q, NEW B, q = request'[w], B = docs PROVE Progress(q, B)'
      <3>1. CreatedTo(s, 0, B)'
        BY <1>3, <1>5, <2>4, <2>5
      <3>2. q.op = "create" /\ q.todo = calls /\ 0 \in Nat
        BY <2>4, <2>5
      <3> QED BY <2>3, <3>1, <3>2, ProgressNext
    <2> QED BY <2>4, <2>5
  <1>6. ASSUME NEW s \in Specs, Update(w, s) PROVE Goal
    <2> DEFINE calls == CallsFor("update", s)
    <2>1. Begin(w, "update", s.contract, calls) /\ s.contract \in Contracts
      BY <1>2, <1>4, <1>6
    <2>2. calls \in Seq(CallSet) /\ calls # <<>> /\ \A i \in DOMAIN calls : WriteOk(calls[i])
      BY PlanFacts
    <2>3. Writing(s.contract, calls, s, 0) /\ \A i \in DOMAIN calls : calls[i].do = "update"
      BY <1>2
    <2> HIDE DEF calls
    <2>4. /\ request[w] = Idle /\ request'[w] # Idle
          /\ served' = served + 1 /\ docs' = docs /\ errors' = errors
          /\ \A v \in Workers \ {w} : request'[v] = request[v]
          /\ request'[w].op = "update" /\ request'[w].todo = calls
      BY <1>1, <2>1, <2>2
    <2>5. ASSUME BagsOk(docs), NEW q, NEW B, q = request'[w], B = docs PROVE Progress(q, B)'
      <3>1. UpdatedTo(s, 0, B)'
        BY <1>4, <1>6, <2>4, <2>5
      <3>2. q.op = "update" /\ q.todo = calls /\ 0 \in Nat
        BY <2>4, <2>5
      <3> QED BY <2>3, <3>1, <3>2, ProgressNext
    <2> QED BY <2>4, <2>5
  <1>7. ASSUME NEW c \in Contracts, Delete(w, c) PROVE Goal
    <2>1. Begin(w, "delete", c, DeletePlan(c))
      BY <1>7 DEF Delete
    <2>2. /\ DeletePlan(c) \in Seq(CallSet) /\ DeletePlan(c) # <<>>
          /\ \A i \in DOMAIN DeletePlan(c) : WriteOk(DeletePlan(c)[i])
      BY PlanFacts
    <2>3. /\ request[w] = Idle /\ request'[w] # Idle
          /\ served' = served + 1 /\ docs' = docs /\ errors' = errors
          /\ \A v \in Workers \ {w} : request'[v] = request[v]
          /\ request'[w].op = "delete" /\ request'[w].contract = c
          /\ request'[w].todo = DeletePlan(c)
      BY <1>1, <2>1, <2>2
    <2>4. ASSUME NEW q, NEW B, q = request'[w], B = docs PROVE Progress(q, B)'
      BY <2>3, <2>4, ProgressNext
    <2> QED BY <2>3, <2>4
  <1>8. ASSUME NEW p \in Removable, Remove(w, p) PROVE Goal
    <2> DEFINE calls == << Call("delete", p.coll, p.id, NoDoc) >>
    <2>1. Begin(w, "remove", "none", calls)
      BY <1>8 DEF Remove
    <2>2. calls \in Seq(CallSet) /\ calls # <<>> /\ \A i \in DOMAIN calls : WriteOk(calls[i])
      BY PlanFacts
    <2> HIDE DEF calls
    <2>3. /\ request[w] = Idle /\ request'[w] # Idle
          /\ served' = served + 1 /\ docs' = docs /\ errors' = errors
          /\ \A v \in Workers \ {w} : request'[v] = request[v]
          /\ request'[w].op = "remove" /\ request'[w].todo = calls
      BY <1>1, <2>1, <2>2
    <2>4. ASSUME NEW q, NEW B, q = request'[w], B = docs PROVE Progress(q, B)'
      BY <2>3, <2>4, ProgressNext DEF calls
    <2> QED BY <2>3, <2>4
  <1> HIDE DEF Goal
  <1>9. Goal
    BY <1>5, <1>6, <1>7, <1>8 DEF StoreStep
  <1> QED BY <1>9 DEF Goal

(* The abstract store counts its bags as the store does.                   *)
LEMMA SameBags ==
    /\ \A S : Atomic!SetToBag(S) = SetToBag(S)
    /\ \A a, b : Atomic!(+)(a, b) = a (+) b
    /\ \A a, b : Atomic!(-)(a, b) = a (-) b
    /\ \A a : Atomic!BagToSet(a) = BagToSet(a)
  <1>1. \A S : Atomic!SetToBag(S) = SetToBag(S)
    BY DEF Atomic!SetToBag, SetToBag
  <1>2. \A a, b : Atomic!(+)(a, b) = a (+) b
    BY DEF Atomic!(+), (+), Atomic!BagToSet, BagToSet
  <1>3. \A a, b : Atomic!(-)(a, b) = a (-) b
    BY DEF Atomic!(-), (-), Atomic!BagToSet, BagToSet
  <1> QED BY <1>1, <1>2, <1>3 DEF Atomic!BagToSet, BagToSet

(* What is done is one step of the store in which it happens at once.      *)
LEMMA CreatedIsAtomic ==
    ASSUME NEW B, B = before.docs, before'.docs = docs', docs' = [x \in Collections |-> docs'[x]],
           NEW s \in Specs, CreatedTo(s, Len(s.docs), B)'
    PROVE  Atomic!Created(s)
  <1> DEFINE N(x) == {s.docs[i].doc : i \in {j \in DOMAIN s.docs : s.docs[j].coll = x}}
  <1>1. docs' = [x \in Collections |-> B[x] (+) SetToBag(N(x))]
    BY CreateDone
  <1> HIDE DEF N
  <1>2. \A x : Atomic!(+)(B[x], Atomic!SetToBag(N(x))) = B[x] (+) SetToBag(N(x))
    BY SameBags
  <1>3. Atomic!Collections = Collections
    BY DEF Atomic!Collections, Collections, Kinds
  <1>4. before'.docs = [x \in Atomic!Collections |-> Atomic!(+)(before.docs[x], Atomic!SetToBag(N(x)))]
    BY <1>1, <1>2, <1>3
  <1> USE DEF N
  <1> QED BY <1>4 DEF Atomic!Created

LEMMA UpdatedIsAtomic ==
    ASSUME NEW B, B = before.docs, before'.docs = docs', BagsOk(B), HeldOk',
           NEW s \in Specs, UpdatedTo(s, Len(s.docs), B)'
    PROVE  Atomic!Updated(s)
  <1>1. \A x \in Collections :
           Renewed({s.docs[i].doc : i \in {j \in DOMAIN s.docs : s.docs[j].coll = x}}, B[x], docs'[x])
    BY UpdateDone
  <1>2. \A x \in Atomic!Collections :
           Renewed({s.docs[i].doc : i \in {j \in DOMAIN s.docs : s.docs[j].coll = x}},
                   before.docs[x], before'.docs[x])
    BY <1>1 DEF Atomic!Collections, Collections, Kinds
  <1> QED BY <1>2 DEF Renewed, Atomic!Updated, Atomic!BagToSet, BagToSet

LEMMA DeletedIsAtomic ==
    ASSUME NEW B, B = before.docs, before'.docs = docs', docs' = [x \in Collections |-> docs'[x]],
           BagsOk(B), HeldOk', NEW c, NEW cl, DeletedTo(c, <<>>, cl, B)'
    PROVE  Atomic!Deleted(c)
  <1> DEFINE H == [x \in Collections |->
                CASE x = "contracts" -> {}
                  [] x = "sub_contracts" -> Subs(c, B)
                  [] OTHER -> {d \in DOMAIN B[x] : d.of \in Clauses_(c, B)}]
  <1>1. Dropped(c, B, docs')
    BY DeleteDone
  <1>2. \A x \in Collections : H[x] = Hang(c, x, B)
    BY DEF Hang
  <1> HIDE DEF H
  <1>3. Atomic!Collections = Collections
    BY DEF Atomic!Collections, Collections, Kinds
  <1>4. ASSUME NEW d \in DOMAIN B["contracts"],
               docs' = [x \in Collections |->
                         IF x = "contracts" THEN B[x] (-) SetToBag({d})
                         ELSE Atomic!Without(B[x], Hang(c, x, B))]
        PROVE  before'.docs = [x \in Atomic!Collections |->
                         IF x = "contracts" THEN Atomic!(-)(before.docs[x], Atomic!SetToBag({d}))
                         ELSE Atomic!Without(before.docs[x], H[x])]
    <2>1. \A x : Atomic!(-)(B[x], Atomic!SetToBag({d})) = B[x] (-) SetToBag({d})
      BY SameBags
    <2> QED BY <1>2, <1>3, <1>4, <2>1
  <1>5. ASSUME docs' = [x \in Collections |-> Atomic!Without(B[x], Hang(c, x, B))]
        PROVE  before'.docs = [x \in Atomic!Collections |-> Atomic!Without(before.docs[x], H[x])]
    BY <1>2, <1>3, <1>5
  <1>6. \/ \E d \in Atomic!BagToSet(before.docs["contracts"]) :
             /\ d.id = c
             /\ before'.docs = [x \in Atomic!Collections |->
                    IF x = "contracts" THEN Atomic!(-)(before.docs[x], Atomic!SetToBag({d}))
                    ELSE Atomic!Without(before.docs[x], H[x])]
        \/ /\ \A d \in Atomic!BagToSet(before.docs["contracts"]) : d.id # c
           /\ before'.docs = [x \in Atomic!Collections |-> Atomic!Without(before.docs[x], H[x])]
    BY <1>1, <1>4, <1>5 DEF Dropped, BagToSet, Atomic!BagToSet
  <1> USE DEF H
  <1>7. H = [x \in Atomic!Collections |->
                CASE x = "contracts" -> {}
                  [] x = "sub_contracts" -> {d \in Atomic!BagToSet(before.docs["sub_contracts"]) : d.of = c}
                  [] OTHER -> {d \in Atomic!BagToSet(before.docs[x]) :
                       d.of \in UNION {d_.clause.ids :
                          d_ \in {d_ \in Atomic!BagToSet(before.docs["sub_contracts"]) : d_.of = c}}}]
    BY <1>3 DEF Subs, Clauses_, Atomic!BagToSet
  <1> HIDE DEF H
  <1> QED BY <1>6, <1>7 DEF Atomic!Deleted

LEMMA OverIsAtomic ==
    ASSUME HeldOk', docs' = [x \in Collections |-> docs'[x]], NEW B, BagsOk(B), B = before.docs,
           before'.docs = docs', NEW r, Over(r, B)'
    PROVE  Atomic!AtomicNext
  <1>1. ASSUME NEW s \in Specs, CreatedTo(s, Len(s.docs), B)' PROVE Atomic!Created(s)
    BY <1>1, CreatedIsAtomic
  <1>2. ASSUME NEW s \in Specs, UpdatedTo(s, Len(s.docs), B)' PROVE Atomic!Updated(s)
    BY <1>2, UpdatedIsAtomic
  <1>3. ASSUME NEW c \in Contracts, NEW cl, DeletedTo(c, <<>>, cl, B)' PROVE Atomic!Deleted(c)
    BY <1>3, DeletedIsAtomic
  <1>4. ASSUME NEW q \in Removable,
               \/ \E d \in DOMAIN B[q.coll] :
                     d.id = q.id /\ docs' = [B EXCEPT ![q.coll] = @ (-) SetToBag({d})]
               \/ (\A d \in DOMAIN B[q.coll] : d.id # q.id) /\ docs' = B
        PROVE  Atomic!Removed(q)
    <2>1. \A d : Atomic!(-)(B[q.coll], Atomic!SetToBag({d})) = B[q.coll] (-) SetToBag({d})
      BY SameBags
    <2>2. \/ \E d \in DOMAIN B[q.coll] :
                d.id = q.id
                /\ docs' = [B EXCEPT ![q.coll] = Atomic!(-)(B[q.coll], Atomic!SetToBag({d}))]
          \/ (\A d \in DOMAIN B[q.coll] : d.id # q.id) /\ docs' = B
      BY <1>4, <2>1
    <2> QED BY <2>2 DEF Atomic!Removed, Atomic!BagToSet
  <1> QED BY <1>1, <1>2, <1>3, <1>4 DEF Over, Atomic!AtomicNext

LEMMA AloneStarts == StoreInit => Alone
  <1> SUFFICES ASSUME StoreInit PROVE Alone
    OBVIOUS
  <1>1. /\ docs = [x \in Collections |-> EmptyBag] /\ before.docs = docs
        /\ before.served = 0 /\ before.errors = 0 /\ served = 0 /\ errors = 0
        /\ \A w \in Workers : request[w] = Idle
    BY DEF StoreInit, Snapshot
  <1>2. docs = [x \in Collections |-> docs[x]]
    BY <1>1
  <1>3. BagsOk(before.docs)
    <2>1. /\ IsABag(EmptyBag) /\ DOMAIN EmptyBag = {}
      BY DEF EmptyBag, IsABag, SetToBag
    <2>2. IsFiniteSet({})
      BY FS_EmptySet
    <2> QED BY <1>1, <2>1, <2>2 DEF BagsOk
  <1>4. Quiet /\ Asked = {}
    BY <1>1 DEF Quiet, Asked
  <1> QED BY <1>1, <1>2, <1>3, <1>4 DEF Alone

(* The parts of a step that ends with no request under way.                *)
LEMMA AloneQuiet ==
    ASSUME StoreTypes_', docs' = [x \in Collections |-> docs'[x]], Quiet', before' = Snapshot'
    PROVE  Alone'
  <1>1. before'.docs = docs' /\ before'.served = served' /\ before'.errors = errors'
    BY DEF Snapshot
  <1>2. served' \in Nat /\ errors' \in Nat /\ HeldOk'
    BY ContractStoreConstants DEF StoreTypes_
  <1>3. BagsOk(before.docs)'
    BY <1>1, <1>2 DEF BagsOk, HeldOk
  <1>4. ~(served' = served' + 1) /\ errors' <= errors'
    BY <1>2
  <1> QED BY <1>1, <1>2, <1>3, <1>4 DEF Alone

LEMMA AloneStays ==
    ASSUME WellShaped, Neat, StoreTypes_, StoreTypes_', Alone, NEW w \in Workers, StoreStep(w),
           before' = IF Quiet' THEN Snapshot' ELSE before
    PROVE  Alone' /\ (before' # before /\ Undisturbed => Atomic!AtomicNext)
  <1> DEFINE S == before.served  E == before.errors
  <1>0. /\ docs = [x \in Collections |-> docs[x]] /\ BagsOk(before.docs)
        /\ S \in Nat /\ E \in Nat /\ E <= errors
        /\ Quiet => docs = before.docs /\ served = S /\ errors = E
        /\ ~Quiet => served > S
        /\ served = S + 1 => \A v \in Asked :
              /\ \A u \in Asked : u = v
              /\ errors = E => Progress(request[v], before.docs)
    BY DEF Alone
  <1>1. docs' = [x \in Collections |-> docs'[x]]
    BY <1>0, DocsStay
  <1>2. served \in Nat /\ errors \in Nat /\ served' \in Nat /\ errors' \in Nat
    BY ContractStoreConstants DEF StoreTypes_
  <1>3. CASE ~Calls(w)
    <2>1. /\ request[w] = Idle /\ request'[w] # Idle
          /\ served' = served + 1 /\ docs' = docs /\ errors' = errors
          /\ \A v \in Workers \ {w} : request'[v] = request[v]
          /\ BagsOk(docs) => \A q, B : q = request'[w] /\ B = docs => Progress(q, B)'
      BY <1>3, TakenOn
    <2>2. ~Quiet' /\ before' = before
      BY <2>1 DEF Quiet
    <2>3. served' > S
      BY <1>0, <1>2, <2>1
    <2>4. ASSUME served' = S + 1, NEW v \in Asked'
          PROVE  /\ \A u \in Asked' : u = v
                 /\ Progress(request[v], before.docs)'
      <3>1. Quiet
        BY <1>0, <1>2, <2>1, <2>4
      <3>2. \A u \in Asked' : u = w
        BY <2>1, <3>1 DEF Asked, Quiet
      <3>3. Progress(request[w], before.docs)'
        BY <1>0, <2>1, <2>2, <3>1
      <3> QED BY <2>4, <3>2, <3>3
    <2>5. Alone'
      BY <1>0, <1>1, <2>1, <2>2, <2>3, <2>4 DEF Alone
    <2> QED BY <2>2, <2>5
  <1>4. CASE Calls(w)
    <2>1. /\ request[w] # Idle /\ served' = served
          /\ errors' \in {errors, errors + 1}
          /\ \A v \in Workers \ {w} : request'[v] = request[v]
      BY <1>4, CallCases DEF Calls
    <2>2. ~Quiet /\ served > S /\ w \in Asked
      BY <1>0, <2>1 DEF Quiet, Asked
    <2>3. PICK r, B : r = request[w] /\ B = before.docs
      OBVIOUS
    <2>4. ASSUME served = S + 1, errors' = E
          PROVE  /\ \A v \in Asked : v = w
                 /\ \E todo, clauses : Advance(w, r, todo, clauses, B)
      <3>1. errors' = errors /\ errors = E
        BY <1>0, <1>2, <2>1, <2>4
      <3>2. Progress(r, B) /\ BagsOk(B) /\ \A v \in Asked : v = w
        BY <1>0, <2>2, <2>3, <2>4, <3>1
      <3> QED BY <1>0, <1>4, <2>3, <3>1, <3>2, CallOn
    <2>5. CASE ~Quiet'
      <3>1. before' = before
        BY <2>5
      <3>2. ASSUME served' = S + 1, NEW v \in Asked'
            PROVE  /\ \A u \in Asked' : u = v
                   /\ errors' = E => Progress(request[v], before.docs)'
        <4>1. \A u \in Asked : u = w
          BY <1>0, <2>1, <2>2, <3>2
        <4>2. \A u \in Asked' : u = w
          BY <2>1, <4>1 DEF Asked
        <4>3. ASSUME errors' = E PROVE Progress(request[w], before.docs)'
          <5>1. PICK todo, clauses : Advance(w, r, todo, clauses, B)
            BY <2>1, <2>4, <3>2, <4>3
          <5>2. request'[w] # Idle
            BY <3>2, <4>2 DEF Asked
          <5>3. /\ request'[w].op = r.op /\ request'[w].contract = r.contract
                /\ request'[w].todo = todo /\ request'[w].clauses = clauses /\ todo # <<>>
            BY <2>3, <5>1, <5>2 DEF Advance, Goes
          <5>4. \A q : q = request'[w] => Progress(q, B)'
            BY <5>1, <5>3 DEF Advance
          <5> QED BY <2>3, <3>1, <5>4
        <4> QED BY <3>2, <4>2, <4>3
      <3>3. E <= errors'
        BY <1>0, <1>2, <2>1
      <3>4. Alone'
        BY <1>0, <1>1, <2>1, <2>2, <2>5, <3>1, <3>2, <3>3 DEF Alone
      <3> QED BY <3>1, <3>4
    <2>6. CASE Quiet'
      <3>1. before' = Snapshot' /\ before'.docs = docs' /\ before'.served = served'
            /\ before'.errors = errors'
        BY <2>6 DEF Snapshot
      <3>2. Alone'
        BY <1>1, <2>6, <3>1, AloneQuiet
      <3>3. ASSUME Undisturbed PROVE Atomic!AtomicNext
        <4>1. served = S + 1 /\ errors' = E
          BY <2>1, <3>1, <3>3 DEF Undisturbed
        <4>2. PICK todo, clauses : Advance(w, r, todo, clauses, B)
          BY <2>4, <4>1
        <4>3. todo = <<>>
          BY <2>6, <4>2 DEF Advance, Quiet
        <4>4. Over(r, B)'
          BY <4>2, <4>3 DEF Advance
        <4>5. HeldOk' /\ BagsOk(B)
          BY <1>0, <2>3 DEF StoreTypes_
        <4> QED BY <1>1, <2>3, <3>1, <4>4, <4>5, OverIsAtomic
      <3> QED BY <3>2, <3>3
    <2> QED BY <2>5, <2>6
  <1> QED BY <1>3, <1>4

LEMMA AloneStill == Alone /\ UNCHANGED storeVars => Alone'
  <1> SUFFICES ASSUME Alone, UNCHANGED storeVars PROVE Alone'
    OBVIOUS
  <1>1. /\ docs' = docs /\ request' = request /\ served' = served /\ errors' = errors
        /\ before' = before
    BY DEF storeVars
  <1>2. Quiet' = Quiet /\ Asked' = Asked
    BY <1>1 DEF Quiet, Asked
  <1>3. BagsOk(before.docs)' = BagsOk(before.docs)
    BY <1>1 DEF BagsOk
  <1>4. ASSUME NEW w \in Asked, Progress(request[w], before.docs)
        PROVE  Progress(request[w], before.docs)'
    <2>1. PICK r, B : r = request[w] /\ B = before.docs /\ Progress(r, B)
      BY <1>4
    <2>2. \A s \in Specs, k \in Nat : CreatedTo(s, k, B) => CreatedTo(s, k, B)'
      BY <1>1 DEF CreatedTo
    <2>3. \A s \in Specs, k \in Nat : UpdatedTo(s, k, B) => UpdatedTo(s, k, B)'
      BY <1>1 DEF UpdatedTo, UpdatedIn, Held
    <2>4. DeletedTo(r.contract, r.todo, r.clauses, B) => DeletedTo(r.contract, r.todo, r.clauses, B)'
      <3>1. \A x, id : Stock(x, id)' = Stock(x, id)
        BY <1>1 DEF Stock, WithId, Held
      <3>2. \A x : Losing(r.contract, r.todo, x, B) => Losing(r.contract, r.todo, x, B)'
        BY <1>1, <3>1 DEF Losing, Held
      <3>3. GoneOne(r.contract, B) => GoneOne(r.contract, B)'
        BY <1>1 DEF GoneOne
      <3> QED BY <3>2, <3>3 DEF DeletedTo
    <2>5. Progress(r, B)'
      BY <1>1, <2>1, <2>2, <2>3, <2>4 DEF Progress
    <2> QED BY <1>1, <2>1, <2>5
  <1> QED BY <1>1, <1>2, <1>3, <1>4 DEF Alone

(* A request that no other overlaps, none of whose calls fails and none of *)
(* whose documents is refused is one step of the abstract store, in which  *)
(* a create, an update, a deletion and a removal (ContractManager) happen  *)
(* at once: provided that specifications keep to one shape, name a         *)
(* document once and, if contracts are deleted, have no lists of clauses.  *)
THEOREM OperationsAreAtomic ==
    ASSUME WellShaped, Neat
    PROVE  StoreSpec => IsAtomicContracts
  <1>1. StoreInit => Alone /\ StoreTypes_ /\ Atomic!AtomicInit
    <2>1. StoreInit => before.docs = [x \in Collections |-> EmptyBag]
      BY DEF StoreInit, Snapshot
    <2>2. Atomic!EmptyBag = EmptyBag
      BY DEF Atomic!EmptyBag, EmptyBag, Atomic!SetToBag, SetToBag
    <2>3. Atomic!Collections = Collections
      BY DEF Atomic!Collections, Collections, Kinds
    <2>4. StoreInit => Atomic!AtomicInit
      BY <2>1, <2>2, <2>3 DEF Atomic!AtomicInit
    <2> QED BY <2>4, AloneStarts, StoreStarts
  <1>2. StoreTypes_ /\ Alone /\ [StoreNext]_storeVars =>
            /\ StoreTypes_' /\ Alone'
            /\ [Undisturbed => Atomic!AtomicNext]_before
    <2> SUFFICES ASSUME StoreTypes_, Alone, [StoreNext]_storeVars
                 PROVE  /\ StoreTypes_' /\ Alone'
                        /\ [Undisturbed => Atomic!AtomicNext]_before
      OBVIOUS
    <2>1. StoreTypes_'
      BY StoreTypesStay
    <2>2. CASE StoreNext
      <3>1. PICK w \in Workers : StoreStep(w) /\ before' = IF Quiet' THEN Snapshot' ELSE before
        BY <2>2 DEF StoreNext
      <3> QED BY <2>1, <3>1, AloneStays
    <2>3. CASE UNCHANGED storeVars
      <3>1. before' = before
        BY <2>3 DEF storeVars
      <3> QED BY <2>1, <2>3, <3>1, AloneStill
    <2> QED BY <2>2, <2>3
  <1> QED BY <1>1, <1>2, PTL DEF StoreSpec, IsAtomicContracts
==============================================================================
