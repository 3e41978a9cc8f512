------------------------- MODULE GuardBuilderProofs -------------------------
(***************************************************************************)
(* Proofs about GuardBuilder, for every set of comparisons, kinds of       *)
(* packets and names, and any number of calls.                             *)
(***************************************************************************)
EXTENDS GuardBuilder, WellFoundedInduction, FiniteSetTheorems, SequenceTheorems, TLAPS

-----------------------------------------------------------------------------
(* The values of the nodes                                                 *)

Ops == {"true", "compare", "and", "or"}

Node == [op : Ops, of : Comparisons \cup {None}, left : Nat, right : Nat,
         negated : BOOLEAN]

HasChildren(node) == node.op \in {"and", "or"}

(* Children are made before their parents.                                 *)
WellMade(nodes) ==
  /\ nodes \in Seq(Node)
  /\ \A n \in 1..Len(nodes) :
       /\ HasChildren(nodes[n]) =>
            nodes[n].left \in 1..(n - 1) /\ nodes[n].right \in 1..(n - 1)
       /\ nodes[n].op = "compare" => nodes[n].of \in Comparisons

ValuesUpTo(value, nodes, kind, m) ==
  value = [n \in 0..m |-> IF n = 0 THEN FALSE ELSE NodeValue(nodes[n], value, kind)]

LEMMA ValuesIsChosen ==
  ASSUME NEW nodes, NEW kind
  PROVE  Values(nodes, kind) =
           CHOOSE value : ValuesUpTo(value, nodes, kind, Len(nodes))
  BY DEF Values, ValuesUpTo

(* A node asks its children only.                                          *)
LEMMA NodeValueAgrees ==
  ASSUME NEW node \in Node, NEW f, NEW g, NEW kind,
         HasChildren(node) => f[node.left] = g[node.left] /\ f[node.right] = g[node.right]
  PROVE  /\ NodeValue(node, f, kind) = NodeValue(node, g, kind)
         /\ NodeValue(node, f, kind) \in BOOLEAN
<1>1. node.op \in Ops
  BY DEF Node
<1> QED
  BY <1>1 DEF NodeValue, Ops, HasChildren

LEMMA CompareValue ==
  ASSUME NEW node \in Node, node.op = "compare", NEW value, NEW kind
  PROVE  /\ node.negated = FALSE =>
              (NodeValue(node, value, kind) <=> kind \in Holds[node.of])
         /\ node.negated = TRUE =>
              (NodeValue(node, value, kind) <=> kind \notin Holds[node.of])
<1> DEFINE in == kind \in Holds[node.of]
<1>1. in \in BOOLEAN
  OBVIOUS
<1>2. NodeValue(node, value, kind) = (in # node.negated)
  BY Zenon DEF NodeValue
<1> HIDE DEF in
<1>3. /\ node.negated = FALSE => (NodeValue(node, value, kind) <=> in)
      /\ node.negated = TRUE => (NodeValue(node, value, kind) <=> ~ in)
  BY <1>1, <1>2
<1> QED
  BY <1>3 DEF in

(* A non-empty set of positions has a least one.                           *)
LEMMA LeastPosition ==
  ASSUME NEW S \in SUBSET Nat, S # {}
  PROVE  \E m \in S : \A n \in S : m <= n
<1>1. PICK m \in S : \A n \in S : ~ (<<n, m>> \in OpToRel(<, Nat))
  BY NatLessThanWellFounded, WFMin
<1>2. \A n \in S : ~ (n < m)
  BY <1>1 DEF OpToRel
<1> QED
  BY <1>2

LEMMA EveryNumber ==
  ASSUME NEW S, 0 \in S, \A k \in Nat : k \in S => k + 1 \in S
  PROVE  Nat \subseteq S
<1>1. SUFFICES ASSUME Nat \ S # {} PROVE FALSE
  OBVIOUS
<1>2. PICK m \in Nat \ S : \A k \in Nat \ S : m <= k
  <2>1. \E m \in Nat \ S : \A k \in Nat \ S : m <= k
    BY <1>1, LeastPosition
  <2> QED
    BY <2>1
<1>3. m # 0
  BY <1>2
<1>4. m - 1 \in Nat /\ ~ (m <= m - 1) /\ m = (m - 1) + 1
  BY <1>2, <1>3
<1>5. m - 1 \in S
  BY <1>2, <1>4
<1> QED
  BY <1>2, <1>4, <1>5

(* The recursion over the nodes defines a function.                        *)
LEMMA ValuesExist ==
  ASSUME NEW nodes, WellMade(nodes), NEW kind
  PROVE  \E value : ValuesUpTo(value, nodes, kind, Len(nodes))
<1> DEFINE S == {m \in Nat : m <= Len(nodes) =>
                   \E value : ValuesUpTo(value, nodes, kind, m)}
<1>1. 0 \in S
  <2>1. ValuesUpTo([n \in 0..0 |-> FALSE], nodes, kind, 0)
    BY DEF ValuesUpTo
  <2> QED
    BY <2>1
<1>2. ASSUME NEW m \in Nat, m \in S
      PROVE  m + 1 \in S
  <2>1. SUFFICES ASSUME m + 1 <= Len(nodes)
                 PROVE  \E value : ValuesUpTo(value, nodes, kind, m + 1)
    OBVIOUS
  <2>2. Len(nodes) \in Nat
    BY DEF WellMade
  <2>3. PICK f : ValuesUpTo(f, nodes, kind, m)
    BY <1>2, <2>1, <2>2
  <2> DEFINE g == [n \in 0..(m + 1) |->
                     IF n = m + 1 THEN NodeValue(nodes[n], f, kind) ELSE f[n]]
  <2>4. \A n \in 0..m : g[n] = f[n]
    OBVIOUS
  <2>5. ASSUME NEW n \in 1..(m + 1)
        PROVE  NodeValue(nodes[n], f, kind) = NodeValue(nodes[n], g, kind)
    <3>1. n \in 1..Len(nodes)
      BY <2>1, <2>2
    <3>2. nodes[n] \in Node
      BY <3>1 DEF WellMade
    <3>3. HasChildren(nodes[n]) => nodes[n].left \in 0..m /\ nodes[n].right \in 0..m
      BY <3>1 DEF WellMade
    <3> HIDE DEF g
    <3> QED
      BY <2>4, <3>2, <3>3, NodeValueAgrees
  <2>6. ASSUME NEW n \in 0..(m + 1)
        PROVE  g[n] = IF n = 0 THEN FALSE ELSE NodeValue(nodes[n], g, kind)
    <3>1. CASE n = 0
      <4>1. f[0] = FALSE
        BY <2>3 DEF ValuesUpTo
      <4>2. g[0] = f[0]
        BY <2>4
      <4> HIDE DEF g
      <4> QED
        BY <3>1, <4>1, <4>2
    <3>2. CASE n \in 1..m
      <4>1. f[n] = NodeValue(nodes[n], f, kind)
        <5>1. n \in 0..m /\ n # 0
          BY <3>2
        <5> QED
          BY <2>3, <5>1 DEF ValuesUpTo
      <4>2. g[n] = f[n] /\ n # 0
        BY <2>4, <3>2
      <4> HIDE DEF g
      <4> QED
        BY <2>5, <4>1, <4>2
    <3>3. CASE n = m + 1
      <4>1. g[n] = NodeValue(nodes[n], f, kind) /\ n # 0 /\ n \in 1..(m + 1)
        BY <3>3
      <4> HIDE DEF g
      <4> QED
        BY <2>5, <4>1
    <3>4. n = 0 \/ n \in 1..m \/ n = m + 1
      OBVIOUS
    <3> HIDE DEF g
    <3> QED
      BY <3>1, <3>2, <3>3, <3>4
  <2>7. ValuesUpTo(g, nodes, kind, m + 1)
    <3>1. g = [n \in 0..(m + 1) |-> g[n]]
      OBVIOUS
    <3> HIDE DEF g
    <3> QED
      BY <2>6, <3>1 DEF ValuesUpTo
  <2> QED
    BY <2>7
<1>3. Nat \subseteq S
  <2> HIDE DEF S
  <2> QED
    BY <1>1, <1>2, EveryNumber
<1>4. Len(nodes) \in Nat
  BY DEF WellMade
<1> QED
  BY <1>3, <1>4

LEMMA ValueOf ==
  ASSUME NEW nodes, WellMade(nodes), NEW kind, NEW n \in 1..Len(nodes)
  PROVE  /\ Values(nodes, kind)[n] = NodeValue(nodes[n], Values(nodes, kind), kind)
         /\ Values(nodes, kind)[n] \in BOOLEAN
<1> DEFINE value == Values(nodes, kind)
<1>1. ValuesUpTo(value, nodes, kind, Len(nodes))
  BY ValuesExist, ValuesIsChosen
<1>2. value[n] = NodeValue(nodes[n], value, kind)
  <2>1. n \in 0..Len(nodes) /\ n # 0
    BY DEF WellMade
  <2> HIDE DEF value
  <2> QED
    BY <1>1, <2>1 DEF ValuesUpTo
<1>3. nodes[n] \in Node
  BY DEF WellMade
<1> HIDE DEF value
<1>4. NodeValue(nodes[n], value, kind) \in BOOLEAN
  BY <1>3, NodeValueAgrees
<1> QED
  BY <1>2, <1>4 DEF value

(* Two heaps have the same nodes outside of Others, and these are not      *)
(* children of them.                                                       *)
SameOutside(Others, old, new) ==
  /\ Len(old) <= Len(new)
  /\ \A n \in (1..Len(old)) \ Others :
       /\ new[n] = old[n]
       /\ HasChildren(old[n]) => old[n].left \notin Others /\ old[n].right \notin Others

(* Such nodes have the same values in both.                                *)
LEMMA ValuesAgree ==
  ASSUME NEW old, NEW new, WellMade(old), WellMade(new),
         NEW Others, SameOutside(Others, old, new), NEW kind
  PROVE  \A n \in (1..Len(old)) \ Others : Values(new, kind)[n] = Values(old, kind)[n]
<1> DEFINE f == Values(old, kind)
           g == Values(new, kind)
           Same == (1..Len(old)) \ Others
           Bad == {n \in Same : g[n] # f[n]}
<1>1. SUFFICES ASSUME Bad # {} PROVE FALSE
  OBVIOUS
<1>2. Len(old) \in Nat /\ Len(new) \in Nat /\ Len(old) <= Len(new)
  BY DEF WellMade, SameOutside
<1>3. Bad \in SUBSET Nat
  BY <1>2
<1>4. PICK m \in Bad : \A n \in Bad : m <= n
  <2> HIDE DEF Bad
  <2> QED
    BY <1>1, <1>3, LeastPosition
<1>5. m \in Same /\ m \in 1..Len(old) /\ m \in 1..Len(new)
  BY <1>2, <1>4
<1>6. f[m] = NodeValue(old[m], f, kind) /\ g[m] = NodeValue(new[m], g, kind)
  BY <1>5, ValueOf
<1>7. new[m] = old[m] /\ old[m] \in Node
  BY <1>5 DEF WellMade, SameOutside
<1>8. ASSUME HasChildren(old[m])
      PROVE  f[old[m].left] = g[old[m].left] /\ f[old[m].right] = g[old[m].right]
  <2>1. old[m].left \in 1..(m - 1) /\ old[m].right \in 1..(m - 1)
    BY <1>5, <1>8 DEF WellMade
  <2>2. old[m].left \notin Others /\ old[m].right \notin Others
    BY <1>5, <1>8 DEF SameOutside
  <2>3. ASSUME NEW c \in 1..(m - 1), c \notin Others
        PROVE  f[c] = g[c]
    <3>1. c \in Same /\ ~ (m <= c)
      BY <1>2, <1>5, <2>3
    <3>2. c \notin Bad
      BY <1>4, <3>1
    <3> QED
      BY <3>1, <3>2
  <2> HIDE DEF f, g, Same, Bad
  <2> QED
    BY <2>1, <2>2, <2>3
<1>9. NodeValue(old[m], f, kind) = NodeValue(old[m], g, kind)
  <2> HIDE DEF f, g, Bad, Same
  <2> QED
    BY <1>7, <1>8, NodeValueAgrees
<1>10. f[m] = g[m]
  BY <1>6, <1>7, <1>9
<1> QED
  BY <1>4, <1>10

-----------------------------------------------------------------------------
(* The inductive invariant                                                 *)

(* Bindings of some of the names to members of V.                          *)
Scopes(V) == UNION {[bound -> V] : bound \in SUBSET Names}

BeingBuilt == [base : Nat, old : Scopes(Nat), new : Scopes(Nat),
               bound : BOOLEAN, body : BOOLEAN]

Meanings == [old : Scopes(SUBSET Kinds), new : Scopes(SUBSET Kinds)]

Shape ==
  /\ WellMade(heap)
  /\ stack \in Seq(Nat)
  /\ meanings \in Seq(SUBSET Kinds)
  /\ lets \in Seq(BeingBuilt)
  /\ letMeanings \in Seq(Meanings)
  /\ ownNots \in BOOLEAN
  /\ steps \in 0..MaxSteps
  /\ Len(meanings) = Len(stack)
  /\ Len(letMeanings) = Len(lets)

(* What results refer to exists.                                           *)
Kept ==
  /\ \A i \in 1..Len(stack) : stack[i] \in 1..Len(heap)
  /\ \A i \in 1..Len(lets) : \A x \in DOMAIN lets[i].new : lets[i].new[x] \in 1..Len(heap)

(* A binding a let is built with is one of a let further out, to the same  *)
(* node and with the same meaning: what is true of the new bindings is     *)
(* true of the old ones.                                                   *)
Scoped ==
  \A i \in 1..Len(lets) :
    /\ DOMAIN letMeanings[i].new = DOMAIN lets[i].new
    /\ DOMAIN letMeanings[i].old = DOMAIN lets[i].old
    /\ \A x \in DOMAIN lets[i].old :
         \E j \in 1..(i - 1) :
           /\ x \in DOMAIN lets[j].new
           /\ lets[j].new[x] = lets[i].old[x]
           /\ letMeanings[j].new[x] = letMeanings[i].old[x]

HoldsIn(nodes, n) == {kind \in Kinds : Values(nodes, kind)[n]}

(* FaithfulWithOwnNots, without its condition.                             *)
Faithful ==
  /\ \A i \in 1..Len(stack) : HoldsIn(heap, stack[i]) = meanings[i]
  /\ \A i \in 1..Len(lets) : \A x \in DOMAIN lets[i].new :
       HoldsIn(heap, lets[i].new[x]) = letMeanings[i].new[x]

IInv == Shape /\ Kept /\ Scoped /\ (ownNots => Faithful)

LEMMA IInvSuffices == IInv => TypeOK /\ FaithfulWithOwnNots
<1> SUFFICES ASSUME IInv PROVE TypeOK /\ FaithfulWithOwnNots
  OBVIOUS
<1>1. /\ DOMAIN heap = 1..Len(heap) /\ DOMAIN stack = 1..Len(stack)
      /\ DOMAIN lets = 1..Len(lets)
  BY DEF IInv, Shape, WellMade
<1>2. ASSUME NEW n \in DOMAIN heap
      PROVE  /\ heap[n].op \in {"true", "compare", "and", "or"}
             /\ heap[n].negated \in BOOLEAN
             /\ heap[n].op = "compare" => heap[n].of \in Comparisons
             /\ heap[n].op \in {"and", "or"} =>
                  {heap[n].left, heap[n].right} \subseteq 1..(n - 1)
  <2>1. n \in 1..Len(heap)
    BY <1>1
  <2>2. heap[n] \in Node
    BY <2>1 DEF IInv, Shape, WellMade
  <2> QED
    BY <2>1, <2>2 DEF IInv, Shape, WellMade, Node, Ops, HasChildren
<1>3. TypeOK
  BY <1>1, <1>2 DEF TypeOK, IInv, Shape, Kept, Size
<1>4. FaithfulWithOwnNots
  BY <1>1 DEF FaithfulWithOwnNots, IInv, Faithful, HoldsOn, HoldsIn
<1> QED
  BY <1>3, <1>4

-----------------------------------------------------------------------------
(* Lemmas about the operators of the steps                                 *)

LEMMA ScopeFacts ==
  ASSUME NEW V, NEW scope \in Scopes(V)
  PROVE  /\ DOMAIN scope \subseteq Names
         /\ \A x \in DOMAIN scope : scope[x] \in V
  BY DEF Scopes

LEMMA NoNamesIsScope ==
  ASSUME NEW V
  PROVE  NoNames \in Scopes(V) /\ DOMAIN NoNames = {}
<1>1. {} \in SUBSET Names /\ NoNames \in [{} -> V]
  BY DEF NoNames
<1> QED
  BY <1>1 DEF Scopes

LEMMA ExtendedIsScope ==
  ASSUME NEW V, NEW scope \in Scopes(V), NEW x \in Names, NEW v \in V
  PROVE  Extended(scope, x, v) \in Scopes(V)
<1>1. DOMAIN scope \subseteq Names /\ \A y \in DOMAIN scope : scope[y] \in V
  BY ScopeFacts
<1>2. Extended(scope, x, v) \in [DOMAIN scope \cup {x} -> V]
  BY <1>1 DEF Extended
<1>3. DOMAIN scope \cup {x} \in SUBSET Names
  BY <1>1
<1> QED
  BY <1>2, <1>3 DEF Scopes

LEMMA DropLastFacts ==
  ASSUME NEW X, NEW s \in Seq(X), NEW n \in 0..Len(s)
  PROVE  /\ DropLast(s, n) \in Seq(X)
         /\ Len(DropLast(s, n)) = Len(s) - n
         /\ \A i \in 1..(Len(s) - n) : DropLast(s, n)[i] = s[i]
<1>1. Len(s) \in Nat /\ n \in Nat /\ Len(s) - n \in Nat
  OBVIOUS
<1>2. \A i \in 1..(Len(s) - n) : s[i] \in X
  BY <1>1
<1> QED
  BY <1>1, <1>2, SubSeqProperties DEF DropLast

(* What Returns does to either sequence.                                   *)
Replaced(s, n, x) == Append(DropLast(s, n), x)

LEMMA ReplacedFacts ==
  ASSUME NEW X, NEW s \in Seq(X), NEW n \in 0..Len(s), NEW x \in X
  PROVE  /\ Replaced(s, n, x) \in Seq(X)
         /\ Len(Replaced(s, n, x)) = Len(s) - n + 1
         /\ \A i \in 1..(Len(s) - n) : Replaced(s, n, x)[i] = s[i]
         /\ Replaced(s, n, x)[Len(s) - n + 1] = x
<1> DEFINE front == DropLast(s, n)
<1>1. /\ front \in Seq(X) /\ Len(front) = Len(s) - n
      /\ \A i \in 1..(Len(s) - n) : front[i] = s[i]
  BY DropLastFacts
<1> HIDE DEF front
<1>2. Replaced(s, n, x) = Append(front, x)
  BY DEF front, Replaced
<1> QED
  BY <1>1, <1>2

LEMMA ReplacedType ==
  ASSUME NEW X, NEW s \in Seq(X), NEW n \in 0..Len(s), NEW x \in X
  PROVE  /\ Replaced(s, n, x) \in Seq(X)
         /\ Len(Replaced(s, n, x)) = Len(s) - n + 1
         /\ Replaced(s, n, x)[Len(s) - n + 1] = x
  BY ReplacedFacts

LEMMA ReplacedKeeps ==
  ASSUME NEW X, NEW s \in Seq(X), NEW n \in 0..Len(s), NEW x \in X,
         NEW i \in 1..(Len(s) - n)
  PROVE  Replaced(s, n, x)[i] = s[i]
  BY ReplacedFacts

LEMMA AppendMakesWell ==
  ASSUME NEW nodes, WellMade(nodes), NEW node \in Node,
         HasChildren(node) =>
           node.left \in 1..Len(nodes) /\ node.right \in 1..Len(nodes),
         node.op = "compare" => node.of \in Comparisons
  PROVE  /\ WellMade(Append(nodes, node))
         /\ Len(Append(nodes, node)) = Len(nodes) + 1
         /\ Append(nodes, node)[Len(nodes) + 1] = node
         /\ \A n \in 1..Len(nodes) : Append(nodes, node)[n] = nodes[n]
<1> DEFINE more == Append(nodes, node)
<1>1. nodes \in Seq(Node) /\ Len(nodes) \in Nat
  BY DEF WellMade
<1>2. /\ more \in Seq(Node)
      /\ Len(more) = Len(nodes) + 1
      /\ more[Len(nodes) + 1] = node
      /\ \A n \in 1..Len(nodes) : more[n] = nodes[n]
  BY <1>1
<1> HIDE DEF more
<1>3. ASSUME NEW n \in 1..Len(more)
      PROVE  /\ HasChildren(more[n]) =>
                  more[n].left \in 1..(n - 1) /\ more[n].right \in 1..(n - 1)
             /\ more[n].op = "compare" => more[n].of \in Comparisons
  <2>1. CASE n \in 1..Len(nodes)
    BY <1>2, <2>1 DEF WellMade
  <2>2. CASE n = Len(nodes) + 1
    <3>1. n - 1 = Len(nodes) /\ more[n] = node
      BY <1>1, <1>2, <2>2
    <3> QED
      BY <3>1
  <2> QED
    BY <1>1, <1>2, <2>1, <2>2
<1>4. WellMade(more)
  BY <1>2, <1>3 DEF WellMade
<1> QED
  BY <1>2, <1>4 DEF more

(* A node that is made has the values its children give it, and no other   *)
(* node changes its own.                                                   *)
LEMMA AppendValues ==
  ASSUME NEW nodes, WellMade(nodes), NEW node \in Node,
         HasChildren(node) =>
           node.left \in 1..Len(nodes) /\ node.right \in 1..Len(nodes),
         node.op = "compare" => node.of \in Comparisons,
         NEW kind
  PROVE  /\ \A n \in 1..Len(nodes) :
              Values(Append(nodes, node), kind)[n] = Values(nodes, kind)[n]
         /\ Values(Append(nodes, node), kind)[Len(nodes) + 1]
              = NodeValue(node, Values(nodes, kind), kind)
<1> DEFINE more == Append(nodes, node)
           f == Values(nodes, kind)
           g == Values(more, kind)
<1>1. /\ WellMade(more) /\ Len(more) = Len(nodes) + 1 /\ more[Len(nodes) + 1] = node
      /\ \A n \in 1..Len(nodes) : more[n] = nodes[n]
  BY AppendMakesWell
<1>2. Len(nodes) \in Nat
  BY DEF WellMade
<1> HIDE DEF more
<1>3. \A n \in 1..Len(nodes) : g[n] = f[n]
  <2> DEFINE none == {n \in Nat : n # n}
  <2>1. \A n : n \notin none
    OBVIOUS
  <2>2. SameOutside(none, nodes, more)
    BY <1>1, <1>2, <2>1 DEF SameOutside
  <2>3. \A n \in 1..Len(nodes) : n \notin none
    OBVIOUS
  <2> HIDE DEF f, g, none
  <2>4. \A n \in (1..Len(nodes)) \ none : Values(more, kind)[n] = Values(nodes, kind)[n]
    BY <1>1, <2>2, ValuesAgree
  <2> QED
    BY <2>3, <2>4 DEF f, g
<1>4. Len(nodes) + 1 \in 1..Len(more)
  BY <1>1, <1>2
<1>5. g[Len(nodes) + 1] = NodeValue(node, g, kind)
  BY <1>1, <1>4, ValueOf
<1> HIDE DEF f, g
<1>6. NodeValue(node, g, kind) = NodeValue(node, f, kind)
  BY <1>3, NodeValueAgrees
<1> QED
  BY <1>3, <1>5, <1>6 DEF f, g, more

(* The bindings the builder is called with are bindings of a let.          *)
LEMMA BindingsAreOfLets ==
  ASSUME Shape, Scoped
  PROVE  /\ Bindings \in Scopes(Nat) /\ BindingMeanings \in Scopes(SUBSET Kinds)
         /\ DOMAIN BindingMeanings = DOMAIN Bindings
         /\ \A x \in DOMAIN Bindings : \E j \in 1..Len(lets) :
              /\ x \in DOMAIN lets[j].new
              /\ lets[j].new[x] = Bindings[x]
              /\ letMeanings[j].new[x] = BindingMeanings[x]
<1>1. CASE lets = <<>>
  <2>1. Bindings = NoNames /\ BindingMeanings = NoNames
    BY <1>1 DEF Bindings, BindingMeanings, InScope
  <2> QED
    BY <2>1, NoNamesIsScope
<1>2. CASE lets # <<>>
  <2> DEFINE last == Len(lets)
  <2>1. last \in 1..Len(lets) /\ last \in 1..Len(letMeanings)
    BY <1>2 DEF Shape
  <2>2. lets[last] \in BeingBuilt /\ letMeanings[last] \in Meanings
    BY <2>1 DEF Shape
  <2>3. \A j \in 1..(last - 1) : j \in 1..Len(lets)
    BY <2>1
  <2>4. CASE lets[last].body
    <3>1. Bindings = lets[last].new /\ BindingMeanings = letMeanings[last].new
      BY <1>2, <2>4 DEF Bindings, BindingMeanings, InScope, Innermost
    <3> QED
      BY <2>1, <2>2, <3>1 DEF Scoped, BeingBuilt, Meanings
  <2>5. CASE ~ lets[last].body
    <3>1. Bindings = lets[last].old /\ BindingMeanings = letMeanings[last].old
      BY <1>2, <2>5 DEF Bindings, BindingMeanings, InScope, Innermost
    <3> QED
      BY <2>1, <2>2, <2>3, <3>1 DEF Scoped, BeingBuilt, Meanings
  <2> QED
    BY <2>4, <2>5
<1> QED
  BY <1>1, <1>2

LEMMA BaseType ==
  ASSUME Shape
  PROVE  Base \in Nat
<1>1. CASE lets = <<>>
  BY <1>1 DEF Base
<1>2. CASE lets # <<>>
  <2>1. Len(lets) \in 1..Len(lets)
    BY <1>2 DEF Shape
  <2>2. lets[Len(lets)] \in BeingBuilt
    BY <2>1 DEF Shape
  <2> QED
    BY <1>2, <2>2 DEF Base, Innermost, BeingBuilt
<1> QED
  BY <1>1, <1>2

-----------------------------------------------------------------------------
(* The steps                                                               *)

LEMMA CallType ==
  ASSUME Shape, Call
  PROVE  steps' \in 0..MaxSteps
  BY GuardBuilderAssumption DEF Shape, Call

LEMMA HeapLength ==
  ASSUME Shape
  PROVE  WellMade(heap) /\ Len(heap) \in Nat
<1>1. WellMade(heap)
  BY DEF Shape
<1> QED
  BY <1>1 DEF WellMade

LEMMA MeaningsOfStack ==
  ASSUME Shape
  PROVE  \A i \in 1..Len(stack) : meanings[i] \in SUBSET Kinds
  BY DEF Shape

(* What a step does to the stack and the meanings when a result takes the  *)
(* place of n.                                                             *)
LEMMA ReturnsFacts ==
  ASSUME Shape, NEW n \in 0..Len(stack), NEW node \in Nat, NEW meaning \in SUBSET Kinds,
         Returns(node, n, meaning)
  PROVE  /\ stack' \in Seq(Nat) /\ Len(stack') = Len(stack) - n + 1
         /\ \A i \in 1..(Len(stack) - n) : stack'[i] = stack[i]
         /\ stack'[Len(stack')] = node
         /\ meanings' \in Seq(SUBSET Kinds) /\ Len(meanings') = Len(stack')
         /\ \A i \in 1..(Len(stack) - n) : meanings'[i] = meanings[i]
         /\ meanings'[Len(stack')] = meaning
         /\ \A i \in 1..Len(stack') :
              (i \in 1..Len(stack) /\ i \in 1..(Len(stack) - n)) \/ i = Len(stack')
<1>1. stack' = Replaced(stack, n, node) /\ meanings' = Replaced(meanings, n, meaning)
  BY DEF Returns, Replaced
<1>2. /\ stack \in Seq(Nat) /\ meanings \in Seq(SUBSET Kinds)
      /\ Len(meanings) = Len(stack) /\ Len(stack) \in Nat /\ n \in 0..Len(meanings)
  BY DEF Shape
<1>3. /\ Replaced(stack, n, node) \in Seq(Nat)
      /\ Len(Replaced(stack, n, node)) = Len(stack) - n + 1
      /\ Replaced(stack, n, node)[Len(stack) - n + 1] = node
  BY <1>2, ReplacedType
<1>4. \A i \in 1..(Len(stack) - n) : Replaced(stack, n, node)[i] = stack[i]
  BY <1>2, ReplacedKeeps
<1> DEFINE Sets == SUBSET Kinds
<1>5. /\ Replaced(meanings, n, meaning) \in Seq(Sets)
      /\ Len(Replaced(meanings, n, meaning)) = Len(meanings) - n + 1
      /\ Replaced(meanings, n, meaning)[Len(meanings) - n + 1] = meaning
  <2>1. meanings \in Seq(Sets) /\ n \in 0..Len(meanings) /\ meaning \in Sets
    BY <1>2
  <2> HIDE DEF Sets
  <2> QED
    BY <2>1, ReplacedType
<1>6. \A i \in 1..(Len(meanings) - n) : Replaced(meanings, n, meaning)[i] = meanings[i]
  <2>1. meanings \in Seq(Sets) /\ n \in 0..Len(meanings) /\ meaning \in Sets
    BY <1>2
  <2> HIDE DEF Sets
  <2> QED
    BY <2>1, ReplacedKeeps
<1>7. \A i \in 1..(Len(stack) - n + 1) :
        (i \in 1..Len(stack) /\ i \in 1..(Len(stack) - n)) \/ i = Len(stack) - n + 1
  BY <1>2
<1> QED
  BY <1>1, <1>2, <1>3, <1>4, <1>5, <1>6, <1>7

(* A node that can be made in the place of n results, with its meaning.    *)
CanBeMade(node, n, meaning) ==
  /\ node \in Node
  /\ HasChildren(node) => node.left \in 1..Len(heap) /\ node.right \in 1..Len(heap)
  /\ node.op = "compare" => node.of \in Comparisons
  /\ n \in 0..Len(stack)
  /\ meaning \in SUBSET Kinds
  /\ Faithful => \A kind \in Kinds :
       NodeValue(node, Values(heap, kind), kind) <=> kind \in meaning

Makes(node, n, meaning) ==
  /\ Call
  /\ heap' = Append(heap, node)
  /\ Returns(Len(heap) + 1, n, meaning)
  /\ UNCHANGED <<lets, letMeanings, ownNots>>

LEMMA NodeIsMade ==
  ASSUME IInv, NEW node, NEW n, NEW meaning,
         CanBeMade(node, n, meaning), Makes(node, n, meaning)
  PROVE  IInv'
<1> DEFINE m == Len(heap) + 1
<1>1. Shape /\ Kept /\ Scoped /\ (ownNots => Faithful)
  BY DEF IInv
<1>2. WellMade(heap) /\ Len(heap) \in Nat
  BY <1>1, HeapLength
<1>3. /\ WellMade(heap') /\ Len(heap') = m
      /\ \A p \in 1..Len(heap) : \A kind : Values(heap', kind)[p] = Values(heap, kind)[p]
      /\ \A kind : Values(heap', kind)[m] = NodeValue(node, Values(heap, kind), kind)
  <2>1. heap' = Append(heap, node)
    BY DEF Makes
  <2>2. /\ node \in Node
        /\ HasChildren(node) =>
             node.left \in 1..Len(heap) /\ node.right \in 1..Len(heap)
        /\ node.op = "compare" => node.of \in Comparisons
    BY DEF CanBeMade
  <2> QED
    BY <1>2, <2>1, <2>2, AppendMakesWell, AppendValues
<1>4. /\ stack' \in Seq(Nat)
      /\ \A i \in 1..(Len(stack) - n) : stack'[i] = stack[i]
      /\ stack'[Len(stack')] = m
      /\ meanings' \in Seq(SUBSET Kinds) /\ Len(meanings') = Len(stack')
      /\ \A i \in 1..(Len(stack) - n) : meanings'[i] = meanings[i]
      /\ meanings'[Len(stack')] = meaning
      /\ \A i \in 1..Len(stack') :
           (i \in 1..Len(stack) /\ i \in 1..(Len(stack) - n)) \/ i = Len(stack')
  <2>1. n \in 0..Len(stack) /\ m \in Nat /\ meaning \in SUBSET Kinds
    BY <1>2 DEF CanBeMade
  <2>2. Returns(m, n, meaning)
    BY DEF Makes
  <2> HIDE DEF m
  <2> QED
    BY <1>1, <2>1, <2>2, ReturnsFacts
<1>5. /\ Len(stack) \in Nat /\ n \in 0..Len(stack)
      /\ UNCHANGED <<lets, letMeanings, ownNots>> /\ Call
  BY <1>1 DEF Shape, CanBeMade, Makes
<1>6. Shape'
  BY <1>1, <1>3, <1>4, <1>5, CallType DEF Shape
<1>7. Kept'
  <2>1. \A p \in 1..Len(heap) : p \in 1..Len(heap')
    BY <1>2, <1>3
  <2>2. m \in 1..Len(heap')
    BY <1>2, <1>3
  <2>3. \A i \in 1..Len(stack') : stack'[i] \in 1..Len(heap')
    BY <1>1, <1>4, <2>1, <2>2 DEF Kept
  <2>4. \A i \in 1..Len(lets) : \A x \in DOMAIN lets[i].new :
          lets[i].new[x] \in 1..Len(heap')
    BY <1>1, <2>1 DEF Kept
  <2> QED
    BY <1>5, <2>3, <2>4 DEF Kept
<1>8. Scoped'
  BY <1>1, <1>5 DEF Scoped
<1>9. ASSUME ownNots' PROVE Faithful'
  <2>1. Faithful
    BY <1>1, <1>5, <1>9
  <2>2. \A p \in 1..Len(heap) : HoldsIn(heap', p) = HoldsIn(heap, p)
    BY <1>3 DEF HoldsIn
  <2>3. HoldsIn(heap', m) = meaning
    <3>1. \A kind \in Kinds : NodeValue(node, Values(heap, kind), kind) <=> kind \in meaning
      BY <2>1 DEF CanBeMade
    <3>2. meaning \in SUBSET Kinds
      BY DEF CanBeMade
    <3> QED
      BY <1>3, <3>1, <3>2 DEF HoldsIn
  <2>4. \A i \in 1..Len(stack') : HoldsIn(heap', stack'[i]) = meanings'[i]
    BY <1>1, <1>4, <2>1, <2>2, <2>3 DEF Kept, Faithful
  <2>5. \A i \in 1..Len(lets) : \A x \in DOMAIN lets[i].new :
          HoldsIn(heap', lets[i].new[x]) = letMeanings[i].new[x]
    BY <1>1, <2>1, <2>2 DEF Kept, Faithful
  <2> QED
    BY <1>5, <2>4, <2>5 DEF Faithful
<1> QED
  BY <1>6, <1>7, <1>8, <1>9 DEF IInv

LEMMA StepCompare ==
  ASSUME IInv, NEW c \in Comparisons, Compare(c)
  PROVE  IInv'
<1> DEFINE node == Leaf("compare", c)
<1>1. node \in Node /\ node.op = "compare" /\ node.of = c /\ node.negated = FALSE
  BY DEF Leaf, Node, Ops
<1> HIDE DEF node
<1>2. Holds[c] \in SUBSET Kinds
  BY GuardBuilderAssumption
<1>3. \A kind \in Kinds : NodeValue(node, Values(heap, kind), kind) <=> kind \in Holds[c]
  BY <1>1, CompareValue
<1>4. Len(stack) \in Nat
  BY DEF IInv, Shape
<1>5. CanBeMade(node, 0, Holds[c])
  BY <1>1, <1>2, <1>3, <1>4 DEF CanBeMade, HasChildren
<1>6. Makes(node, 0, Holds[c])
  BY DEF Makes, Compare, node
<1> QED
  BY <1>5, <1>6, NodeIsMade

LEMMA StepTrue ==
  ASSUME IInv, True
  PROVE  IInv'
<1> DEFINE node == Leaf("true", None)
<1>1. node \in Node /\ node.op = "true" /\ ~ node.negated
  BY DEF Leaf, Node, Ops
<1> HIDE DEF node
<1>2. \A kind \in Kinds : NodeValue(node, Values(heap, kind), kind) <=> kind \in Kinds
  BY <1>1 DEF NodeValue
<1>3. Len(stack) \in Nat
  BY DEF IInv, Shape
<1>4. CanBeMade(node, 0, Kinds)
  BY <1>1, <1>2, <1>3 DEF CanBeMade, HasChildren
<1>5. Makes(node, 0, Kinds)
  BY DEF Makes, True, node
<1> QED
  BY <1>4, <1>5, NodeIsMade

LEMMA StepFalse ==
  ASSUME IInv, False
  PROVE  IInv'
<1> DEFINE node == [Leaf("true", None) EXCEPT !.negated = TRUE]
<1>1. node \in Node /\ node.op = "true" /\ node.negated = TRUE
  BY DEF Leaf, Node, Ops
<1> HIDE DEF node
<1>2. \A kind \in Kinds : NodeValue(node, Values(heap, kind), kind) <=> kind \in {}
  BY <1>1 DEF NodeValue
<1>3. Len(stack) \in Nat
  BY DEF IInv, Shape
<1>4. CanBeMade(node, 0, {})
  BY <1>1, <1>2, <1>3 DEF CanBeMade, HasChildren
<1>5. Makes(node, 0, {})
  BY DEF Makes, False, node
<1> QED
  BY <1>4, <1>5, NodeIsMade

LEMMA StepAndOr ==
  ASSUME IInv, NEW op \in {"and", "or"}, AndOr(op)
  PROVE  IInv'
<1> DEFINE l == stack[Size - 1]
           r == stack[Size]
           node == Parent(op, l, r)
           meaning == IF op = "and" THEN meanings[Size - 1] \cap meanings[Size]
                      ELSE meanings[Size - 1] \cup meanings[Size]
<1>1. Shape /\ Kept
  BY DEF IInv
<1>2. /\ Size = Len(stack) /\ Size \in Nat /\ Size >= 2
      /\ Size - 1 \in 1..Len(stack) /\ Size \in 1..Len(stack)
  <2>1. Size >= Base + 2
    BY DEF AndOr
  <2>2. Base \in Nat /\ Len(stack) \in Nat
    BY <1>1, BaseType DEF Shape
  <2> QED
    BY <2>1, <2>2 DEF Size
<1>3. l \in 1..Len(heap) /\ r \in 1..Len(heap) /\ Len(heap) \in Nat
  <2>1. Len(heap) \in Nat
    BY <1>1, HeapLength
  <2> QED
    BY <1>1, <1>2, <2>1 DEF Kept
<1>4. meanings[Size - 1] \in SUBSET Kinds /\ meanings[Size] \in SUBSET Kinds
  BY <1>1, <1>2, MeaningsOfStack
<1>5. Faithful => HoldsIn(heap, l) = meanings[Size - 1] /\ HoldsIn(heap, r) = meanings[Size]
  BY <1>2 DEF Faithful
<1>6. Makes(node, 2, meaning)
  BY DEF Makes, AndOr
<1>7. meaning \in SUBSET Kinds
  BY <1>4
<1>8. /\ Faithful /\ op = "and" => meaning = HoldsIn(heap, l) \cap HoldsIn(heap, r)
      /\ Faithful /\ op # "and" => meaning = HoldsIn(heap, l) \cup HoldsIn(heap, r)
  BY <1>5
<1> HIDE DEF l, r, meaning
<1>9. /\ node \in Node /\ node.op = op /\ node.negated = FALSE
      /\ node.left = l /\ node.right = r
  BY <1>3 DEF Parent, Node, Ops
<1> HIDE DEF node
<1>10. ASSUME Faithful, NEW kind \in Kinds
       PROVE  NodeValue(node, Values(heap, kind), kind) <=> kind \in meaning
  <2> DEFINE value == Values(heap, kind)
  <2>1. value[l] \in BOOLEAN /\ value[r] \in BOOLEAN
    BY <1>1, <1>3, ValueOf DEF Shape
  <2>2. (kind \in HoldsIn(heap, l) <=> value[l]) /\ (kind \in HoldsIn(heap, r) <=> value[r])
    BY DEF HoldsIn
  <2> HIDE DEF value
  <2>3. CASE op = "and"
    <3>1. NodeValue(node, value, kind) <=> value[l] /\ value[r]
      BY <1>9, <2>1, <2>3 DEF NodeValue
    <3> QED
      BY <1>8, <1>10, <2>2, <2>3, <3>1 DEF value
  <2>4. CASE op = "or"
    <3>1. NodeValue(node, value, kind) <=> value[l] \/ value[r]
      BY <1>9, <2>1, <2>4 DEF NodeValue
    <3> QED
      BY <1>8, <1>10, <2>2, <2>4, <3>1 DEF value
  <2> QED
    BY <2>3, <2>4 DEF value
<1>11. CanBeMade(node, 2, meaning)
  <2>1. 2 \in 0..Len(stack)
    BY <1>2
  <2>2. node.op # "compare"
    BY <1>9
  <2> QED
    BY <1>3, <1>7, <1>9, <1>10, <2>1, <2>2 DEF CanBeMade
<1> QED
  BY <1>6, <1>11, NodeIsMade

(* A node that is used once, by the last result, has no parent, no name    *)
(* and no other place on the stack.                                        *)
LEMMA UsedOnce ==
  ASSUME Shape, Size >= 1, NEW p, p = stack[Size], Uses(p) = 1
  PROVE  /\ \A i \in 1..Len(stack) : stack[i] = p => i = Size
         /\ \A i \in 1..Len(heap) : heap[i].left # p /\ heap[i].right # p
         /\ \A i \in 1..Len(lets) : \A x \in DOMAIN lets[i].new : lets[i].new[x] # p
<1> DEFINE A == {i \in DOMAIN stack : stack[i] = p}
           B == {i \in DOMAIN heap : p \in {heap[i].left, heap[i].right}}
           All == (DOMAIN lets) \X Names
           C == {use \in All :
                   /\ use[2] \in DOMAIN lets[use[1]].new
                   /\ lets[use[1]].new[use[2]] = p}
<1>1. /\ DOMAIN stack = 1..Len(stack) /\ Len(stack) \in Nat
      /\ DOMAIN heap = 1..Len(heap) /\ Len(heap) \in Nat
      /\ DOMAIN lets = 1..Len(lets) /\ Len(lets) \in Nat
  BY DEF Shape, WellMade
<1>2. IsFiniteSet(DOMAIN stack) /\ IsFiniteSet(DOMAIN heap) /\ IsFiniteSet(DOMAIN lets)
  BY <1>1, FS_Interval
<1>3. IsFiniteSet(All)
  BY <1>2, FS_Product, GuardBuilderAssumption
<1>4. A \in SUBSET DOMAIN stack /\ B \in SUBSET DOMAIN heap /\ C \in SUBSET All
  OBVIOUS
<1>5. Cardinality(A) + Cardinality(B) + Cardinality(C) = 1
  BY DEF Uses
<1>6. Size \in A
  BY <1>1 DEF Size
<1>7. \A i \in 1..Len(stack) : stack[i] = p => i \in A
  BY <1>1
<1>8. \A i \in 1..Len(heap) : heap[i].left = p \/ heap[i].right = p => i \in B
  BY <1>1
<1>9. ASSUME NEW i \in 1..Len(lets), NEW x \in DOMAIN lets[i].new, lets[i].new[x] = p
      PROVE  <<i, x>> \in C
  <2>1. lets[i] \in BeingBuilt
    BY DEF Shape
  <2>2. x \in Names
    <3>1. lets[i].new \in Scopes(Nat)
      BY <2>1 DEF BeingBuilt
    <3> QED
      BY <3>1, ScopeFacts
  <2>3. <<i, x>> \in All
    BY <1>1, <2>2
  <2> QED
    BY <1>9, <2>3
<1> HIDE DEF A, B, C, All
<1>10. IsFiniteSet(A) /\ IsFiniteSet(B) /\ IsFiniteSet(C)
  BY <1>2, <1>3, <1>4, FS_Subset
<1>11. Cardinality(A) \in Nat /\ Cardinality(B) \in Nat /\ Cardinality(C) \in Nat
  BY <1>10, FS_CardinalityType
<1>12. Cardinality(A) # 0
  BY <1>6, <1>10, FS_EmptySet
<1>13. Cardinality(A) = 1 /\ Cardinality(B) = 0 /\ Cardinality(C) = 0
  BY <1>5, <1>11, <1>12
<1>14. PICK one : A = {one}
  BY <1>10, <1>13, FS_Singleton
<1>15. B = {} /\ C = {}
  BY <1>10, <1>13, FS_EmptySet
<1> QED
  BY <1>6, <1>7, <1>8, <1>9, <1>14, <1>15

Negated(nodes, p) == [nodes EXCEPT ![p].negated = TRUE]

LEMMA NegatedFacts ==
  ASSUME NEW nodes, WellMade(nodes), NEW p \in 1..Len(nodes)
  PROVE  /\ WellMade(Negated(nodes, p))
         /\ Len(Negated(nodes, p)) = Len(nodes)
         /\ \A n \in 1..Len(nodes) : n # p => Negated(nodes, p)[n] = nodes[n]
         /\ Negated(nodes, p)[p] = [nodes[p] EXCEPT !.negated = TRUE]
<1> DEFINE node == [nodes[p] EXCEPT !.negated = TRUE]
           other == [nodes EXCEPT ![p] = node]
<1>1. nodes \in Seq(Node) /\ nodes[p] \in Node
  BY DEF WellMade
<1>2. /\ node \in Node /\ node.op = nodes[p].op /\ node.of = nodes[p].of
      /\ node.left = nodes[p].left /\ node.right = nodes[p].right
  BY <1>1 DEF Node
<1>3. Negated(nodes, p) = other
  BY DEF Negated
<1> HIDE DEF node
<1>4. /\ other \in Seq(Node) /\ Len(other) = Len(nodes)
      /\ \A n \in 1..Len(nodes) : other[n] = IF n = p THEN node ELSE nodes[n]
  BY <1>1, <1>2, ExceptSeq
<1> HIDE DEF other
<1>5. ASSUME NEW n \in 1..Len(other)
      PROVE  /\ HasChildren(other[n]) =>
                  other[n].left \in 1..(n - 1) /\ other[n].right \in 1..(n - 1)
             /\ other[n].op = "compare" => other[n].of \in Comparisons
  <2>1. CASE n = p
    BY <1>2, <1>4, <2>1 DEF WellMade, HasChildren
  <2>2. CASE n # p
    BY <1>4, <2>2 DEF WellMade
  <2> QED
    BY <2>1, <2>2
<1>6. WellMade(other)
  BY <1>4, <1>5 DEF WellMade
<1> QED
  BY <1>3, <1>4, <1>6 DEF node

(* The flag of a node that is nobody's child changes its own value and no  *)
(* other one.                                                              *)
LEMMA NegatedValues ==
  ASSUME NEW nodes, WellMade(nodes), NEW p \in 1..Len(nodes),
         ~ nodes[p].negated,
         \A n \in 1..Len(nodes) : nodes[n].left # p /\ nodes[n].right # p,
         NEW kind
  PROVE  /\ \A n \in 1..Len(nodes) : n # p =>
              Values(Negated(nodes, p), kind)[n] = Values(nodes, kind)[n]
         /\ Values(Negated(nodes, p), kind)[p] <=> ~ Values(nodes, kind)[p]
<1> DEFINE other == Negated(nodes, p)
           only == {n \in Nat : n = p}
           f == Values(nodes, kind)
           g == Values(other, kind)
<1>1. /\ WellMade(other) /\ Len(other) = Len(nodes)
      /\ \A n \in 1..Len(nodes) : n # p => other[n] = nodes[n]
      /\ other[p] = [nodes[p] EXCEPT !.negated = TRUE]
  BY NegatedFacts
<1>2. nodes[p] \in Node /\ Len(nodes) \in Nat /\ Len(nodes) <= Len(nodes)
  BY DEF WellMade
<1>3. \A n \in 1..Len(nodes) : n \in only <=> n = p
  BY <1>2
<1>4. p \in only
  BY <1>2, <1>3
<1>5. SameOutside(only, nodes, other)
  BY <1>1, <1>2, <1>3 DEF SameOutside
<1> HIDE DEF other, only, f, g
<1>6. \A n \in (1..Len(nodes)) \ only : Values(other, kind)[n] = Values(nodes, kind)[n]
  BY <1>1, <1>5, ValuesAgree
<1>7. f[p] = NodeValue(nodes[p], f, kind) /\ g[p] = NodeValue(other[p], g, kind)
  BY <1>1, ValueOf DEF f, g
<1>8. ASSUME HasChildren(nodes[p])
      PROVE  g[nodes[p].left] = f[nodes[p].left] /\ g[nodes[p].right] = f[nodes[p].right]
  <2>1. nodes[p].left \in 1..(p - 1) /\ nodes[p].right \in 1..(p - 1)
    BY <1>8 DEF WellMade
  <2>2. \A c \in 1..(p - 1) : c \in (1..Len(nodes)) \ only
    BY <1>2, <1>3
  <2> QED
    BY <1>6, <2>1, <2>2 DEF f, g
<1>9. NodeValue(nodes[p], g, kind) = NodeValue(nodes[p], f, kind)
  BY <1>2, <1>8, NodeValueAgrees
<1>10. NodeValue(other[p], g, kind) <=> ~ NodeValue(nodes[p], g, kind)
  <2>1. /\ other[p].op = nodes[p].op /\ other[p].of = nodes[p].of
        /\ other[p].left = nodes[p].left /\ other[p].right = nodes[p].right
        /\ other[p].negated = TRUE /\ nodes[p].negated = FALSE
    BY <1>1, <1>2 DEF Node
  <2>2. nodes[p].op \in Ops
    BY <1>2 DEF Node
  <2>3. CASE nodes[p].op = "true"
    BY <2>1, <2>3 DEF NodeValue
  <2>4. CASE nodes[p].op = "compare"
    <3>1. other[p] \in Node /\ other[p].op = "compare"
      BY <1>1, <2>1, <2>4 DEF WellMade
    <3>2. NodeValue(nodes[p], g, kind) <=> kind \in Holds[nodes[p].of]
      BY <1>2, <2>1, <2>4, CompareValue
    <3>3. NodeValue(other[p], g, kind) <=> kind \notin Holds[nodes[p].of]
      BY <2>1, <3>1, CompareValue
    <3> QED
      BY <3>2, <3>3
  <2>5. CASE nodes[p].op = "and"
    BY <2>1, <2>5 DEF NodeValue
  <2>6. CASE nodes[p].op = "or"
    BY <2>1, <2>6 DEF NodeValue
  <2> QED
    BY <2>2, <2>3, <2>4, <2>5, <2>6 DEF Ops
<1>11. g[p] <=> ~ f[p]
  BY <1>7, <1>9, <1>10
<1> QED
  BY <1>3, <1>6, <1>11 DEF other, f, g

LEMMA StepNot ==
  ASSUME IInv, Not
  PROVE  IInv'
<1>1. Shape /\ Kept /\ Scoped /\ (ownNots => Faithful)
  BY DEF IInv
<1>2. Size = Len(stack) /\ Size \in 1..Len(stack) /\ Size >= 1 /\ 1 \in 0..Len(stack)
  <2>1. Size > Base /\ Base \in Nat /\ Len(stack) \in Nat
    BY <1>1, BaseType DEF Not, Shape
  <2> QED
    BY <2>1 DEF Size
<1>3. Len(heap) \in Nat /\ WellMade(heap)
  BY <1>1, HeapLength
<1>4. PICK p \in 1..Len(heap) : p = stack[Size]
  BY <1>1, <1>2 DEF Kept
<1>5. PICK meaning \in SUBSET Kinds : meaning = meanings[Size]
  BY <1>1, <1>2, MeaningsOfStack
<1>6. /\ Call /\ heap' = Negated(heap, p) /\ Returns(p, 1, Kinds \ meaning)
      /\ UNCHANGED <<lets, letMeanings>>
  BY <1>4, <1>5 DEF Not, Negated
<1>7. ownNots' = (ownNots /\ ~ heap[p].negated /\ Uses(p) = 1)
  BY <1>4 DEF Not
<1>8. /\ stack' \in Seq(Nat) /\ Len(stack') = Len(stack)
      /\ \A i \in 1..(Len(stack) - 1) : stack'[i] = stack[i]
      /\ stack'[Len(stack)] = p
      /\ meanings' \in Seq(SUBSET Kinds) /\ Len(meanings') = Len(stack)
      /\ \A i \in 1..(Len(stack) - 1) : meanings'[i] = meanings[i]
      /\ meanings'[Len(stack)] = Kinds \ meaning
      /\ \A i \in 1..Len(stack) : i \in 1..(Len(stack) - 1) \/ i = Len(stack)
  <2>1. p \in Nat /\ Kinds \ meaning \in SUBSET Kinds /\ Len(stack) - 1 + 1 = Len(stack)
    BY <1>2, <1>3
  <2> QED
    BY <1>1, <1>2, <1>6, <2>1, ReturnsFacts
<1>9. WellMade(heap') /\ Len(heap') = Len(heap)
  BY <1>3, <1>6, NegatedFacts
<1>10. Shape'
  BY <1>1, <1>6, <1>7, <1>8, <1>9, CallType DEF Shape
<1>11. Kept'
  BY <1>1, <1>6, <1>8, <1>9 DEF Kept
<1>12. Scoped'
  BY <1>1, <1>6 DEF Scoped
<1>13. ASSUME ownNots' PROVE Faithful'
  <2>1. Faithful /\ ~ heap[p].negated /\ Uses(p) = 1
    BY <1>1, <1>7, <1>13
  <2>2. /\ \A i \in 1..Len(stack) : stack[i] = p => i = Size
        /\ \A i \in 1..Len(heap) : heap[i].left # p /\ heap[i].right # p
        /\ \A i \in 1..Len(lets) : \A x \in DOMAIN lets[i].new : lets[i].new[x] # p
    BY <1>1, <1>2, <1>4, <2>1, UsedOnce
  <2>3. \A kind :
          /\ \A n \in 1..Len(heap) : n # p => Values(heap', kind)[n] = Values(heap, kind)[n]
          /\ Values(heap', kind)[p] <=> ~ Values(heap, kind)[p]
    BY <1>3, <1>6, <2>1, <2>2, NegatedValues
  <2>4. \A n \in 1..Len(heap) : n # p => HoldsIn(heap', n) = HoldsIn(heap, n)
    BY <2>3 DEF HoldsIn
  <2>5. HoldsIn(heap', p) = Kinds \ HoldsIn(heap, p)
    BY <2>3 DEF HoldsIn
  <2>6. HoldsIn(heap, p) = meaning
    BY <1>2, <1>4, <1>5, <2>1 DEF Faithful
  <2>7. ASSUME NEW i \in 1..Len(stack)
        PROVE  HoldsIn(heap', stack'[i]) = meanings'[i]
    <3>1. CASE i = Len(stack)
      BY <1>8, <2>5, <2>6, <3>1
    <3>2. CASE i \in 1..(Len(stack) - 1)
      <4>1. i # Size
        BY <1>2, <3>2
      <4>2. stack[i] # p /\ stack[i] \in 1..Len(heap)
        BY <1>1, <2>2, <4>1 DEF Kept
      <4>3. HoldsIn(heap, stack[i]) = meanings[i]
        BY <2>1 DEF Faithful
      <4> QED
        BY <1>8, <2>4, <3>2, <4>2, <4>3
    <3> QED
      BY <1>8, <3>1, <3>2
  <2>8. ASSUME NEW i \in 1..Len(lets), NEW x \in DOMAIN lets[i].new
        PROVE  HoldsIn(heap', lets[i].new[x]) = letMeanings[i].new[x]
    <3>1. lets[i].new[x] # p /\ lets[i].new[x] \in 1..Len(heap)
      BY <1>1, <2>2 DEF Kept
    <3>2. HoldsIn(heap, lets[i].new[x]) = letMeanings[i].new[x]
      BY <2>1 DEF Faithful
    <3> QED
      BY <2>4, <3>1, <3>2
  <2> QED
    BY <1>6, <1>8, <2>7, <2>8 DEF Faithful
<1> QED
  BY <1>10, <1>11, <1>12, <1>13 DEF IInv

LEMMA StepBoundVar ==
  ASSUME IInv, NEW x \in Names, BoundVar(x)
  PROVE  IInv'
<1>1. Shape /\ Kept /\ Scoped /\ (ownNots => Faithful)
  BY DEF IInv
<1>2. x \in DOMAIN Bindings
  BY DEF BoundVar
<1>3. PICK j \in 1..Len(lets) :
        /\ x \in DOMAIN lets[j].new
        /\ lets[j].new[x] = Bindings[x]
        /\ letMeanings[j].new[x] = BindingMeanings[x]
  BY <1>1, <1>2, BindingsAreOfLets
<1>4. PICK p \in 1..Len(heap) : p = Bindings[x]
  BY <1>1, <1>3 DEF Kept
<1>5. PICK meaning \in SUBSET Kinds : meaning = BindingMeanings[x]
  <2>1. /\ BindingMeanings \in Scopes(SUBSET Kinds)
        /\ x \in DOMAIN BindingMeanings
    BY <1>1, <1>2, BindingsAreOfLets
  <2> QED
    BY <2>1, ScopeFacts
<1>6. /\ Call /\ Returns(p, 0, meaning)
      /\ UNCHANGED <<heap, lets, letMeanings, ownNots>>
  BY <1>4, <1>5 DEF BoundVar
<1>7. Len(heap) \in Nat /\ Len(stack) \in Nat
  BY <1>1, HeapLength DEF Shape
<1>8. /\ stack' \in Seq(Nat)
      /\ \A i \in 1..(Len(stack) - 0) : stack'[i] = stack[i]
      /\ stack'[Len(stack')] = p
      /\ meanings' \in Seq(SUBSET Kinds) /\ Len(meanings') = Len(stack')
      /\ \A i \in 1..(Len(stack) - 0) : meanings'[i] = meanings[i]
      /\ meanings'[Len(stack')] = meaning
      /\ \A i \in 1..Len(stack') :
           (i \in 1..Len(stack) /\ i \in 1..(Len(stack) - 0)) \/ i = Len(stack')
  <2>1. p \in Nat /\ 0 \in 0..Len(stack)
    BY <1>7
  <2> QED
    BY <1>1, <1>6, <2>1, ReturnsFacts
<1>9. Shape'
  BY <1>1, <1>6, <1>8, CallType DEF Shape
<1>10. Kept'
  BY <1>1, <1>6, <1>8 DEF Kept
<1>11. Scoped'
  BY <1>1, <1>6 DEF Scoped
<1>12. ASSUME ownNots' PROVE Faithful'
  <2>1. Faithful
    BY <1>1, <1>6, <1>12
  <2>2. HoldsIn(heap, p) = meaning
    BY <1>3, <1>4, <1>5, <2>1 DEF Faithful
  <2> QED
    BY <1>6, <1>8, <2>1, <2>2 DEF Faithful
<1> QED
  BY <1>9, <1>10, <1>11, <1>12 DEF IInv

LEMMA StepLet ==
  ASSUME IInv, Let
  PROVE  IInv'
<1>1. Shape /\ Kept /\ Scoped /\ (ownNots => Faithful)
  BY DEF IInv
<1>2. Len(lets) \in Nat /\ Len(letMeanings) = Len(lets) /\ Len(stack) \in Nat
  BY <1>1 DEF Shape
<1>3. PICK b \in Scopes(Nat) : b = Bindings
  BY <1>1, BindingsAreOfLets
<1>4. PICK bm \in Scopes(SUBSET Kinds) : bm = BindingMeanings
  BY <1>1, BindingsAreOfLets
<1>5. /\ DOMAIN bm = DOMAIN b
      /\ \A x \in DOMAIN b : \E j \in 1..Len(lets) :
           /\ x \in DOMAIN lets[j].new
           /\ lets[j].new[x] = b[x]
           /\ letMeanings[j].new[x] = bm[x]
  BY <1>1, <1>3, <1>4, BindingsAreOfLets
<1> DEFINE new == Len(lets) + 1
           one == [base |-> Size, old |-> b, new |-> b, bound |-> FALSE, body |-> FALSE]
           meaning == [old |-> bm, new |-> bm]
<1>6. /\ Call /\ UNCHANGED <<heap, stack, meanings, ownNots>>
      /\ lets' = Append(lets, one)
      /\ letMeanings' = Append(letMeanings, meaning)
  BY <1>3, <1>4 DEF Let
<1>7. /\ one \in BeingBuilt /\ meaning \in Meanings
      /\ one.old = b /\ one.new = b /\ meaning.old = bm /\ meaning.new = bm
  BY <1>2 DEF BeingBuilt, Meanings, Size
<1>8. lets \in Seq(BeingBuilt) /\ letMeanings \in Seq(Meanings)
  BY <1>1 DEF Shape
<1> HIDE DEF one, meaning
<1>9. /\ lets' \in Seq(BeingBuilt) /\ Len(lets') = new
      /\ lets'[new] = one
      /\ \A i \in 1..Len(lets) : lets'[i] = lets[i]
  BY <1>6, <1>7, <1>8
<1>10. /\ letMeanings' \in Seq(Meanings) /\ Len(letMeanings') = new
       /\ letMeanings'[new] = meaning
       /\ \A i \in 1..Len(lets) : letMeanings'[i] = letMeanings[i]
  BY <1>2, <1>6, <1>7, <1>8
<1>11. \A i \in 1..new : i = new \/ i \in 1..Len(lets)
  BY <1>2
<1>12. Shape'
  BY <1>1, <1>6, <1>9, <1>10, CallType DEF Shape
<1>13. ASSUME NEW x \in DOMAIN b
       PROVE  b[x] \in 1..Len(heap)
  BY <1>1, <1>5 DEF Kept
<1>14. Kept'
  BY <1>1, <1>6, <1>7, <1>9, <1>11, <1>13 DEF Kept
<1>15. Scoped'
  <2> SUFFICES ASSUME NEW i \in 1..Len(lets')
               PROVE  /\ DOMAIN letMeanings'[i].new = DOMAIN lets'[i].new
                      /\ DOMAIN letMeanings'[i].old = DOMAIN lets'[i].old
                      /\ \A x \in DOMAIN lets'[i].old :
                           \E j \in 1..(i - 1) :
                             /\ x \in DOMAIN lets'[j].new
                             /\ lets'[j].new[x] = lets'[i].old[x]
                             /\ letMeanings'[j].new[x] = letMeanings'[i].old[x]
    BY DEF Scoped
  <2>1. CASE i \in 1..Len(lets)
    <3>1. lets'[i] = lets[i] /\ letMeanings'[i] = letMeanings[i]
      BY <1>9, <1>10, <2>1
    <3>2. \A j \in 1..(i - 1) : lets'[j] = lets[j] /\ letMeanings'[j] = letMeanings[j]
      BY <1>2, <1>9, <1>10, <2>1
    <3> QED
      BY <1>1, <2>1, <3>1, <3>2 DEF Scoped
  <2>2. CASE i = new
    <3>1. i - 1 = Len(lets)
      BY <1>2, <2>2
    <3>2. lets'[i] = one /\ letMeanings'[i] = meaning
      BY <1>9, <1>10, <2>2
    <3>3. \A j \in 1..(i - 1) : lets'[j] = lets[j] /\ letMeanings'[j] = letMeanings[j]
      BY <1>9, <1>10, <3>1
    <3>4. \A x \in DOMAIN b : \E j \in 1..(i - 1) :
            /\ x \in DOMAIN lets'[j].new
            /\ lets'[j].new[x] = b[x]
            /\ letMeanings'[j].new[x] = bm[x]
      BY <1>5, <3>1, <3>3
    <3> QED
      BY <1>5, <1>7, <3>2, <3>4
  <2> QED
    BY <1>9, <1>11, <2>1, <2>2
<1>16. ASSUME ownNots' PROVE Faithful'
  <2>1. Faithful
    BY <1>1, <1>6, <1>16
  <2>2. ASSUME NEW x \in DOMAIN b
        PROVE  HoldsIn(heap, b[x]) = bm[x]
    BY <1>5, <2>1 DEF Faithful
  <2> QED
    BY <1>6, <1>7, <1>9, <1>10, <1>11, <2>1, <2>2 DEF Faithful
<1> QED
  BY <1>12, <1>14, <1>15, <1>16 DEF IInv

LEMMA InnermostType ==
  ASSUME Shape, lets # <<>>
  PROVE  /\ Len(lets) \in Nat /\ Len(lets) \in 1..Len(lets)
         /\ Innermost = lets[Len(lets)] /\ Base = Innermost.base
         /\ Innermost \in BeingBuilt
         /\ letMeanings[Len(lets)] \in Meanings
<1>1. Len(lets) \in Nat /\ Len(lets) \in 1..Len(lets) /\ Len(letMeanings) = Len(lets)
  BY DEF Shape
<1>2. lets[Len(lets)] \in BeingBuilt /\ letMeanings[Len(lets)] \in Meanings
  BY <1>1 DEF Shape
<1> QED
  BY <1>1, <1>2 DEF Innermost, Base

(* The stack without its last result.                                      *)
LEMMA LastTaken ==
  ASSUME Shape, Len(stack) >= 1,
         stack' = DropLast(stack, 1), meanings' = DropLast(meanings, 1)
  PROVE  /\ stack' \in Seq(Nat) /\ Len(stack') = Len(stack) - 1
         /\ \A i \in 1..Len(stack') : i \in 1..Len(stack) /\ stack'[i] = stack[i]
         /\ meanings' \in Seq(SUBSET Kinds) /\ Len(meanings') = Len(stack')
         /\ \A i \in 1..Len(stack') : meanings'[i] = meanings[i]
<1> DEFINE Sets == SUBSET Kinds
<1>1. /\ stack \in Seq(Nat) /\ meanings \in Seq(Sets) /\ Len(stack) \in Nat
      /\ Len(meanings) = Len(stack) /\ 1 \in 0..Len(stack) /\ 1 \in 0..Len(meanings)
  BY DEF Shape
<1> HIDE DEF Sets
<1>2. /\ DropLast(stack, 1) \in Seq(Nat) /\ Len(DropLast(stack, 1)) = Len(stack) - 1
      /\ \A i \in 1..(Len(stack) - 1) : DropLast(stack, 1)[i] = stack[i]
  BY <1>1, DropLastFacts
<1>3. /\ DropLast(meanings, 1) \in Seq(Sets) /\ Len(DropLast(meanings, 1)) = Len(meanings) - 1
      /\ \A i \in 1..(Len(meanings) - 1) : DropLast(meanings, 1)[i] = meanings[i]
  BY <1>1, DropLastFacts
<1>4. \A i \in 1..(Len(stack) - 1) : i \in 1..Len(stack)
  BY <1>1
<1> QED
  BY <1>1, <1>2, <1>3, <1>4 DEF Sets

LEMMA StepBody ==
  ASSUME IInv, Body
  PROVE  IInv'
<1> DEFINE last == Len(lets)
<1>1. Shape /\ Kept /\ Scoped /\ (ownNots => Faithful)
  BY DEF IInv
<1>2. last \in Nat /\ last \in 1..Len(lets) /\ lets[last] \in BeingBuilt
  BY <1>1, InnermostType DEF Body
<1>3. PICK one : one = [lets[last] EXCEPT !.body = TRUE]
  OBVIOUS
<1>4. one \in BeingBuilt /\ one.old = lets[last].old /\ one.new = lets[last].new
  BY <1>2, <1>3 DEF BeingBuilt
<1>5. /\ Call /\ UNCHANGED <<heap, stack, meanings, letMeanings, ownNots>>
      /\ lets' = [lets EXCEPT ![last] = one]
  BY <1>3 DEF Body
<1>6. lets \in Seq(BeingBuilt)
  BY <1>1 DEF Shape
<1> HIDE DEF last
<1>7. /\ lets' \in Seq(BeingBuilt) /\ Len(lets') = Len(lets)
      /\ \A i \in 1..Len(lets) : lets'[i] = IF i = last THEN one ELSE lets[i]
  BY <1>2, <1>4, <1>5, <1>6, ExceptSeq
<1>8. \A i \in 1..Len(lets) : lets'[i].old = lets[i].old /\ lets'[i].new = lets[i].new
  BY <1>4, <1>7
<1>9. Shape'
  BY <1>1, <1>5, <1>7, CallType DEF Shape
<1>10. Kept'
  BY <1>1, <1>5, <1>7, <1>8 DEF Kept
<1>11. Scoped'
  <2>1. \A i \in 1..Len(lets) : \A j \in 1..(i - 1) : j \in 1..Len(lets)
    BY <1>6
  <2> QED
    BY <1>1, <1>5, <1>7, <1>8, <2>1 DEF Scoped
<1>12. ASSUME ownNots' PROVE Faithful'
  BY <1>1, <1>5, <1>7, <1>8, <1>12 DEF Faithful
<1> QED
  BY <1>9, <1>10, <1>11, <1>12 DEF IInv

LEMMA StepEndLet ==
  ASSUME IInv, EndLet
  PROVE  IInv'
<1>1. Shape /\ Kept /\ Scoped /\ (ownNots => Faithful)
  BY DEF IInv
<1>2. Len(lets) \in Nat /\ 1 \in 0..Len(lets) /\ Len(letMeanings) = Len(lets)
  <2>1. Len(lets) \in Nat /\ Len(lets) \in 1..Len(lets)
    BY <1>1, InnermostType DEF EndLet
  <2> QED
    BY <1>1, <2>1 DEF Shape
<1>3. lets \in Seq(BeingBuilt) /\ letMeanings \in Seq(Meanings) /\ 1 \in 0..Len(letMeanings)
  BY <1>1, <1>2 DEF Shape
<1>4. /\ UNCHANGED <<heap, stack, steps, meanings, ownNots>>
      /\ lets' = DropLast(lets, 1) /\ letMeanings' = DropLast(letMeanings, 1)
  BY DEF EndLet
<1>5. /\ DropLast(lets, 1) \in Seq(BeingBuilt) /\ Len(DropLast(lets, 1)) = Len(lets) - 1
      /\ \A i \in 1..(Len(lets) - 1) : DropLast(lets, 1)[i] = lets[i]
  BY <1>2, <1>3, DropLastFacts
<1>6. /\ DropLast(letMeanings, 1) \in Seq(Meanings)
      /\ Len(DropLast(letMeanings, 1)) = Len(letMeanings) - 1
      /\ \A i \in 1..(Len(letMeanings) - 1) : DropLast(letMeanings, 1)[i] = letMeanings[i]
  BY <1>2, <1>3, DropLastFacts
<1>7. /\ lets' \in Seq(BeingBuilt) /\ letMeanings' \in Seq(Meanings)
      /\ Len(letMeanings') = Len(lets')
      /\ \A i \in 1..Len(lets') :
           /\ i \in 1..Len(lets)
           /\ lets'[i] = lets[i] /\ letMeanings'[i] = letMeanings[i]
           /\ \A j \in 1..(i - 1) : j \in 1..Len(lets')
  BY <1>2, <1>4, <1>5, <1>6
<1>8. Shape'
  BY <1>1, <1>4, <1>7 DEF Shape
<1>9. Kept'
  BY <1>1, <1>4, <1>7 DEF Kept
<1>10. Scoped'
  <2> SUFFICES ASSUME NEW i \in 1..Len(lets')
               PROVE  /\ DOMAIN letMeanings'[i].new = DOMAIN lets'[i].new
                      /\ DOMAIN letMeanings'[i].old = DOMAIN lets'[i].old
                      /\ \A x \in DOMAIN lets'[i].old :
                           \E j \in 1..(i - 1) :
                             /\ x \in DOMAIN lets'[j].new
                             /\ lets'[j].new[x] = lets'[i].old[x]
                             /\ letMeanings'[j].new[x] = letMeanings'[i].old[x]
    BY DEF Scoped
  <2>1. i \in 1..Len(lets) /\ lets'[i] = lets[i] /\ letMeanings'[i] = letMeanings[i]
    BY <1>7
  <2>2. \A j \in 1..(i - 1) : lets'[j] = lets[j] /\ letMeanings'[j] = letMeanings[j]
    BY <1>7
  <2>3. /\ DOMAIN letMeanings[i].new = DOMAIN lets[i].new
        /\ DOMAIN letMeanings[i].old = DOMAIN lets[i].old
        /\ \A x \in DOMAIN lets[i].old :
             \E j \in 1..(i - 1) :
               /\ x \in DOMAIN lets[j].new
               /\ lets[j].new[x] = lets[i].old[x]
               /\ letMeanings[j].new[x] = letMeanings[i].old[x]
    BY <1>1, <2>1 DEF Scoped
  <2> QED
    BY <2>1, <2>2, <2>3
<1>11. ASSUME ownNots' PROVE Faithful'
  BY <1>1, <1>4, <1>7, <1>11 DEF Faithful
<1> QED
  BY <1>8, <1>9, <1>10, <1>11 DEF IInv

LEMMA StepVarBinding ==
  ASSUME IInv, NEW x \in Names, VarBinding(x)
  PROVE  IInv'
<1> DEFINE last == Len(lets)
<1>1. Shape /\ Kept /\ Scoped /\ (ownNots => Faithful)
  BY DEF IInv
<1>2. /\ last \in Nat /\ last \in 1..Len(lets) /\ last \in 1..Len(letMeanings)
      /\ lets[last] \in BeingBuilt /\ letMeanings[last] \in Meanings
      /\ Base \in Nat
  <2>1. lets # <<>> /\ Len(letMeanings) = Len(lets)
    BY <1>1 DEF VarBinding, Shape
  <2> QED
    BY <1>1, <2>1, InnermostType, BaseType
<1>3. Size = Len(stack) /\ Size \in 1..Len(stack) /\ Len(stack) >= 1
  <2>1. Size = Base + 1 /\ Len(stack) \in Nat
    BY <1>1 DEF VarBinding, Shape
  <2> QED
    BY <1>2, <2>1 DEF Size
<1>4. PICK p \in 1..Len(heap) : p = stack[Size]
  BY <1>1, <1>3 DEF Kept
<1>5. PICK meaning \in SUBSET Kinds : meaning = meanings[Size]
  BY <1>1, <1>3, MeaningsOfStack
<1>6. p \in Nat
  BY <1>1, HeapLength
<1>7. PICK before \in Scopes(Nat) : before = lets[last].new
  BY <1>2 DEF BeingBuilt
<1>8. PICK beforeMeanings \in Scopes(SUBSET Kinds) : beforeMeanings = letMeanings[last].new
  BY <1>2 DEF Meanings
<1>9. PICK after \in Scopes(Nat) :
        /\ after = Extended(before, x, p)
        /\ DOMAIN after = DOMAIN before \cup {x}
        /\ after[x] = p
        /\ \A y \in DOMAIN before \ {x} : after[y] = before[y]
  <2>1. Extended(before, x, p) \in Scopes(Nat)
    BY <1>6, ExtendedIsScope
  <2> QED
    BY <2>1 DEF Extended
<1>10. PICK afterMeanings \in Scopes(SUBSET Kinds) :
         /\ afterMeanings = Extended(beforeMeanings, x, meaning)
         /\ DOMAIN afterMeanings = DOMAIN beforeMeanings \cup {x}
         /\ afterMeanings[x] = meaning
         /\ \A y \in DOMAIN beforeMeanings \ {x} : afterMeanings[y] = beforeMeanings[y]
  <2>1. Extended(beforeMeanings, x, meaning) \in Scopes(SUBSET Kinds)
    BY ExtendedIsScope
  <2> QED
    BY <2>1 DEF Extended
<1>11. PICK one : one = [lets[last] EXCEPT !.new = after, !.bound = TRUE]
  OBVIOUS
<1>12. one \in BeingBuilt /\ one.old = lets[last].old /\ one.new = after
  BY <1>2, <1>11 DEF BeingBuilt
<1>13. PICK oneMeaning : oneMeaning = [letMeanings[last] EXCEPT !.new = afterMeanings]
  OBVIOUS
<1>14. /\ oneMeaning \in Meanings
       /\ oneMeaning.old = letMeanings[last].old /\ oneMeaning.new = afterMeanings
  BY <1>2, <1>13 DEF Meanings
<1>15. /\ Call /\ UNCHANGED <<heap, ownNots>>
       /\ stack' = DropLast(stack, 1) /\ meanings' = DropLast(meanings, 1)
  BY DEF VarBinding
<1>16. lets \in Seq(BeingBuilt) /\ letMeanings \in Seq(Meanings) /\ Len(letMeanings) = Len(lets)
  BY <1>1 DEF Shape
<1>17. lets' = [lets EXCEPT ![last] = one]
  <2>1. lets' = [lets EXCEPT ![last].new = Extended(@, x, stack[Size]),
                            ![last].bound = TRUE]
    BY DEF VarBinding
  <2> QED
    BY <1>2, <1>4, <1>7, <1>9, <1>11, <1>16, <2>1
<1>18. letMeanings' = [letMeanings EXCEPT ![last] = oneMeaning]
  <2>1. letMeanings' = [letMeanings EXCEPT ![last].new = Extended(@, x, meanings[Size])]
    BY DEF VarBinding
  <2> QED
    BY <1>2, <1>5, <1>8, <1>10, <1>13, <1>16, <2>1
<1> HIDE DEF last
<1>19. /\ lets' \in Seq(BeingBuilt) /\ Len(lets') = Len(lets)
       /\ \A i \in 1..Len(lets) : lets'[i] = IF i = last THEN one ELSE lets[i]
  BY <1>2, <1>12, <1>16, <1>17, ExceptSeq
<1>20. /\ letMeanings' \in Seq(Meanings) /\ Len(letMeanings') = Len(lets)
       /\ \A i \in 1..Len(lets) :
            letMeanings'[i] = IF i = last THEN oneMeaning ELSE letMeanings[i]
  BY <1>2, <1>14, <1>16, <1>18, ExceptSeq
<1>21. /\ stack' \in Seq(Nat)
       /\ \A i \in 1..Len(stack') : i \in 1..Len(stack) /\ stack'[i] = stack[i]
       /\ meanings' \in Seq(SUBSET Kinds) /\ Len(meanings') = Len(stack')
       /\ \A i \in 1..Len(stack') : meanings'[i] = meanings[i]
  BY <1>1, <1>3, <1>15, LastTaken
<1>22. Shape'
  BY <1>1, <1>15, <1>19, <1>20, <1>21, CallType DEF Shape
<1>23. Kept'
  <2>1. \A i \in 1..Len(stack') : stack'[i] \in 1..Len(heap')
    BY <1>1, <1>15, <1>21 DEF Kept
  <2>2. ASSUME NEW i \in 1..Len(lets), NEW y \in DOMAIN lets'[i].new
        PROVE  lets'[i].new[y] \in 1..Len(heap')
    <3>1. CASE i = last
      <4>1. y \in DOMAIN after /\ lets'[i].new[y] = after[y]
        BY <1>12, <1>19, <3>1
      <4>2. CASE y = x
        BY <1>9, <1>15, <4>1, <4>2
      <4>3. CASE y # x
        <5>1. y \in DOMAIN before /\ after[y] = before[y]
          BY <1>9, <4>1, <4>3
        <5>2. before[y] \in 1..Len(heap)
          BY <1>1, <1>2, <1>7, <5>1 DEF Kept
        <5> QED
          BY <1>15, <4>1, <5>1, <5>2
      <4> QED
        BY <4>2, <4>3
    <3>2. CASE i # last
      BY <1>1, <1>15, <1>19, <3>2 DEF Kept
    <3> QED
      BY <3>1, <3>2
  <2> QED
    BY <1>19, <2>1, <2>2 DEF Kept
<1>24. Scoped'
  <2> SUFFICES ASSUME NEW i \in 1..Len(lets)
               PROVE  /\ DOMAIN letMeanings'[i].new = DOMAIN lets'[i].new
                      /\ DOMAIN letMeanings'[i].old = DOMAIN lets'[i].old
                      /\ \A y \in DOMAIN lets'[i].old :
                           \E j \in 1..(i - 1) :
                             /\ y \in DOMAIN lets'[j].new
                             /\ lets'[j].new[y] = lets'[i].old[y]
                             /\ letMeanings'[j].new[y] = letMeanings'[i].old[y]
    BY <1>19 DEF Scoped
  <2>1. lets'[i].old = lets[i].old /\ letMeanings'[i].old = letMeanings[i].old
    BY <1>12, <1>14, <1>19, <1>20
  <2>2. DOMAIN letMeanings'[i].new = DOMAIN lets'[i].new
    <3>1. DOMAIN letMeanings[i].new = DOMAIN lets[i].new
      BY <1>1 DEF Scoped
    <3>2. CASE i = last
      BY <1>7, <1>8, <1>9, <1>10, <1>12, <1>14, <1>19, <1>20, <3>1, <3>2
    <3>3. CASE i # last
      BY <1>19, <1>20, <3>1, <3>3
    <3> QED
      BY <3>2, <3>3
  <2>3. \A j \in 1..(i - 1) : lets'[j] = lets[j] /\ letMeanings'[j] = letMeanings[j]
    <3>1. \A j \in 1..(i - 1) : j \in 1..Len(lets) /\ j # last
      BY <1>2 DEF last
    <3> QED
      BY <1>19, <1>20, <3>1
  <2> QED
    BY <1>1, <2>1, <2>2, <2>3 DEF Scoped
<1>25. ASSUME ownNots' PROVE Faithful'
  <2>1. Faithful
    BY <1>1, <1>15, <1>25
  <2>2. \A i \in 1..Len(stack') : HoldsIn(heap', stack'[i]) = meanings'[i]
    BY <1>15, <1>21, <2>1 DEF Faithful
  <2>3. HoldsIn(heap, p) = meaning
    BY <1>3, <1>4, <1>5, <2>1 DEF Faithful
  <2>4. ASSUME NEW i \in 1..Len(lets), NEW y \in DOMAIN lets'[i].new
        PROVE  HoldsIn(heap', lets'[i].new[y]) = letMeanings'[i].new[y]
    <3>1. CASE i = last
      <4>1. /\ y \in DOMAIN after /\ lets'[i].new[y] = after[y]
            /\ letMeanings'[i].new[y] = afterMeanings[y]
        BY <1>12, <1>14, <1>19, <1>20, <3>1
      <4>2. CASE y = x
        BY <1>9, <1>10, <1>15, <2>3, <4>1, <4>2
      <4>3. CASE y # x
        <5>1. DOMAIN beforeMeanings = DOMAIN before
          BY <1>1, <1>2, <1>7, <1>8 DEF Scoped
        <5>2. /\ y \in DOMAIN before /\ after[y] = before[y]
              /\ afterMeanings[y] = beforeMeanings[y]
          BY <1>9, <1>10, <4>1, <4>3, <5>1
        <5>3. HoldsIn(heap, before[y]) = beforeMeanings[y]
          BY <1>2, <1>7, <1>8, <2>1, <5>2 DEF Faithful
        <5> QED
          BY <1>15, <4>1, <5>2, <5>3
      <4> QED
        BY <4>2, <4>3
    <3>2. CASE i # last
      BY <1>15, <1>19, <1>20, <2>1, <3>2 DEF Faithful
    <3> QED
      BY <3>1, <3>2
  <2> QED
    BY <1>19, <2>2, <2>4 DEF Faithful
<1> QED
  BY <1>22, <1>23, <1>24, <1>25 DEF IInv

LEMMA InitIInv == Init => IInv
<1> SUFFICES ASSUME Init PROVE IInv
  OBVIOUS
<1>1. Len(heap) = 0 /\ Len(stack) = 0 /\ Len(lets) = 0 /\ Len(meanings) = 0 /\ Len(letMeanings) = 0
  BY DEF Init
<1>2. Shape
  BY <1>1, GuardBuilderAssumption DEF Init, Shape, WellMade
<1>3. Kept /\ Scoped /\ Faithful
  BY <1>1 DEF Kept, Scoped, Faithful
<1> QED
  BY <1>2, <1>3 DEF IInv

LEMMA NextIInv == IInv /\ [Next]_vars => IInv'
<1> SUFFICES ASSUME IInv, [Next]_vars PROVE IInv'
  OBVIOUS
<1>1. CASE UNCHANGED vars
  <2>1. UNCHANGED <<heap, stack, lets, steps, meanings, letMeanings, ownNots>>
    BY <1>1 DEF vars
  <2>2. Shape' <=> Shape
    BY <2>1 DEF Shape
  <2>3. (Kept' <=> Kept) /\ (Scoped' <=> Scoped) /\ (Faithful' <=> Faithful)
    BY <2>1 DEF Kept, Scoped, Faithful
  <2> QED
    BY <2>1, <2>2, <2>3 DEF IInv
<1>2. CASE \E c \in Comparisons : Compare(c)
  BY <1>2, StepCompare
<1>3. CASE True
  BY <1>3, StepTrue
<1>4. CASE False
  BY <1>4, StepFalse
<1>5. CASE \E op \in {"and", "or"} : AndOr(op)
  BY <1>5, StepAndOr
<1>6. CASE Not
  BY <1>6, StepNot
<1>7. CASE \E x \in Names : BoundVar(x)
  BY <1>7, StepBoundVar
<1>8. CASE \E x \in Names : VarBinding(x)
  BY <1>8, StepVarBinding
<1>9. CASE Let
  BY <1>9, StepLet
<1>10. CASE Body
  BY <1>10, StepBody
<1>11. CASE EndLet
  BY <1>11, StepEndLet
<1> QED
  BY <1>1, <1>2, <1>3, <1>4, <1>5, <1>6, <1>7, <1>8, <1>9, <1>10, <1>11 DEF Next

-----------------------------------------------------------------------------
(* The builder makes children before their parents and binds names to      *)
(* nodes that exist: the evaluation of a guard ends, and meets no node     *)
(* that is missing.                                                        *)
THEOREM GuardTyping == Spec => []TypeOK
<1>1. Init => IInv
  BY InitIInv
<1>2. IInv /\ [Next]_vars => IInv'
  BY NextIInv
<1>3. IInv => TypeOK
  BY IInvSuffices
<1> QED
  BY <1>1, <1>2, <1>3, PTL DEF Spec

(* Whatever the expressions share through lets, a guard holds on the       *)
(* packets its text says, as long as every not is given a node of its own  *)
(* that is not negated yet.                                                *)
THEOREM GuardsFaithful == Spec => []FaithfulWithOwnNots
<1>1. Init => IInv
  BY InitIInv
<1>2. IInv /\ [Next]_vars => IInv'
  BY NextIInv
<1>3. IInv => FaithfulWithOwnNots
  BY IInvSuffices
<1> QED
  BY <1>1, <1>2, <1>3, PTL DEF Spec

=============================================================================
