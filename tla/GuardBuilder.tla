---------------------------- MODULE GuardBuilder ----------------------------
(***************************************************************************)
(* How both verifiers build the guard of a move from the parse tree of its *)
(* SMT-LIB text. The builder is recursive; it is seen here from the nodes  *)
(* it makes, in the order it makes them: a stack holds the results of the  *)
(* expressions whose parent is not built yet. A let binds a name to a      *)
(* node, which every use of the name shares, and not sets a flag of the    *)
(* node it is given. And and Or of more than two expressions are nested    *)
(* ones of two. Comparisons are abstracted to the packets they hold on.    *)
(***************************************************************************)
EXTENDS Naturals, Sequences, FiniteSets

CONSTANTS
  Kinds,       \* what comparisons tell about a packet
  Comparisons,
  Holds,       \* comparison -> the kinds it holds on
  Names,       \* names a let can bind
  None,        \* no comparison
  MaxSteps     \* bound: calls of the builder

ASSUME GuardBuilderAssumption ==
  /\ Holds \in [Comparisons -> SUBSET Kinds]
  /\ None \notin Comparisons
  /\ IsFiniteSet(Names)
  /\ MaxSteps \in Nat

VARIABLES
  heap,   \* the nodes, in the order they are made
  stack,  \* results waiting for their parent: positions in heap
  lets,   \* the lets being built, innermost last
  steps   \* calls so far

(* Ghosts: what SMT-LIB says of each result on the stack and of each name  *)
(* bound by the lets, as the set of kinds it holds on; and whether every   *)
(* not was given a node of its own that was not negated.                   *)
VARIABLES meanings, letMeanings, ownNots

vars == <<heap, stack, lets, steps, meanings, letMeanings, ownNots>>

-----------------------------------------------------------------------------
(* What the evaluation of a node answers, given what those of its children *)
(* answer.                                                                 *)
NodeValue(node, value, kind) ==
  LET plain == CASE node.op = "true" -> TRUE
                 [] node.op = "compare" -> kind \in Holds[node.of]
                 [] node.op = "and" -> value[node.left] /\ value[node.right]
                 [] node.op = "or" -> value[node.left] \/ value[node.right]
  IN plain # node.negated

(* The value of every node for a packet: children are made first.          *)
Values(nodes, kind) ==
  LET value[n \in 0..Len(nodes)] ==
        IF n = 0 THEN FALSE ELSE NodeValue(nodes[n], value, kind)
  IN value

HoldsOn(n) == {kind \in Kinds : Values(heap, kind)[n]}

Leaf(op, of) == [op |-> op, of |-> of, left |-> 0, right |-> 0, negated |-> FALSE]

Parent(op, left, right) ==
  [op |-> op, of |-> None, left |-> left, right |-> right, negated |-> FALSE]

-----------------------------------------------------------------------------
Size == Len(stack)
DropLast(s, n) == SubSeq(s, 1, Len(s) - n)

(* Where the expressions of the innermost let start on the stack, and the  *)
(* bindings the builder is called with: those of its values are the old    *)
(* ones.                                                                   *)
Innermost == lets[Len(lets)]
Base == IF lets = <<>> THEN 0 ELSE Innermost.base
NoNames == [x \in {} |-> 0]

InScope(all) ==
  IF lets = <<>> THEN NoNames
  ELSE IF Innermost.body THEN all[Len(lets)].new ELSE all[Len(lets)].old

Bindings == InScope(lets)
BindingMeanings == InScope(letMeanings)

Init ==
  /\ heap = <<>>
  /\ stack = <<>>
  /\ lets = <<>>
  /\ steps = 0
  /\ meanings = <<>>
  /\ letMeanings = <<>>
  /\ ownNots = TRUE

Call == steps < MaxSteps /\ steps' = steps + 1

(* The result of a call, with its meaning, in the place of n results.      *)
Returns(node, n, meaning) ==
  /\ stack' = Append(DropLast(stack, n), node)
  /\ meanings' = Append(DropLast(meanings, n), meaning)

(* Mutant: the result refers to a node that is not kept.                   *)
MutantCompare(c) ==
  /\ Call
  /\ Returns(Len(heap) + 1, 0, Holds[c])
  /\ UNCHANGED <<heap, lets, letMeanings, ownNots>>

(* A comparison, or true.                                                  *)
Compare(c) ==
  /\ Call
  /\ heap' = Append(heap, Leaf("compare", c))
  /\ Returns(Len(heap) + 1, 0, Holds[c])
  /\ UNCHANGED <<lets, letMeanings, ownNots>>

True ==
  /\ Call
  /\ heap' = Append(heap, Leaf("true", None))
  /\ Returns(Len(heap) + 1, 0, Kinds)
  /\ UNCHANGED <<lets, letMeanings, ownNots>>

(* Mutant: the node is not negated.                                        *)
MutantFalse ==
  /\ Call
  /\ heap' = Append(heap, Leaf("true", None))
  /\ Returns(Len(heap) + 1, 0, {})
  /\ UNCHANGED <<lets, letMeanings, ownNots>>

(* A TrueExpr whose negated is toggled.                                    *)
False ==
  /\ Call
  /\ heap' = Append(heap, [Leaf("true", None) EXCEPT !.negated = TRUE])
  /\ Returns(Len(heap) + 1, 0, {})
  /\ UNCHANGED <<lets, letMeanings, ownNots>>

AndOr(op) ==
  /\ Call
  /\ Size >= Base + 2
  /\ heap' = Append(heap, Parent(op, stack[Size - 1], stack[Size]))
  /\ Returns(Len(heap) + 1, 2,
             IF op = "and" THEN meanings[Size - 1] \cap meanings[Size]
             ELSE meanings[Size - 1] \cup meanings[Size])
  /\ UNCHANGED <<lets, letMeanings, ownNots>>

(* The places that refer to a node.                                        *)
Uses(n) ==
  Cardinality({i \in DOMAIN stack : stack[i] = n})
    + Cardinality({i \in DOMAIN heap : n \in {heap[i].left, heap[i].right}})
    + Cardinality({use \in (DOMAIN lets) \X Names :
                     /\ use[2] \in DOMAIN lets[use[1]].new
                     /\ lets[use[1]].new[use[2]] = n})

(* Sets the flag of the node, whatever it was and whoever shares it.       *)
Not ==
  /\ Call
  /\ Size > Base
  /\ heap' = [heap EXCEPT ![stack[Size]].negated = TRUE]
  /\ Returns(stack[Size], 1, Kinds \ meanings[Size])
  /\ ownNots' = (ownNots /\ ~ heap[stack[Size]].negated /\ Uses(stack[Size]) = 1)
  /\ UNCHANGED <<lets, letMeanings>>

(* A name: the very node it is bound to.                                   *)
BoundVar(x) ==
  /\ Call
  /\ x \in DOMAIN Bindings
  /\ Returns(Bindings[x], 0, BindingMeanings[x])
  /\ UNCHANGED <<heap, lets, letMeanings, ownNots>>

(* A let: a copy of the bindings, then its values one after the other,     *)
(* then its body, with the new bindings.                                   *)
Let ==
  /\ Call
  /\ lets' = Append(lets, [base |-> Size, old |-> Bindings, new |-> Bindings,
                           bound |-> FALSE, body |-> FALSE])
  /\ letMeanings' =
       Append(letMeanings, [old |-> BindingMeanings, new |-> BindingMeanings])
  /\ UNCHANGED <<heap, stack, meanings, ownNots>>

Extended(scope, x, value) ==
  [y \in DOMAIN scope \cup {x} |-> IF y = x THEN value ELSE scope[y]]

VarBinding(x) ==
  /\ Call
  /\ lets # <<>> /\ ~ Innermost.body /\ Size = Base + 1
  /\ lets' = [lets EXCEPT ![Len(lets)].new = Extended(@, x, stack[Size]),
                         ![Len(lets)].bound = TRUE]
  /\ letMeanings' =
       [letMeanings EXCEPT ![Len(lets)].new = Extended(@, x, meanings[Size])]
  /\ stack' = DropLast(stack, 1)
  /\ meanings' = DropLast(meanings, 1)
  /\ UNCHANGED <<heap, ownNots>>

Body ==
  /\ Call
  /\ lets # <<>> /\ ~ Innermost.body /\ Size = Base
  /\ Innermost.bound
  /\ lets' = [lets EXCEPT ![Len(lets)].body = TRUE]
  /\ UNCHANGED <<heap, stack, meanings, letMeanings, ownNots>>

EndLet ==
  /\ lets # <<>> /\ Innermost.body /\ Size = Base + 1
  /\ lets' = DropLast(lets, 1)
  /\ letMeanings' = DropLast(letMeanings, 1)
  /\ UNCHANGED <<heap, stack, steps, meanings, ownNots>>

Next ==
  \/ \E c \in Comparisons : Compare(c)
  \/ True
  \/ False
  \/ \E op \in {"and", "or"} : AndOr(op)
  \/ Not
  \/ \E x \in Names : BoundVar(x) \/ VarBinding(x)
  \/ Let
  \/ Body
  \/ EndLet

Spec == Init /\ [][Next]_vars

-----------------------------------------------------------------------------
(* Children are made before their parents, so that the evaluation of a     *)
(* guard ends, and names are bound to nodes.                               *)
TypeOK ==
  /\ \A n \in DOMAIN heap :
       /\ heap[n].op \in {"true", "compare", "and", "or"}
       /\ heap[n].negated \in BOOLEAN
       /\ heap[n].op = "compare" => heap[n].of \in Comparisons
       /\ heap[n].op \in {"and", "or"} => {heap[n].left, heap[n].right} \subseteq 1..(n - 1)
  /\ \A i \in DOMAIN stack : stack[i] \in DOMAIN heap
  /\ Len(meanings) = Size /\ Len(letMeanings) = Len(lets)
  /\ \A i \in DOMAIN lets : \A x \in DOMAIN lets[i].new : lets[i].new[x] \in DOMAIN heap
  /\ steps \in 0..MaxSteps

(* A guard holds on the packets its text says, whatever is shared through  *)
(* lets, as long as every not is given a comparison, conjunction or        *)
(* disjunction of its own: not of a name, of a not or of false is lost, or *)
(* negates what others share.                                              *)
FaithfulWithOwnNots ==
  ownNots =>
    /\ \A i \in DOMAIN stack : HoldsOn(stack[i]) = meanings[i]
    /\ \A i \in DOMAIN lets : \A x \in DOMAIN lets[i].new :
         HoldsOn(lets[i].new[x]) = letMeanings[i].new[x]

=============================================================================
