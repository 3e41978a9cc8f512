-------------------------------- MODULE DSFA --------------------------------
(***************************************************************************)
(* The deterministic symbolic automaton of one invariant, as the verifiers *)
(* load it from a .sm file, and the list of constraint-tree roots they     *)
(* keep for a key when the automaton mentions one location or variable     *)
(* (every .sm file of the repository mentions at most one).                *)
(*                                                                         *)
(* A guard is abstracted to what it tells apart: the kind of the packet    *)
(* (the outcome of the comparisons with literals, locations and fields)    *)
(* and whether the packet's value equals the variable.                     *)
(***************************************************************************)
EXTENDS Naturals, Sequences

CONSTANTS
  States,        \* the state numbers of the .sm file
  StartState,    \* its line 2
  FinalStates,   \* its line 3
  HasVariables,  \* whether lines 6 and 7 name a location or a variable
  Moves,         \* state -> its moves, in the order of the file
  Kinds,         \* what guards can tell about a packet, its value apart
  Values,        \* what the variable is compared with
  Star,          \* the null constraint: every value not named by a root
  Times,         \* timestamps
  MaxPackets     \* bound: the packets one stream carries

Move == [when : SUBSET (Kinds \X BOOLEAN),  \* the guard, as the set it holds on
         compares : SUBSET Kinds,           \* kinds on which it reads the variable
         to : States,
         suppress : BOOLEAN]

(* id numbers the packets of a key in the order they reach the processor.  *)
Packet == [id : 1..MaxPackets, time : Times, kind : Kinds, value : Values]

ASSUME DSFAAssumption ==
  /\ StartState \in States
  /\ FinalStates \subseteq States
  /\ HasVariables \in BOOLEAN
  /\ Moves \in [States -> Seq(Move)]
  /\ Star \notin Values
  /\ Star \notin Packet
  /\ Times \subseteq Nat
  /\ MaxPackets \in Nat

(* A guard that does not read the variable cannot tell values apart.       *)
ASSUME GuardAssumption ==
  \A state \in States : \A i \in DOMAIN Moves[state] :
    LET move == Moves[state][i]
    IN \A kind \in Kinds \ move.compares :
         <<kind, TRUE>> \in move.when <=> <<kind, FALSE>> \in move.when

(* The values told apart by one instance of the automaton each.            *)
Tracked == IF HasVariables THEN Values \cup {Star} ELSE {Star}

-----------------------------------------------------------------------------
(* Moves are tried in file order and the first whose guard holds is taken. *)

Matches(state, kind, eq) ==
  {i \in DOMAIN Moves[state] : <<kind, eq>> \in Moves[state][i].when}

HasMove(state, kind, eq) == Matches(state, kind, eq) # {}

FirstMatch(state, kind, eq) ==
  CHOOSE i \in Matches(state, kind, eq) :
    \A j \in Matches(state, kind, eq) : i <= j

MoveTaken(state, kind, eq) == Moves[state][FirstMatch(state, kind, eq)]

(* Mutant: the position of the move is taken for its target.               *)
MutantTarget(state, kind, eq) == FirstMatch(state, kind, eq)

Target(state, kind, eq) == MoveTaken(state, kind, eq).to

(* Whether looking for the move reads the variable: some guard up to and   *)
(* including the one that holds compares it (And and Or short-circuit).    *)
ReadsVariable(state, kind) ==
  \E i \in 1..FirstMatch(state, kind, FALSE) :
    kind \in Moves[state][i].compares

-----------------------------------------------------------------------------
(* A root is [constraint, state]. Its constraint is Star, or the packet    *)
(* whose field the constraint array is: DSFA.find compares arrays by       *)
(* reference, so a later packet with an equal value is another constraint. *)

Root == [constraint : Packet \cup {Star}, state : States]

FreshTree == <<[constraint |-> Star, state |-> StartState]>>

ValueOf(root) == IF root.constraint = Star THEN Star ELSE root.constraint.value

(* An unconstrained comparison is false whatever the packet holds.         *)
Equal(root, p) == ValueOf(root) = p.value

Find(roots, constraint) ==
  \E i \in DOMAIN roots : roots[i].constraint = constraint

(* Mutant: the clone enters at the head of the list.                       *)
MutantSplitIfNew(roots, p) ==
  IF /\ \E i \in DOMAIN roots :
          /\ roots[i].constraint = Star
          /\ ReadsVariable(roots[i].state, p.kind)
     /\ ~ Find(roots, p)
  THEN <<[constraint |-> p, state |-> roots[1].state]>> \o roots
  ELSE roots

(* Evaluating a guard on the unconstrained root clones the first root for  *)
(* the packet's value unless the list already holds that very constraint.  *)
SplitIfNew(roots, p) ==
  IF /\ \E i \in DOMAIN roots :
          /\ roots[i].constraint = Star
          /\ ReadsVariable(roots[i].state, p.kind)
     /\ ~ Find(roots, p)
  THEN Append(roots, [constraint |-> p, state |-> roots[1].state])
  ELSE roots

CanAdvance(root, p) == HasMove(root.state, p.kind, Equal(root, p))

AdvanceRoot(root, p) ==
  [root EXCEPT !.state = Target(root.state, p.kind, Equal(root, p))]

(* Mutant: the root appended by the split misses the pass.                 *)
MutantAdvanceRoots(roots, p) ==
  LET split == SplitIfNew(roots, p)
  IN [i \in DOMAIN split |-> IF i \in DOMAIN roots THEN AdvanceRoot(split[i], p)
                             ELSE split[i]]

(* One pass over the roots; a root appended by the split is visited too.   *)
AdvanceRoots(roots, p) ==
  LET split == SplitIfNew(roots, p)
  IN [i \in DOMAIN split |-> AdvanceRoot(split[i], p)]

CanAdvanceRoots(roots, p) ==
  /\ \A i \in DOMAIN roots : CanAdvance(roots[i], p)
  /\ LET split == SplitIfNew(roots, p)
     IN \A i \in DOMAIN split : CanAdvance(split[i], p)

AnyInFinal(roots) == \E i \in DOMAIN roots : roots[i].state \in FinalStates

(* ArrayList.remove(int).                                                  *)
RemoveRoot(roots, i) == SubSeq(roots, 1, i - 1) \o SubSeq(roots, i + 1, Len(roots))

(* Collections.frequency(subtreeStrings, subtreeStrings.get(i)) > 1: the   *)
(* string of a root without children is its state alone.                   *)
IsDuplicate(roots, i) ==
  \E j \in DOMAIN roots \ {i} : roots[j].state = roots[i].state

=============================================================================
