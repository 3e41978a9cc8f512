----------------------------- MODULE GenerateSFA -----------------------------
(***************************************************************************)
(* What the invariant compiler writes: which moves of the global automaton *)
(* may be suppressed, and for each location of the invariant the two local *)
(* automata that every node runs, with the flags of their moves. Compiled  *)
(* from the minimal global automaton of an invariant without variables.    *)
(*                                                                         *)
(* A guard is the set of letters it holds on. A letter is the kind of an   *)
(* event (the outcome of every comparison of its fields) and the locations *)
(* of the invariant whose equation META_rho = location is true.            *)
(***************************************************************************)
EXTENDS Integers, FiniteSets

CONSTANTS
  Kinds,       \* what the fields of an event can tell the guards
  Filter,      \* the kinds FILTER lets through
  Locations,   \* the location names of the invariant
  States,      \* the states of the global automaton
  Start,
  Finals,
  Moves        \* its moves, one per pair of states

Letter == Kinds \X SUBSET Locations

Move == [from : States, to : States, guard : SUBSET Letter]

MovesFrom(s) == {m \in Moves : m.from = s}

(* The automaton is deterministic and total, as determinize and minimize   *)
(* make it. A guard is a formula of the equations, so it is defined where  *)
(* several hold: nothing makes location names denote different nodes,      *)
(* because the compiler never calls registerLocation.                      *)
ASSUME SFAAssumption ==
  /\ States \subseteq Int
  /\ Start \in States
  /\ Finals \subseteq States
  /\ Filter \subseteq Kinds
  /\ Moves \subseteq Move
  /\ \A s \in States, l \in Letter :
        \E m \in MovesFrom(s) :
          /\ l \in m.guard
          /\ \A n \in MovesFrom(s) : l \in n.guard => n = m

(* The move of state s that letter l takes.                                *)
MoveOn(s, l) == CHOOSE m \in MovesFrom(s) : l \in m.guard

-----------------------------------------------------------------------------
(* calculateSupressionGlobal                                               *)

(* As many moves, and for each one of s one of t with its guard and target.*)
SameExits(s, t) ==
  /\ Cardinality(MovesFrom(s)) = Cardinality(MovesFrom(t))
  /\ \A m \in MovesFrom(s) :
       \E n \in MovesFrom(t) : m.to = n.to /\ m.guard = n.guard

(* Pairs are compared once, the lower state first, and entered both ways.  *)
Equivalent(s, t) == IF s < t THEN SameExits(s, t) ELSE t < s /\ SameExits(t, s)

Suppressible(m) ==
  /\ m.to \notin Finals
  /\ m.from = m.to \/ Equivalent(m.from, m.to)

(* Line 1 of the .sm.g file: the guards of the moves that are not          *)
(* suppressible, with every location equation replaced by false.           *)
NegatedLocation ==
  {k \in Kinds : \E m \in Moves : ~ Suppressible(m) /\ <<k, {}>> \in m.guard}

-----------------------------------------------------------------------------
(* GenerateLocalSFA and setSupressionLocal: for each location, one         *)
(* automaton for the node that is the location, and one for all others.    *)

Automata == [location : Locations, opposite : BOOLEAN]

(* Mutant: the locations of the opposite automaton are not swapped.        *)
MutantHolding(a) == {a.location}

(* The location equations that specifyLocation replaces by true.           *)
Holding(a) == IF a.opposite THEN Locations \ {a.location} ELSE {a.location}

(* The kinds on which the guard holds once locations are replaced.         *)
Specified(guard, a) == {k \in Kinds : <<k, Holding(a)>> \in guard}

(* checklocalPresent: every event of the guard happens where a runs.       *)
LocalPresent(guard, a) ==
  \A l \in guard : l[1] \in Filter => ((a.location \in l[2]) # a.opposite)

(* Mutant: only the opposite automaton gets epsilon moves.                 *)
MutantSilent(a) ==
  {<<m.from, m.to>> : m \in {n \in Moves : a.opposite /\ ~ LocalPresent(n.guard, a)}}

(* The epsilon moves: what another node may have seen.                     *)
Silent(a) == {<<m.from, m.to>> : m \in {n \in Moves : ~ LocalPresent(n.guard, a)}}

(* A local move keeps the flag unless the global automaton has, from the   *)
(* same state, a move that is not suppressible and that an event of the    *)
(* local guard takes at the location, whether or not a is the opposite.    *)
LocalSuppressible(m, a) ==
  \A o \in MovesFrom(m.from) :
    \/ Suppressible(o)
    \/ \A l \in o.guard : l[1] \in Specified(m.guard, a) => a.location \notin l[2]

-----------------------------------------------------------------------------
(* The local automata are determinized by the automata library: a state is *)
(* a set of states closed under epsilon, and a move is suppressible when   *)
(* all those it stands for are.                                            *)

Closure(T, a) ==
  {s \in States :
     \A U \in SUBSET States :
       (T \subseteq U /\ \A p \in Silent(a) : p[1] \in U => p[2] \in U) => s \in U}

LocalStart(a) == Closure({Start}, a)

LocalMoves(T, k, a) == {m \in Moves : m.from \in T /\ k \in Specified(m.guard, a)}

LocalTarget(T, k, a) == Closure({m.to : m \in LocalMoves(T, k, a)}, a)

(* Mutant: one suppressible move is enough.                                *)
MutantLocalFlag(T, k, a) ==
  \E m \in LocalMoves(T, k, a) : LocalSuppressible(m, a)

LocalFlag(T, k, a) ==
  \A m \in LocalMoves(T, k, a) : LocalSuppressible(m, a)

=============================================================================
