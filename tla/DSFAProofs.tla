----------------------------- MODULE DSFAProofs -----------------------------
(***************************************************************************)
(* Lemmas about the operators of DSFA, for every automaton, which the      *)
(* proofs about both processors rest on.                                   *)
(***************************************************************************)
EXTENDS DSFA, WellFoundedInduction, SequenceTheorems, TLAPS

(* A non-empty set of positions has a least one.                           *)
LEMMA LeastPosition ==
  ASSUME NEW S \in SUBSET Nat, S # {}
  PROVE  \E m \in S : \A n \in S : m <= n
<1>1. PICK m \in S : \A n \in S : ~ (<<n, m>> \in OpToRel(<, Nat))
  BY NatLessThanWellFounded, WFMin
<1>2. \A n \in S : ~ (n < m)
  BY <1>1 DEF OpToRel
<1> QED
  BY <1>2

(* When some guard holds, the move taken is a move of the state.           *)
LEMMA TargetType ==
  ASSUME NEW s \in States, NEW k \in Kinds, NEW e \in BOOLEAN, HasMove(s, k, e)
  PROVE  Target(s, k, e) \in States
<1>1. Moves[s] \in Seq(Move)
  BY DSFAAssumption
<1>2. Matches(s, k, e) \in SUBSET Nat
  BY <1>1 DEF Matches
<1>3. \E i \in Matches(s, k, e) : \A j \in Matches(s, k, e) : i <= j
  BY <1>2, LeastPosition DEF HasMove
<1>4. FirstMatch(s, k, e) \in DOMAIN Moves[s]
  BY <1>3 DEF FirstMatch, Matches
<1>5. Moves[s][FirstMatch(s, k, e)] \in Move
  BY <1>1, <1>4
<1> QED
  BY <1>5 DEF Target, MoveTaken, Move

LEMMA EqualType ==
  ASSUME NEW r, NEW p
  PROVE  Equal(r, p) \in BOOLEAN
BY DEF Equal

(* The split keeps the roots and adds at most one.                         *)
LEMMA SplitType ==
  ASSUME NEW rs \in Seq(Root), NEW p \in Packet
  PROVE  SplitIfNew(rs, p) \in Seq(Root)
<1>1. CASE rs = <<>>
  BY <1>1 DEF SplitIfNew
<1>2. CASE rs # <<>>
  <2>1. rs[1] \in Root
    BY <1>2
  <2>2. [constraint |-> p, state |-> rs[1].state] \in Root
    BY <2>1 DEF Root
  <2> QED
    BY <2>2 DEF SplitIfNew
<1> QED
  BY <1>1, <1>2

(* A pass over the roots that raises no exception gives roots.             *)
LEMMA AdvanceType ==
  ASSUME NEW rs \in Seq(Root), NEW p \in Packet, CanAdvanceRoots(rs, p)
  PROVE  AdvanceRoots(rs, p) \in Seq(Root)
<1> DEFINE split == SplitIfNew(rs, p)
<1>1. split \in Seq(Root)
  BY SplitType
<1>2. ASSUME NEW i \in DOMAIN split
      PROVE  AdvanceRoot(split[i], p) \in Root
  <2>1. split[i] \in Root
    BY <1>1
  <2>2. HasMove(split[i].state, p.kind, Equal(split[i], p))
    BY DEF CanAdvanceRoots, CanAdvance
  <2>3. Target(split[i].state, p.kind, Equal(split[i], p)) \in States
    <3>1. split[i].state \in States /\ p.kind \in Kinds
      BY <2>1 DEF Root, Packet
    <3>2. Equal(split[i], p) \in BOOLEAN
      BY EqualType
    <3> QED
      BY <3>1, <3>2, <2>2, TargetType
  <2> QED
    BY <2>1, <2>3 DEF AdvanceRoot, Root
<1>3. AdvanceRoots(rs, p) = [i \in 1..Len(split) |-> AdvanceRoot(split[i], p)]
  BY <1>1 DEF AdvanceRoots
<1> HIDE DEF split
<1>4. Len(split) \in Nat /\ DOMAIN split = 1..Len(split)
  BY <1>1
<1> QED
  BY <1>2, <1>3, <1>4, IsASeq

(* Removing one root leaves roots.                                         *)
LEMMA RemoveType ==
  ASSUME NEW rs \in Seq(Root), NEW i \in 1..Len(rs)
  PROVE  /\ RemoveRoot(rs, i) \in Seq(Root)
         /\ Len(RemoveRoot(rs, i)) = Len(rs) - 1
<1> DEFINE before == SubSeq(rs, 1, i - 1)
           after == SubSeq(rs, i + 1, Len(rs))
<1>1. before \in Seq(Root) /\ Len(before) = i - 1
  BY SubSeqProperties
<1>2. after \in Seq(Root) /\ Len(after) = Len(rs) - i
  BY SubSeqProperties
<1>3. RemoveRoot(rs, i) = before \o after
  BY DEF RemoveRoot
<1> HIDE DEF before, after
<1>4. before \o after \in Seq(Root)
  BY <1>1, <1>2
<1>5. Len(before \o after) = Len(before) + Len(after)
  BY <1>1, <1>2
<1>6. Len(rs) \in Nat
  OBVIOUS
<1> QED
  BY <1>1, <1>2, <1>3, <1>4, <1>5, <1>6

-----------------------------------------------------------------------------
(* The unconstrained root                                                  *)

StarAtMostFirst(rs) == \A i \in DOMAIN rs : rs[i].constraint = Star => i = 1

(* The split appends a root for a packet, never the unconstrained one.     *)
LEMMA StarAfterSplit ==
  ASSUME NEW rs \in Seq(Root), NEW p \in Packet, StarAtMostFirst(rs)
  PROVE  StarAtMostFirst(SplitIfNew(rs, p))
<1>1. p # Star
  BY DSFAAssumption
<1> DEFINE new == [constraint |-> p, state |-> rs[1].state]
<1>2. CASE SplitIfNew(rs, p) = rs
  BY <1>2
<1>3. CASE SplitIfNew(rs, p) = Append(rs, new)
  <2>1. new.constraint # Star
    BY <1>1
  <2> HIDE DEF new
  <2> QED
    BY <1>3, <2>1 DEF StarAtMostFirst
<1> QED
  BY <1>2, <1>3 DEF SplitIfNew

LEMMA StarAfterAdvance ==
  ASSUME NEW rs \in Seq(Root), NEW p \in Packet, StarAtMostFirst(rs)
  PROVE  StarAtMostFirst(AdvanceRoots(rs, p))
<1> DEFINE split == SplitIfNew(rs, p)
<1>1. StarAtMostFirst(split) /\ split \in Seq(Root)
  BY StarAfterSplit, SplitType
<1>2. AdvanceRoots(rs, p) = [i \in DOMAIN split |-> AdvanceRoot(split[i], p)]
  BY DEF AdvanceRoots
<1>3. \A i \in DOMAIN split : AdvanceRoot(split[i], p).constraint = split[i].constraint
  BY <1>1 DEF AdvanceRoot, Root
<1> HIDE DEF split
<1> QED
  BY <1>1, <1>2, <1>3 DEF StarAtMostFirst

(* Removing a root only brings the others closer to the head.              *)
LEMMA StarAfterRemove ==
  ASSUME NEW rs \in Seq(Root), NEW i \in 1..Len(rs), StarAtMostFirst(rs)
  PROVE  StarAtMostFirst(RemoveRoot(rs, i))
<1> SUFFICES ASSUME NEW j \in DOMAIN RemoveRoot(rs, i), j # 1
             PROVE  RemoveRoot(rs, i)[j].constraint # Star
  BY DEF StarAtMostFirst
<1> DEFINE before == SubSeq(rs, 1, i - 1)
           after == SubSeq(rs, i + 1, Len(rs))
<1>1. /\ before \in Seq(Root) /\ Len(before) = i - 1
      /\ \A k \in 1..(i - 1) : before[k] = rs[k]
  BY SubSeqProperties
<1>2. /\ after \in Seq(Root) /\ Len(after) = Len(rs) - i
      /\ \A k \in 1..(Len(rs) - i) : after[k] = rs[i + k]
  BY SubSeqProperties
<1>3. j \in 2..(Len(rs) - 1)
  <2>1. RemoveRoot(rs, i) \in Seq(Root) /\ Len(RemoveRoot(rs, i)) = Len(rs) - 1
    BY RemoveType
  <2> QED
    BY <2>1
<1>4. RemoveRoot(rs, i) = before \o after
  BY DEF RemoveRoot
<1> HIDE DEF before, after
<1>5. CASE j <= i - 1
  <2>1. (before \o after)[j] = before[j]
    BY <1>1, <1>2, <1>3, <1>5
  <2> QED
    BY <1>1, <1>3, <1>4, <1>5, <2>1 DEF StarAtMostFirst
<1>6. CASE j > i - 1
  <2>1. (before \o after)[j] = after[j - (i - 1)]
    BY <1>1, <1>2, <1>3, <1>6
  <2>2. after[j - (i - 1)] = rs[j + 1]
    BY <1>2, <1>3, <1>6
  <2> QED
    BY <1>3, <1>4, <2>1, <2>2 DEF StarAtMostFirst
<1> QED
  BY <1>3, <1>5, <1>6

-----------------------------------------------------------------------------
(* What a list does when it splits, advances and loses a root              *)

(* A root stays behind the constraint it was made for, and its value is    *)
(* that of the packet.                                                     *)
LEMMA RootValue ==
  ASSUME NEW r \in Root
  PROVE  /\ ValueOf(r) = Star <=> r.constraint = Star
         /\ r.constraint # Star => ValueOf(r) = r.constraint.value
         /\ ValueOf(r) \in Values \cup {Star}
<1>1. ASSUME r.constraint # Star
      PROVE  r.constraint.value \in Values
  BY <1>1 DEF Root, Packet
<1> QED
  BY <1>1, DSFAAssumption DEF ValueOf

(* The split keeps the roots in their places; what it adds is for the      *)
(* packet, in the state of the first root.                                 *)
LEMMA SplitShape ==
  ASSUME NEW rs \in Seq(Root), NEW p \in Packet
  PROVE  LET split == SplitIfNew(rs, p)
         IN /\ \A i \in DOMAIN rs : i \in DOMAIN split /\ split[i] = rs[i]
            /\ \A i \in DOMAIN split : i \in DOMAIN rs \/ split[i].constraint = p
<1> DEFINE new == [constraint |-> p, state |-> rs[1].state]
<1>1. CASE SplitIfNew(rs, p) = rs
  BY <1>1
<1>2. CASE SplitIfNew(rs, p) = Append(rs, new)
  <2>1. new.constraint = p
    OBVIOUS
  <2> HIDE DEF new
  <2>2. /\ DOMAIN rs = 1..Len(rs) /\ Len(rs) \in Nat
        /\ DOMAIN Append(rs, new) = 1..(Len(rs) + 1)
        /\ \A i \in 1..Len(rs) : Append(rs, new)[i] = rs[i]
        /\ Append(rs, new)[Len(rs) + 1] = new
    OBVIOUS
  <2> QED
    BY <1>2, <2>1, <2>2
<1> QED
  BY <1>1, <1>2 DEF SplitIfNew

LEMMA AdvanceShape ==
  ASSUME NEW rs \in Seq(Root), NEW p \in Packet
  PROVE  LET split == SplitIfNew(rs, p)
         IN /\ DOMAIN AdvanceRoots(rs, p) = DOMAIN split
            /\ \A i \in DOMAIN split :
                 LET root == AdvanceRoots(rs, p)[i]
                 IN /\ root.constraint = split[i].constraint
                    /\ root.state = MoveTaken(split[i].state, p.kind, Equal(split[i], p)).to
                    /\ ValueOf(root) = ValueOf(split[i])
<1> DEFINE split == SplitIfNew(rs, p)
<1>1. split \in Seq(Root)
  BY SplitType
<1>2. AdvanceRoots(rs, p) = [i \in DOMAIN split |-> AdvanceRoot(split[i], p)]
  BY DEF AdvanceRoots
<1> HIDE DEF split
<1>3. ASSUME NEW i \in DOMAIN split
      PROVE  /\ AdvanceRoot(split[i], p).constraint = split[i].constraint
             /\ AdvanceRoot(split[i], p).state
                  = MoveTaken(split[i].state, p.kind, Equal(split[i], p)).to
  <2>1. split[i] \in Root
    BY <1>1
  <2> QED
    BY <2>1 DEF AdvanceRoot, Root, Target
<1>4. \A i \in DOMAIN split : ValueOf(AdvanceRoot(split[i], p)) = ValueOf(split[i])
  BY <1>3 DEF ValueOf
<1> QED
  BY <1>2, <1>3, <1>4 DEF split

(* Removing a root keeps the others, and the first one in its place unless *)
(* it is the one removed.                                                  *)
LEMMA RemoveShape ==
  ASSUME NEW rs \in Seq(Root), NEW i \in 1..Len(rs)
  PROVE  LET rest == RemoveRoot(rs, i)
         IN /\ \A j \in DOMAIN rs \ {i} : \E k \in DOMAIN rest : rest[k] = rs[j]
            /\ \A k \in DOMAIN rest : \E j \in DOMAIN rs : rest[k] = rs[j]
            /\ i > 1 => rest # <<>> /\ rest[1] = rs[1]
<1> DEFINE before == SubSeq(rs, 1, i - 1)
           after == SubSeq(rs, i + 1, Len(rs))
           rest == RemoveRoot(rs, i)
<1>1. /\ before \in Seq(Root) /\ Len(before) = i - 1
      /\ \A k \in 1..(i - 1) : before[k] = rs[k]
  BY SubSeqProperties
<1>2. /\ after \in Seq(Root) /\ Len(after) = Len(rs) - i
      /\ \A k \in 1..(Len(rs) - i) : after[k] = rs[i + k]
  BY SubSeqProperties
<1>3. rest = before \o after
  BY DEF RemoveRoot
<1>4. DOMAIN rs = 1..Len(rs) /\ Len(rs) \in Nat
  OBVIOUS
<1> HIDE DEF before, after, rest
<1>5. /\ DOMAIN rest = 1..(Len(rs) - 1)
      /\ \A k \in 1..(i - 1) : rest[k] = rs[k]
      /\ \A k \in i..(Len(rs) - 1) : rest[k] = rs[k + 1]
  <2>1. Len(before \o after) = Len(rs) - 1 /\ before \o after \in Seq(Root)
    BY <1>1, <1>2, <1>4
  <2>2. \A k \in 1..(i - 1) : (before \o after)[k] = before[k]
    BY <1>1, <1>2, <1>4
  <2>3. \A k \in i..(Len(rs) - 1) : (before \o after)[k] = after[k - (i - 1)]
    BY <1>1, <1>2, <1>4
  <2>4. ASSUME NEW k \in i..(Len(rs) - 1)
        PROVE  after[k - (i - 1)] = rs[k + 1]
    <3>1. k - (i - 1) \in 1..(Len(rs) - i) /\ i + (k - (i - 1)) = k + 1
      BY <1>4
    <3> QED
      BY <1>2, <3>1
  <2> QED
    BY <1>1, <1>3, <2>1, <2>2, <2>3, <2>4
<1>6. ASSUME NEW j \in DOMAIN rs \ {i}
      PROVE  \E k \in DOMAIN rest : rest[k] = rs[j]
  <2>1. CASE j < i
    BY <1>4, <1>5, <1>6, <2>1
  <2>2. CASE j > i
    <3>1. j - 1 \in i..(Len(rs) - 1) /\ (j - 1) + 1 = j /\ j - 1 \in DOMAIN rest
      BY <1>4, <1>5, <1>6, <2>2
    <3>2. rest[j - 1] = rs[(j - 1) + 1]
      BY <1>5, <3>1
    <3> QED
      BY <3>1, <3>2
  <2> QED
    BY <1>4, <1>6, <2>1, <2>2
<1>7. ASSUME NEW k \in DOMAIN rest
      PROVE  \E j \in DOMAIN rs : rest[k] = rs[j]
  <2>1. CASE k < i
    BY <1>4, <1>5, <1>7, <2>1
  <2>2. CASE k >= i
    <3>1. k \in i..(Len(rs) - 1) /\ k + 1 \in DOMAIN rs
      BY <1>4, <1>5, <1>7, <2>2
    <3> QED
      BY <1>5, <3>1
  <2> QED
    BY <1>4, <1>5, <1>7, <2>1, <2>2
<1>8. i > 1 => rest # <<>> /\ rest[1] = rs[1]
  <2> SUFFICES ASSUME i > 1 PROVE 1 \in DOMAIN rest /\ rest[1] = rs[1]
    OBVIOUS
  <2> QED
    BY <1>4, <1>5
<1> QED
  BY <1>6, <1>7, <1>8 DEF rest

-----------------------------------------------------------------------------
(* Guards that do not read the variable                                    *)

LEMMA FirstMatchIs ==
  ASSUME NEW s \in States, NEW k \in Kinds, NEW e \in BOOLEAN, HasMove(s, k, e)
  PROVE  /\ FirstMatch(s, k, e) \in Matches(s, k, e)
         /\ \A j \in Matches(s, k, e) : FirstMatch(s, k, e) <= j
         /\ \A j \in Matches(s, k, e) : j \in Nat /\ 1 <= j
<1>1. Moves[s] \in Seq(Move)
  BY DSFAAssumption
<1>2. Matches(s, k, e) \subseteq Nat /\ \A j \in Matches(s, k, e) : j \in Nat /\ 1 <= j
  BY <1>1 DEF Matches
<1>3. \E i \in Matches(s, k, e) : \A j \in Matches(s, k, e) : i <= j
  BY <1>2, LeastPosition DEF HasMove
<1> QED
  BY <1>2, <1>3 DEF FirstMatch

(* A value moves as the unconstrained root does where the latter does not  *)
(* read the variable: no split is needed there.                            *)
LEMMA UnreadMoves ==
  ASSUME NEW s \in States, NEW k \in Kinds, HasMove(s, k, FALSE), ~ ReadsVariable(s, k)
  PROVE  HasMove(s, k, TRUE) /\ MoveTaken(s, k, TRUE) = MoveTaken(s, k, FALSE)
<1> DEFINE f == FirstMatch(s, k, FALSE)
           g == FirstMatch(s, k, TRUE)
<1>1. /\ f \in Matches(s, k, FALSE) /\ f \in Nat /\ 1 <= f
      /\ \A j \in Matches(s, k, FALSE) : f <= j
  BY FirstMatchIs
<1>2. DOMAIN Moves[s] = 1..Len(Moves[s]) /\ Len(Moves[s]) \in Nat
  BY DSFAAssumption
<1> HIDE DEF f
<1>3. \A i \in 1..f : i \in DOMAIN Moves[s]
  BY <1>1, <1>2 DEF Matches
<1>4. \A i \in 1..f : k \notin Moves[s][i].compares
  BY DEF ReadsVariable, f
<1>5. \A i \in 1..f : i \in Matches(s, k, TRUE) <=> i \in Matches(s, k, FALSE)
  BY <1>3, <1>4, GuardAssumption DEF Matches
<1>6. f \in Matches(s, k, TRUE)
  <2>1. f \in 1..f
    BY <1>1
  <2> QED
    BY <1>1, <1>5, <2>1
<1>7. HasMove(s, k, TRUE)
  BY <1>6 DEF HasMove
<1>8. /\ g \in Matches(s, k, TRUE) /\ g \in Nat /\ 1 <= g
      /\ \A j \in Matches(s, k, TRUE) : g <= j
  BY <1>7, FirstMatchIs
<1> HIDE DEF g
<1>9. g \in 1..f
  <2>1. g <= f
    BY <1>6, <1>8
  <2> QED
    BY <1>1, <1>8, <2>1
<1>10. f <= g
  BY <1>1, <1>5, <1>8, <1>9
<1>11. f = g
  BY <1>1, <1>8, <1>9, <1>10
<1> QED
  BY <1>7, <1>11 DEF MoveTaken, f, g

=============================================================================
