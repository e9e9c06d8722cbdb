------------------------- MODULE ToolOperationsProofs -------------------------
(* Proofs about ToolOperations, for any calls, paths and number of picks.  *)
EXTENDS ToolOperations, FiniteSetTheorems, TLAPS

Steps == {"new", "checked", "authorized", "prepared", "registered", "waiting", "importing", "done"}

PickRecords == [path : Paths, purpose : Purposes, at : 0..MaxTime]
Grants == {None} \cup [purpose : Purposes, at : 0..MaxTime]

\* Each variable keeps to its type, and only calls that stand before their
\* end are ever moved.
Shape ==
    /\ issued \subseteq Calls
    /\ authorized \in [Paths -> Grants]
    /\ clock \in 0..MaxTime
    /\ pc \in [Calls -> Steps]
    /\ child \in [Calls -> {"none", "running", "zero", "nonzero", "killed"}]
    /\ DOMAIN result = Calls
    /\ picks \in Seq(PickRecords)

\* What a call of a purpose wants is a purpose of the dialogs.
LEMMA WantedType ==
    ASSUME NEW c \in Calls
    PROVE  Wanted(c) \in Purposes /\ PathOf[c] \in Paths
  <1>1. Purpose[c] \in Purposes \cup {"preview"}
    BY ToolAssumption
  <1> QED
    BY <1>1, ToolAssumption DEF Wanted, Purposes

\* A step of a call moves that call alone.
LEMMA OwnMoves ==
    ASSUME Shape, NEW c \in Calls, Own(c)
    PROVE  /\ pc[c] # "done" /\ \E s \in Steps : pc' = [pc EXCEPT ![c] = s]
           /\ DOMAIN result' = DOMAIN result
           /\ UNCHANGED <<issued, clock, picks, cancel>>
  <1>1. CASE Begin(c) \/ Prepare(c)
    BY <1>1 DEF Begin, Prepare, Leave, Goto, Steps
  <1>2. CASE Consume(c) \/ Preview(c)
    BY <1>2 DEF Consume, Preview, Leave, Goto, Steps
  <1>3. CASE Register(c)
    BY <1>3 DEF Register, Leave, Goto, Steps
  <1>4. CASE Spawn(c)
    BY <1>4 DEF Spawn, Leave, Goto, Steps
  <1>5. CASE Exited(c) \/ Killed(c) \/ Imported(c)
    BY <1>5 DEF Exited, Killed, Imported, Leave, Goto, Steps
  <1> QED
    BY <1>1, <1>2, <1>3, <1>4, <1>5 DEF Own

\* Every step keeps the types.
LEMMA ShapeStep ==
    ASSUME Shape, [Next]_vars
    PROVE  Shape'
  <1>1. ASSUME NEW c \in issued, Own(c)
        PROVE  Shape'
    <2>0. c \in Calls /\ PathOf[c] \in Paths
      BY WantedType DEF Shape
    <2>1. authorized' \in [Paths -> Grants]
      BY <1>1, <2>0 DEF Shape, Grants, Own, Begin, Consume, Preview, Prepare, Register, Spawn, Exited,
                        Killed, Imported
    <2>2. child' \in [Calls -> {"none", "running", "zero", "nonzero", "killed"}]
      BY <1>1, <2>0 DEF Shape, Own, Begin, Consume, Preview, Prepare, Register, Spawn, Exited,
                        Killed, Imported
    <2> QED
      BY <1>1, <2>0, <2>1, <2>2, OwnMoves DEF Shape
  <1>2. ASSUME NEW c \in issued, ChildExits(c) \/ Cancel(c)
        PROVE  Shape'
    BY <1>2 DEF ChildExits, Cancel, Shape
  <1>3. ASSUME NEW p \in Paths, NEW purpose \in Purposes, Pick(p, purpose)
        PROVE  Shape'
    <2>1. [path |-> p, purpose |-> purpose, at |-> clock] \in PickRecords
      BY DEF PickRecords, Shape
    <2>2. [purpose |-> purpose, at |-> clock] \in Grants
      BY DEF Grants, Shape
    <2>3. picks' \in Seq(PickRecords)
      BY <1>3, <2>1 DEF Pick, Shape
    <2> QED
      BY <1>3, <2>2, <2>3 DEF Pick, Shape
  <1>4. CASE Tick
    BY <1>4, ToolAssumption DEF Tick, Shape
  <1>5. CASE UNCHANGED vars
    BY <1>5 DEF vars, Shape
  <1> QED
    BY <1>1, <1>2, <1>3, <1>4, <1>5 DEF Next, Terminated

\* The types hold in every reachable state.
LEMMA ShapeHolds == Spec => []Shape
  <1>1. Init => Shape
    <2> SUFFICES ASSUME Init PROVE Shape
      OBVIOUS
    <2>1. picks \in Seq(PickRecords)
      BY DEF Init
    <2>2. issued \subseteq Calls
      BY ToolAssumption DEF Init
    <2>3. clock \in 0..MaxTime
      BY ToolAssumption DEF Init
    <2> QED
      BY <2>1, <2>2, <2>3 DEF Init, Shape, Grants, Steps
  <1> QED
    BY <1>1, ShapeStep, PTL DEF Spec

-----------------------------------------------------------------------------
(* Child processes.                                                        *)

\* A program runs, or waits to be collected, only while its tool waits for it.
ChildrenFollowCalls ==
    \A c \in Calls :
        /\ child[c] # "none" => pc[c] \in {"waiting", "done"}
        /\ pc[c] = "waiting" => child[c] \in {"running", "zero", "nonzero"}
        /\ pc[c] = "importing" => ~Tool(c)
        /\ pc[c] = "done" =>
              /\ child[c] # "running"
              /\ result[c] = "succeeded" /\ Tool(c) => child[c] = "zero"

\* No step loses sight of a program.
LEMMA ChildrenStep ==
    ASSUME Shape, ChildrenFollowCalls, [Next]_vars
    PROVE  ChildrenFollowCalls'
  <1> DEFINE Good(c) ==
        /\ child[c] # "none" => pc[c] \in {"waiting", "done"}
        /\ pc[c] = "waiting" => child[c] \in {"running", "zero", "nonzero"}
        /\ pc[c] = "importing" => ~Tool(c)
        /\ pc[c] = "done" =>
              /\ child[c] # "running"
              /\ result[c] = "succeeded" /\ Tool(c) => child[c] = "zero"
  <1>0. ASSUME NEW d \in Calls, pc'[d] = pc[d], child'[d] = child[d], result'[d] = result[d]
        PROVE  Good(d)'
    BY <1>0 DEF ChildrenFollowCalls, Tool
  <1>1. ASSUME NEW c \in issued, Own(c)
        PROVE  ChildrenFollowCalls'
    <2>0. c \in Calls /\ Good(c)
      BY DEF Shape, ChildrenFollowCalls
    <2>1. \A d \in Calls \ {c} : pc'[d] = pc[d] /\ child'[d] = child[d] /\ result'[d] = result[d]
      <3>1. CASE Begin(c) \/ Consume(c) \/ Preview(c) \/ Prepare(c)
        BY <2>0, <3>1 DEF Begin, Consume, Preview, Prepare, Leave, Goto, Shape
      <3>2. CASE Register(c) \/ Spawn(c)
        BY <2>0, <3>2 DEF Register, Spawn, Leave, Goto, Shape
      <3>3. CASE Exited(c) \/ Killed(c) \/ Imported(c)
        BY <2>0, <3>3 DEF Exited, Killed, Imported, Leave, Goto, Shape
      <3> QED
        BY <1>1, <3>1, <3>2, <3>3 DEF Own
    <2>2. Good(c)'
      <3>1. CASE Begin(c) \/ Consume(c) \/ Preview(c) \/ Prepare(c)
        <4>1. child'[c] = child[c] /\ child[c] = "none"
          BY <2>0, <3>1 DEF Begin, Consume, Preview, Prepare
        <4>2. \/ pc'[c] \in {"checked", "authorized", "prepared"}
              \/ pc'[c] = "done" /\ result'[c] # "succeeded"
          BY <2>0, <3>1 DEF Begin, Consume, Preview, Prepare, Leave, Goto, Shape
        <4> QED
          BY <4>1, <4>2
      <3>2. CASE Register(c)
        <4>1. child'[c] = child[c] /\ child[c] = "none"
          BY <2>0, <3>2 DEF Register
        <4>2. \/ pc'[c] = "registered"
              \/ pc'[c] = "importing" /\ ~Tool(c)
              \/ pc'[c] = "done" /\ result'[c] # "succeeded"
          BY <2>0, <3>2 DEF Register, Leave, Goto, Shape
        <4> QED
          BY <4>1, <4>2 DEF Tool
      <3>3. CASE Spawn(c)
        BY <2>0, <3>3 DEF Spawn, Leave, Goto, Shape
      <3>4. CASE Exited(c)
        BY <2>0, <3>4 DEF Exited, Leave, Goto, Shape
      <3>5. CASE Killed(c)
        BY <2>0, <3>5 DEF Killed, Leave, Goto, Shape
      <3>6. CASE Imported(c)
        <4>1. ~Tool(c) /\ child'[c] = child[c] /\ child[c] = "none" /\ pc'[c] = "done"
          BY <2>0, <3>6 DEF Imported, Leave, Goto, Shape
        <4> QED
          BY <4>1 DEF Tool
      <3> QED
        BY <1>1, <3>1, <3>2, <3>3, <3>4, <3>5, <3>6 DEF Own
    <2> QED
      BY <1>0, <2>1, <2>2 DEF ChildrenFollowCalls
  <1>2. ASSUME NEW c \in issued, ChildExits(c)
        PROVE  ChildrenFollowCalls'
    <2>1. c \in Calls /\ Good(c)
      BY DEF Shape, ChildrenFollowCalls
    <2>2. /\ pc' = pc /\ result' = result /\ pc[c] = "waiting" /\ child'[c] \in {"zero", "nonzero"}
          /\ \A d \in Calls \ {c} : child'[d] = child[d]
      BY <1>2, <2>1 DEF ChildExits, Shape
    <2> QED
      BY <1>0, <2>1, <2>2 DEF ChildrenFollowCalls
  <1>3. CASE UNCHANGED <<pc, child, result>>
    BY <1>0, <1>3 DEF ChildrenFollowCalls
  <1> QED
    BY <1>1, <1>2, <1>3 DEF Next, Cancel, Pick, Tick, Terminated, vars

\* For any number of tools at the same time, no command that has returned
\* leaves a program behind or claims a success its program did not have.
THEOREM ChildrenCollected == Spec => []NoChildLeftBehind
  <1>1. Init => ChildrenFollowCalls
    BY DEF Init, ChildrenFollowCalls
  <1>2. ChildrenFollowCalls => NoChildLeftBehind
    BY DEF ChildrenFollowCalls, NoChildLeftBehind
  <1> QED
    BY <1>1, <1>2, ShapeHolds, ChildrenStep, PTL DEF Spec

-----------------------------------------------------------------------------
(* Authorizations.                                                         *)

\* n is the last pick of a path.
LastOf(p, n) ==
    /\ n \in 1..Len(picks) /\ picks[n].path = p
    /\ \A k \in 1..Len(picks) : picks[k].path = p => k <= n

\* What is authorized for a path is what its last pick said.
GrantsAreLastPicks ==
    \A p \in Paths :
        \/ authorized[p] = None
        \/ \E n \in 1..Len(picks) :
              /\ LastOf(p, n)
              /\ picks[n].purpose = authorized[p].purpose /\ picks[n].at = authorized[p].at

\* A call neither adds to the picks nor grants anything.
LEMMA OwnGrantsNothing ==
    ASSUME Shape, NEW c \in Calls, Own(c)
    PROVE  /\ picks' = picks
           /\ \A p \in Paths : authorized'[p] \in {authorized[p], None}
  <1>1. PathOf[c] \in Paths
    BY WantedType
  <1> QED
    BY <1>1 DEF Shape, Own, Begin, Consume, Preview, Prepare, Register, Spawn, Exited, Killed, Imported

\* A pick is the last of its path and leaves the last picks of the others.
LEMMA GrantsStep ==
    ASSUME Shape, GrantsAreLastPicks, [Next]_vars
    PROVE  GrantsAreLastPicks'
  <1>1. ASSUME NEW q \in Paths, NEW purpose \in Purposes, Pick(q, purpose)
        PROVE  GrantsAreLastPicks'
    <2> DEFINE new == [path |-> q, purpose |-> purpose, at |-> clock]
    <2>0. PICK L \in Nat : L = Len(picks)
      BY DEF Shape
    <2>1. /\ L = Len(picks) /\ Len(picks') = L + 1 /\ picks'[L + 1] = new
          /\ \A k \in 1..L : picks'[k] = picks[k]
      BY <1>1, <2>0 DEF Pick, Shape
    <2>2. authorized' = [authorized EXCEPT ![q] = [purpose |-> purpose, at |-> clock]]
      BY <1>1 DEF Pick
    <2>3. ASSUME NEW p \in Paths, p # q, authorized'[p] # None
          PROVE  \E n \in 1..Len(picks') :
                    /\ LastOf(p, n)'
                    /\ picks'[n].purpose = authorized'[p].purpose /\ picks'[n].at = authorized'[p].at
      <3>1. authorized'[p] = authorized[p]
        BY <2>2, <2>3 DEF Shape
      <3>2. PICK n \in 1..L : /\ LastOf(p, n)
                              /\ picks[n].purpose = authorized[p].purpose /\ picks[n].at = authorized[p].at
        BY <2>1, <2>3, <3>1 DEF GrantsAreLastPicks
      <3>3. n \in 1..Len(picks') /\ picks'[n] = picks[n]
        BY <2>1
      <3>4. ASSUME NEW k \in 1..Len(picks'), picks'[k].path = p
            PROVE  k <= n
        <4>1. k # L + 1
          BY <2>1, <2>3, <3>4
        <4>2. k \in 1..L /\ picks[k].path = p
          BY <2>1, <3>4, <4>1
        <4> QED
          BY <2>1, <3>2, <4>2 DEF LastOf
      <3> QED
        BY <3>1, <3>2, <3>3, <3>4 DEF LastOf
    <2>4. /\ LastOf(q, L + 1)'
          /\ picks'[L + 1].purpose = authorized'[q].purpose /\ picks'[L + 1].at = authorized'[q].at
      <3>1. authorized'[q] = [purpose |-> purpose, at |-> clock]
        BY <2>2 DEF Shape
      <3>2. L + 1 \in 1..Len(picks') /\ \A k \in 1..Len(picks') : k <= L + 1
        BY <2>1
      <3> QED
        BY <2>1, <3>1, <3>2 DEF LastOf
    <2>5. L + 1 \in 1..Len(picks')
      BY <2>1
    <2> QED
      BY <2>3, <2>4, <2>5 DEF GrantsAreLastPicks
  <1>2. ASSUME NEW c \in issued, Own(c)
        PROVE  GrantsAreLastPicks'
    <2>1. c \in Calls
      BY DEF Shape
    <2>2. picks' = picks /\ \A p \in Paths : authorized'[p] \in {authorized[p], None}
      BY <1>2, <2>1, OwnGrantsNothing
    <2> QED
      BY <2>2 DEF GrantsAreLastPicks, LastOf
  <1>3. CASE UNCHANGED <<authorized, picks>>
    BY <1>3 DEF GrantsAreLastPicks, LastOf
  <1> QED
    BY <1>1, <1>2, <1>3 DEF Next, ChildExits, Cancel, Tick, Terminated, vars

\* A call that goes on consumed a valid authorization in this very step.
LEMMA GoingOn ==
    ASSUME Shape, NEW c \in Calls, [Next]_vars, pc[c] = "checked", pc'[c] = "authorized"
    PROVE  Consume(c) /\ Valid(c)
  <1>1. ASSUME NEW d \in issued, Own(d)
        PROVE  Consume(c) /\ Valid(c)
    <2>1. d = c
      <3>1. d \in Calls
        BY DEF Shape
      <3> QED
        BY <1>1, <3>1, OwnMoves DEF Shape
    <2>2. Consume(c) \/ Preview(c)
      BY <1>1, <2>1 DEF Own, Begin, Prepare, Register, Spawn, Exited, Killed, Imported
    <2>3. pc'[c] = "authorized" => Consume(c) /\ Valid(c)
      BY <2>2 DEF Consume, Preview, Leave, Goto, Shape
    <2> QED
      BY <2>3
  <1>2. CASE UNCHANGED pc
    BY <1>2
  <1> QED
    BY <1>1, <1>2 DEF Next, ChildExits, Cancel, Pick, Tick, Terminated, vars

\* For any calls and any number of picks, an operation goes on only on the
\* last pick of its path, for its purpose and not too old.
THEOREM LastPickCorrect == Spec => LastPickDecides
  <1> DEFINE OfPath(c) == {n \in 1..Len(picks) : picks[n].path = PathOf[c]}
             Last(c) == picks[CHOOSE n \in OfPath(c) : \A k \in OfPath(c) : k <= n]
             Decided(c) == OfPath(c) # {} /\ Last(c).purpose = Wanted(c) /\ clock - Last(c).at <= TTL
  <1>1. Init => GrantsAreLastPicks
    BY DEF Init, GrantsAreLastPicks
  <1>2. ASSUME Shape, GrantsAreLastPicks, [Next]_vars, NEW c \in Calls,
               pc[c] = "checked", pc'[c] = "authorized"
        PROVE  Decided(c)
    <2>1. Valid(c) /\ Wanted(c) \in Purposes /\ PathOf[c] \in Paths
      BY <1>2, GoingOn, WantedType
    <2>2. authorized[PathOf[c]] # None
      BY <2>1 DEF Valid, None, Purposes
    <2>3. PICK n \in 1..Len(picks) :
             /\ LastOf(PathOf[c], n)
             /\ picks[n].purpose = authorized[PathOf[c]].purpose
             /\ picks[n].at = authorized[PathOf[c]].at
      BY <1>2, <2>1, <2>2 DEF GrantsAreLastPicks
    <2>4. n \in OfPath(c) /\ \A k \in OfPath(c) : k <= n
      BY <2>3 DEF LastOf
    <2>5. \A m \in OfPath(c) : (\A k \in OfPath(c) : k <= m) => m = n
      BY <1>2, <2>4 DEF Shape
    <2>6. (CHOOSE m \in OfPath(c) : \A k \in OfPath(c) : k <= m) = n
      BY <2>4, <2>5
    <2> QED
      BY <2>1, <2>3, <2>4, <2>6 DEF Valid
  <1>3. Shape /\ GrantsAreLastPicks /\ [Next]_vars
        => [\A c \in Calls : pc[c] = "checked" /\ pc'[c] = "authorized" =>
               LET ofPath == {n \in 1..Len(picks) : picks[n].path = PathOf[c]}
                   last == picks[CHOOSE n \in ofPath : \A k \in ofPath : k <= n]
               IN  ofPath # {} /\ last.purpose = Wanted(c) /\ clock - last.at <= TTL]_vars
    BY <1>2
  <1> QED
    BY <1>1, <1>3, ShapeHolds, GrantsStep, PTL DEF Spec, LastPickDecides

-----------------------------------------------------------------------------
(* One operation per pick.                                                 *)

SpentFor(p, purpose) == {s \in spent : PathOf[s.call] = p /\ Wanted(s.call) = purpose}

\* An authorization that lies there still may be spent.
Left(p, purpose) == IF authorized[p].purpose = purpose THEN 1 ELSE 0

\* What was spent and what may still be spent were picked.
SpentWithinPicks ==
    /\ IsFiniteSet(spent)
    /\ \A p \in Paths, purpose \in Purposes :
          Cardinality(SpentFor(p, purpose)) + Left(p, purpose) <= Cardinality(PicksFor(p, purpose))

\* The counts are numbers.
LEMMA CountTypes ==
    ASSUME Shape, IsFiniteSet(spent), NEW p, NEW purpose
    PROVE  /\ IsFiniteSet(SpentFor(p, purpose)) /\ Cardinality(SpentFor(p, purpose)) \in Nat
           /\ IsFiniteSet(PicksFor(p, purpose)) /\ Cardinality(PicksFor(p, purpose)) \in Nat
  <1>1. IsFiniteSet(SpentFor(p, purpose))
    BY FS_Subset DEF SpentFor
  <1>2. IsFiniteSet(1..Len(picks))
    BY FS_Interval DEF Shape
  <1>3. IsFiniteSet(PicksFor(p, purpose))
    BY <1>2, FS_Subset DEF PicksFor
  <1> QED
    BY <1>1, <1>3, FS_CardinalityType

\* Picking adds one to what was picked, and what lies there becomes one at
\* most; consuming turns what lies there into what was spent.
LEMMA SpentStep ==
    ASSUME Shape, SpentWithinPicks, [Next]_vars
    PROVE  SpentWithinPicks'
  <1>1. ASSUME NEW q \in Paths, NEW u \in Purposes, Pick(q, u)
        PROVE  SpentWithinPicks'
    <2> DEFINE L == Len(picks)
    <2>1. /\ L \in Nat /\ Len(picks') = L + 1
          /\ picks'[L + 1] = [path |-> q, purpose |-> u, at |-> clock]
          /\ \A k \in 1..L : picks'[k] = picks[k]
          /\ 1..(L + 1) = (1..L) \cup {L + 1}
      BY <1>1 DEF Pick, Shape
    <2>2. /\ spent' = spent /\ authorized' = [authorized EXCEPT ![q] = [purpose |-> u, at |-> clock]]
      BY <1>1 DEF Pick
    <2>3. ASSUME NEW p \in Paths, NEW purpose \in Purposes
          PROVE  Cardinality(SpentFor(p, purpose)') + Left(p, purpose)'
                    <= Cardinality(PicksFor(p, purpose)')
      <3> DEFINE S == Cardinality(SpentFor(p, purpose))
                 P == Cardinality(PicksFor(p, purpose))
      <3>1. SpentFor(p, purpose)' = SpentFor(p, purpose)
        BY <2>2 DEF SpentFor, Wanted
      <3>2. S \in Nat /\ P \in Nat /\ IsFiniteSet(PicksFor(p, purpose)) /\ S + Left(p, purpose) <= P
        BY CountTypes DEF SpentWithinPicks
      <3>3. CASE p = q /\ purpose = u
        <4>1. PicksFor(p, purpose)' = PicksFor(p, purpose) \cup {L + 1}
          BY <2>1, <3>3 DEF PicksFor
        <4>2. L + 1 \notin PicksFor(p, purpose)
          BY <2>1 DEF PicksFor
        <4>3. Cardinality(PicksFor(p, purpose)') = P + 1
          BY <3>2, <4>1, <4>2, FS_AddElement
        <4>4. Left(p, purpose) \in {0, 1} /\ Left(p, purpose)' \in {0, 1}
          BY DEF Left
        <4> QED
          BY <3>1, <3>2, <4>3, <4>4
      <3>4. CASE ~(p = q /\ purpose = u)
        <4>1. PicksFor(p, purpose)' = PicksFor(p, purpose)
          BY <2>1, <3>4 DEF PicksFor
        <4>2. Left(p, purpose)' <= Left(p, purpose)
          BY <2>2, <3>4 DEF Left, Shape
        <4>3. Left(p, purpose) \in {0, 1} /\ Left(p, purpose)' \in {0, 1}
          BY DEF Left
        <4> QED
          BY <3>1, <3>2, <4>1, <4>2, <4>3
      <3> QED
        BY <3>3, <3>4
    <2> QED
      BY <2>2, <2>3 DEF SpentWithinPicks
  <1>2. ASSUME NEW c \in issued, Consume(c)
        PROVE  SpentWithinPicks'
    <2>0. c \in Calls /\ PathOf[c] \in Paths /\ Wanted(c) \in Purposes
      BY WantedType DEF Shape
    <2>1. picks' = picks /\ authorized' = [authorized EXCEPT ![PathOf[c]] = None]
      BY <1>2 DEF Consume
    <2>2. PICK s : s.call = c /\ spent' = IF Valid(c) THEN spent \cup {s} ELSE spent
      <3> WITNESS [call |-> c, at |-> clock]
      <3> QED
        BY <1>2 DEF Consume
    <2>3. IsFiniteSet(spent')
      BY <2>2, FS_AddElement DEF SpentWithinPicks
    <2>4. ASSUME NEW p \in Paths, NEW purpose \in Purposes
          PROVE  Cardinality(SpentFor(p, purpose)') + Left(p, purpose)'
                    <= Cardinality(PicksFor(p, purpose)')
      <3> DEFINE S == Cardinality(SpentFor(p, purpose))
                 P == Cardinality(PicksFor(p, purpose))
      <3>1. /\ S \in Nat /\ P \in Nat /\ IsFiniteSet(SpentFor(p, purpose))
            /\ S + Left(p, purpose) <= P /\ Left(p, purpose) \in {0, 1}
        BY CountTypes DEF SpentWithinPicks, Left
      <3>2. PicksFor(p, purpose)' = PicksFor(p, purpose)
        BY <2>1 DEF PicksFor
      <3>3. CASE Valid(c) /\ PathOf[c] = p /\ Wanted(c) = purpose
        <4>1. SpentFor(p, purpose)' = SpentFor(p, purpose) \cup {s}
          BY <2>2, <3>3 DEF SpentFor, Wanted
        <4>2. Cardinality(SpentFor(p, purpose)') \in {S, S + 1}
          BY <3>1, <4>1, FS_AddElement
        <4>3. Left(p, purpose) = 1
          BY <3>3 DEF Left, Valid
        <4>4. Left(p, purpose)' = 0
          BY <2>1, <3>3 DEF Left, Shape, None, Purposes
        <4> QED
          BY <3>1, <3>2, <4>2, <4>3, <4>4
      <3>4. CASE ~(Valid(c) /\ PathOf[c] = p /\ Wanted(c) = purpose)
        <4>1. SpentFor(p, purpose)' = SpentFor(p, purpose)
          BY <2>2, <3>4 DEF SpentFor, Wanted
        <4>2. Left(p, purpose)' <= Left(p, purpose) /\ Left(p, purpose)' \in {0, 1}
          BY <2>1 DEF Left, Shape, None, Purposes
        <4> QED
          BY <3>1, <3>2, <4>1, <4>2
      <3> QED
        BY <3>3, <3>4
    <2> QED
      BY <2>3, <2>4 DEF SpentWithinPicks
  <1>3. CASE UNCHANGED <<authorized, picks, spent>>
    <2>1. ASSUME NEW p, NEW purpose
          PROVE  /\ SpentFor(p, purpose)' = SpentFor(p, purpose)
                 /\ PicksFor(p, purpose)' = PicksFor(p, purpose)
                 /\ Left(p, purpose)' = Left(p, purpose)
      BY <1>3 DEF SpentFor, Left, PicksFor, Wanted
    <2> QED
      BY <1>3, <2>1 DEF SpentWithinPicks
  <1>4. ASSUME NEW c \in issued, Own(c), ~Consume(c)
        PROVE  UNCHANGED <<authorized, picks, spent>>
    BY <1>4 DEF Own, Begin, Preview, Prepare, Register, Spawn, Exited, Killed, Imported
  <1> QED
    BY <1>1, <1>2, <1>3, <1>4 DEF Next, ChildExits, Cancel, Tick, Terminated, vars

\* For any calls at the same time and any number of picks, no more operations
\* go on than there were picks for them.
THEOREM PicksAreSpentOnce == Spec => []OneOperationPerPick
  <1>1. Init => SpentWithinPicks
    <2> SUFFICES ASSUME Init, NEW p \in Paths, NEW purpose \in Purposes
                 PROVE  /\ IsFiniteSet(spent)
                        /\ Cardinality(SpentFor(p, purpose)) + Left(p, purpose)
                              <= Cardinality(PicksFor(p, purpose))
      BY FS_EmptySet DEF Init, SpentWithinPicks
    <2>1. SpentFor(p, purpose) = {} /\ PicksFor(p, purpose) = {} /\ Left(p, purpose) = 0
      BY DEF Init, SpentFor, PicksFor, Left, None, Purposes
    <2> QED
      BY <2>1, FS_EmptySet DEF Init
  <1>2. Shape /\ SpentWithinPicks => OneOperationPerPick
    <2> SUFFICES ASSUME Shape, SpentWithinPicks, NEW p \in Paths, NEW purpose \in Purposes
                 PROVE  Cardinality(SpentFor(p, purpose)) <= Cardinality(PicksFor(p, purpose))
      BY DEF OneOperationPerPick, SpentFor
    <2>1. Cardinality(SpentFor(p, purpose)) \in Nat /\ Cardinality(PicksFor(p, purpose)) \in Nat
      BY CountTypes DEF SpentWithinPicks
    <2> QED
      BY <2>1 DEF SpentWithinPicks, Left
  <1> QED
    BY <1>1, <1>2, ShapeHolds, SpentStep, PTL DEF Spec
=============================================================================
