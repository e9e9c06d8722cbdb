------------------------ MODULE ConnectionImportProofs ------------------------
(* Proofs about ConnectionImport, for any previews, imports, candidates and *)
(* time limit, however they overlap.                                        *)
EXTENDS ConnectionImport, LibpqParameters, WellFoundedInduction, TLAPS

\* The index that is saved next is one of those that passed.
LEMMA LowestIsIn ==
    ASSUME NEW S \in SUBSET Slots, S # {}
    PROVE  Lowest(S) \in S
  <1>1. S \subseteq Nat
    BY ImportAssumption
  <1>2. PICK k \in S : \A j \in S : <<j, k>> \notin OpToRel(<, Nat)
    BY <1>1, NatLessThanWellFounded, WFMin
  <1>3. \A j \in S : ~(j < k)
    BY <1>1, <1>2 DEF OpToRel
  <1>4. \A j \in S : k <= j
    BY <1>1, <1>3
  <1> QED
    BY <1>4 DEF Lowest

-----------------------------------------------------------------------------
Lists == [preview : Previews, left : SUBSET Slots, at : 0..MaxTime, overtook : SUBSET Imports]

Imported == [pc : {"new", "sent", "testing", "refused", "saving", "marking", "done"},
             from : Previews \cup {None}, keys : SUBSET Slots, passed : SUBSET Slots]

Types ==
    /\ dialog \in [open : BOOLEAN, shown : Previews \cup {None}, ready : BOOLEAN,
                   ticked : SUBSET Slots]
    /\ pending \in Lists \cup {None}
    /\ discards \in Nat
    /\ reading \in [Previews -> {"new", "reading", "answered", "done"}]
    /\ call \in [Imports -> Imported]
    /\ clock \in 0..MaxTime

\* Every step keeps the types.
LEMMA TypesStep ==
    ASSUME Types, [Next]_vars
    PROVE  Types'
  <1> USE DEF Types, Lists, Imported, backend
  <1>1. ASSUME NEW p \in Previews, Load(p) \/ Preview(p) \/ NoPreview(p) \/ Render(p)
        PROVE  Types'
    <2>1. CASE Load(p)
      BY <2>1 DEF Load
    <2>2. CASE Preview(p)
      BY <2>2 DEF Preview, Underway
    <2>3. CASE NoPreview(p)
      BY <2>3 DEF NoPreview
    <2>4. CASE Render(p)
      BY <2>4 DEF Render
    <2> QED
      BY <1>1, <2>1, <2>2, <2>3, <2>4
  <1>2. ASSUME NEW i \in Imports, NEW keys \in SUBSET Slots, Confirm(i, keys)
        PROVE  Types'
    BY <1>2 DEF Confirm, Idle
  <1>3. ASSUME NEW i \in Imports, Select(i)
        PROVE  Types'
    <2>1. PICK r : call' = [call EXCEPT ![i] = r] /\ r \in Imported
      <3>1. CASE Fresh /\ call[i].keys \subseteq pending.left
        <4>1. pending.preview \in Previews \cup {None}
          BY <3>1 DEF Fresh
        <4>2. [call[i] EXCEPT !.pc = "testing", !.from = pending.preview] \in Imported
          BY <4>1
        <4> QED
          BY <1>3, <3>1, <4>2 DEF Select
      <3>2. CASE ~(Fresh /\ call[i].keys \subseteq pending.left)
        <4>1. [call[i] EXCEPT !.pc = "refused"] \in Imported
          OBVIOUS
        <4> QED
          BY <1>3, <3>2, <4>1 DEF Select
      <3> QED
        BY <3>1, <3>2
    <2>2. UNCHANGED <<dialog, pending, discards, reading, clock>>
      BY <1>3 DEF Select
    <2>3. call' \in [Imports -> Imported]
      BY <2>1
    <2> QED
      BY <2>2, <2>3
  <1>4. ASSUME NEW i \in Imports, Test(i)
        PROVE  Types'
    <2>1. PICK passed \in SUBSET call[i].keys :
            call' = [call EXCEPT ![i].pc = "saving", ![i].passed = passed]
      BY <1>4 DEF Test
    <2>2. [call[i] EXCEPT !.pc = "saving", !.passed = passed] \in Imported
      <3>1. call[i] \in Imported /\ passed \in SUBSET Slots
        OBVIOUS
      <3> QED
        BY <3>1, Zenon DEF Imported
    <2>3. call' \in [Imports -> Imported]
      BY <2>1, <2>2
    <2> QED
      BY <1>4, <2>3 DEF Test
  <1>5. ASSUME NEW i \in Imports, Save(i) \/ SaveFails(i)
        PROVE  Types'
    BY <1>5 DEF Save, SaveFails
  <1>6. ASSUME NEW i \in Imports, Mark(i)
        PROVE  Types'
    <2>1. PICK k : k = Lowest(call[i].passed)
      OBVIOUS
    <2>2. /\ pending' = IF pending = None THEN None ELSE [pending EXCEPT !.left = @ \ {k}]
          /\ call' = [call EXCEPT ![i].pc = "saving", ![i].passed = @ \ {k}]
          /\ UNCHANGED <<dialog, discards, reading, clock>>
      BY <1>6, <2>1 DEF Mark
    <2>3. pending' \in Lists \cup {None}
      BY <2>2
    <2>4. [call[i] EXCEPT !.pc = "saving", !.passed = @ \ {k}] \in Imported
      OBVIOUS
    <2>5. call' \in [Imports -> Imported]
      BY <2>2, <2>4
    <2> QED
      BY <2>2, <2>3, <2>5
  <1>7. ASSUME NEW i \in Imports, Answer(i)
        PROVE  Types'
    BY <1>7 DEF Answer
  <1>8. CASE Close \/ Discard
    <2>1. CASE Close
      <3>1. dialog' \in [open : BOOLEAN, shown : Previews \cup {None}, ready : BOOLEAN,
                         ticked : SUBSET Slots]
        BY <2>1 DEF Close
      <3> QED
        BY <2>1, <3>1 DEF Close
    <2>2. CASE Discard
      <3>1. discards - 1 \in Nat
        BY <2>2 DEF Discard
      <3> QED
        BY <2>2, <3>1 DEF Discard
    <2> QED
      BY <1>8, <2>1, <2>2
  <1>9. CASE Tick
    BY <1>9, ImportAssumption DEF Tick
  <1>10. CASE UNCHANGED vars
    BY <1>10 DEF vars
  <1> QED
    BY <1>1, <1>2, <1>3, <1>4, <1>5, <1>6, <1>7, <1>8, <1>9, <1>10 DEF Next

-----------------------------------------------------------------------------
(* What an import copied, and what became of the list it was copied from.  *)

\* An import copied from a list that was put up, and a list put up since then
\* knows that it overtook it.
CopiedBefore ==
    \A i \in Imports :
        /\ call[i].pc \in {"testing", "saving", "marking"} =>
              /\ call[i].from \in Previews /\ reading[call[i].from] \in {"answered", "done"}
              /\ pending # None /\ pending.preview # call[i].from => i \in pending.overtook
        /\ call[i].pc = "marking" =>
              /\ call[i].passed # {}
              /\ [preview |-> call[i].from, slot |-> Lowest(call[i].passed), by |-> i] \in saved

\* What was reported of a list is gone from it, and every list that was ever
\* pending came from a preview that was read.
SlotsAreSpent ==
    /\ pending # None => reading[pending.preview] \in {"answered", "done"}
    /\ \A r \in reported :
          /\ r.preview \in Previews /\ reading[r.preview] \in {"answered", "done"}
          /\ pending # None /\ pending.preview = r.preview => r.slot \notin pending.left

IInv == Types /\ CopiedBefore /\ SlotsAreSpent /\ GoneMeansImported

\* Marking takes the slot of the connection that was saved out of whatever
\* list is pending: its own, or one that overtook the import.
LEMMA MarkStep ==
    ASSUME IInv, NEW i \in Imports, Mark(i), Types'
    PROVE  CopiedBefore' /\ SlotsAreSpent' /\ GoneMeansImported'
  <1> DEFINE slot == Lowest(call[i].passed)
             new == [preview |-> call[i].from, slot |-> Lowest(call[i].passed), by |-> i]
  <1>1. /\ call[i].pc = "marking" /\ call[i].passed # {} /\ new \in saved
        /\ call[i].from \in Previews /\ reading[call[i].from] \in {"answered", "done"}
        /\ pending # None /\ pending.preview # call[i].from => i \in pending.overtook
        /\ call[i].passed \in SUBSET Slots
    BY DEF IInv, Mark, CopiedBefore, Types, Imported
  <1>2. PICK k : k = slot
    OBVIOUS
  <1>3. k \in Slots /\ k \in call[i].passed
    BY <1>1, <1>2, LowestIsIn
  <1>4. /\ pending' = IF pending = None THEN None ELSE [pending EXCEPT !.left = @ \ {k}]
        /\ reported' = reported \cup {[preview |-> call[i].from, slot |-> k, by |-> i]}
        /\ call' = [call EXCEPT ![i].pc = "saving", ![i].passed = @ \ {k}]
        /\ UNCHANGED <<dialog, discards, reading, saved, clock>>
    BY <1>2 DEF Mark
  <1>5. ASSUME pending # None
        PROVE  /\ pending'.preview = pending.preview /\ pending'.overtook = pending.overtook
               /\ pending'.left = pending.left \ {k}
    BY <1>4, <1>5 DEF IInv, Types, Lists
  <1>6. pending' # None <=> pending # None
    <2>1. ASSUME pending # None
          PROVE  pending' \in Lists
      BY <1>4, <2>1 DEF IInv, Types, Lists
    <2> QED
      BY <1>4, <2>1, ImportAssumption DEF Lists
  <1>7. /\ call'[i].pc = "saving" /\ call'[i].from = call[i].from
        /\ \A j \in Imports \ {i} : call'[j] = call[j]
    BY <1>1, <1>4 DEF IInv, Types, Imported
  <1>8. CopiedBefore'
    <2>1. ASSUME NEW j \in Imports, j # i
          PROVE  /\ call'[j].pc \in {"testing", "saving", "marking"} =>
                      /\ call'[j].from \in Previews /\ reading'[call'[j].from] \in {"answered", "done"}
                      /\ pending' # None /\ pending'.preview # call'[j].from => j \in pending'.overtook
                 /\ call'[j].pc = "marking" =>
                      /\ call'[j].passed # {}
                      /\ [preview |-> call'[j].from, slot |-> Lowest(call'[j].passed), by |-> j] \in saved'
      <3>1. call'[j] = call[j] /\ reading' = reading /\ saved' = saved
        BY <1>4, <1>7, <2>1
      <3> QED
        BY <1>5, <1>6, <3>1 DEF IInv, CopiedBefore
    <2>2. /\ call'[i].pc = "saving" /\ call'[i].from \in Previews
          /\ reading'[call'[i].from] \in {"answered", "done"}
          /\ pending' # None /\ pending'.preview # call'[i].from => i \in pending'.overtook
      BY <1>1, <1>4, <1>5, <1>6, <1>7
    <2> QED
      BY <2>1, <2>2 DEF CopiedBefore
  <1>9. SlotsAreSpent'
    <2>1. ASSUME NEW r \in reported
          PROVE  /\ r.preview \in Previews /\ reading'[r.preview] \in {"answered", "done"}
                 /\ pending' # None /\ pending'.preview = r.preview => r.slot \notin pending'.left
      BY <1>4, <1>5, <1>6 DEF IInv, SlotsAreSpent
    <2>2. ASSUME NEW r, r = [preview |-> call[i].from, slot |-> k, by |-> i]
          PROVE  /\ r.preview \in Previews /\ reading'[r.preview] \in {"answered", "done"}
                 /\ pending' # None /\ pending'.preview = r.preview => r.slot \notin pending'.left
      BY <1>1, <1>4, <1>5, <1>6, <2>2
    <2>3. pending' # None => reading'[pending'.preview] \in {"answered", "done"}
      BY <1>4, <1>5, <1>6 DEF IInv, SlotsAreSpent
    <2> QED
      BY <1>4, <2>1, <2>2, <2>3 DEF SlotsAreSpent
  <1>10. GoneMeansImported'
    <2>1. ASSUME pending' # None, NEW s \in Slots \ pending'.left
          PROVE  \E r \in saved' : /\ r.slot = s
                                   /\ r.preview = pending'.preview \/ r.by \in pending'.overtook
      <3>1. CASE s = k
        <4>1. new.slot = s /\ new.preview = call[i].from /\ new.by = i /\ new \in saved'
          BY <1>1, <1>2, <1>4, <3>1
        <4>2. call[i].from = pending'.preview \/ i \in pending'.overtook
          BY <1>1, <1>5, <1>6, <2>1
        <4> QED
          BY <4>1, <4>2
      <3>2. CASE s # k
        <4>1. s \in Slots \ pending.left
          BY <1>5, <1>6, <2>1, <3>2
        <4> QED
          BY <1>4, <1>5, <1>6, <2>1, <4>1 DEF IInv, GoneMeansImported
      <3> QED
        BY <3>1, <3>2
    <2> QED
      BY <2>1 DEF GoneMeansImported
  <1> QED
    BY <1>8, <1>9, <1>10

\* A new list holds every candidate, and knows the imports it overtakes.
LEMMA PreviewStep ==
    ASSUME IInv, NEW p \in Previews, Preview(p), Types'
    PROVE  CopiedBefore' /\ SlotsAreSpent' /\ GoneMeansImported'
  <1>1. /\ reading[p] = "reading" /\ reading' = [reading EXCEPT ![p] = "answered"]
        /\ pending' = [preview |-> p, left |-> Slots, at |-> clock, overtook |-> Underway]
        /\ UNCHANGED <<call, saved, reported>>
    BY DEF Preview
  <1>2. /\ reading'[p] = "answered"
        /\ \A q \in Previews : reading[q] \in {"answered", "done"} => reading'[q] \in {"answered", "done"}
    BY <1>1 DEF IInv, Types
  <1>3. pending'.preview = p /\ pending'.left = Slots /\ pending'.overtook = Underway
    BY <1>1
  <1>4. CopiedBefore'
    <2>1. ASSUME NEW i \in Imports, call[i].pc \in {"testing", "saving", "marking"}
          PROVE  i \in pending'.overtook
      BY <1>3, <2>1 DEF Underway
    <2> QED
      BY <1>1, <1>2, <2>1 DEF IInv, CopiedBefore
  <1>5. SlotsAreSpent'
    <2>1. ASSUME NEW r \in reported
          PROVE  r.preview # p
      BY <1>1, <2>1 DEF IInv, SlotsAreSpent
    <2> QED
      BY <1>1, <1>2, <1>3, <2>1 DEF IInv, SlotsAreSpent
  <1>6. GoneMeansImported'
    BY <1>3 DEF GoneMeansImported
  <1> QED
    BY <1>4, <1>5, <1>6

\* The other steps of an import: it copies, tests, saves and answers.
LEMMA ImportStep ==
    ASSUME IInv, NEW i \in Imports, Types',
           \/ \E keys \in SUBSET Slots : Confirm(i, keys)
           \/ Select(i) \/ Test(i) \/ Save(i) \/ SaveFails(i) \/ Answer(i)
    PROVE  CopiedBefore' /\ SlotsAreSpent' /\ GoneMeansImported'
  <1>1. /\ UNCHANGED <<pending, reading, reported>> /\ saved \subseteq saved'
        /\ \A j \in Imports \ {i} : call'[j] = call[j]
    <2>1. UNCHANGED <<pending, reading, reported>> /\ saved \subseteq saved'
      BY DEF Confirm, Select, Test, Save, SaveFails, Answer, backend
    <2>2. \A j \in Imports \ {i} : call'[j] = call[j]
      BY DEF IInv, Types, Confirm, Select, Test, Save, SaveFails, Answer
    <2> QED
      BY <2>1, <2>2
  <1>2. /\ call'[i].pc \in {"testing", "saving", "marking"} =>
              /\ call'[i].from \in Previews /\ reading'[call'[i].from] \in {"answered", "done"}
              /\ pending' # None /\ pending'.preview # call'[i].from => i \in pending'.overtook
        /\ call'[i].pc = "marking" =>
              /\ call'[i].passed # {}
              /\ [preview |-> call'[i].from, slot |-> Lowest(call'[i].passed), by |-> i] \in saved'
    <2>1. CASE Select(i)
      <3>1. CASE Fresh /\ call[i].keys \subseteq pending.left
        <4>1. call'[i].pc = "testing" /\ call'[i].from = pending.preview /\ pending # None
          BY <2>1, <3>1 DEF Select, IInv, Types, Imported, Fresh
        <4>2. pending.preview \in Previews
          BY <4>1 DEF IInv, Types, Lists
        <4> QED
          BY <1>1, <4>1, <4>2 DEF IInv, SlotsAreSpent
      <3>2. CASE ~(Fresh /\ call[i].keys \subseteq pending.left)
        <4>1. call'[i].pc = "refused"
          BY <2>1, <3>2 DEF Select, IInv, Types, Imported
        <4> QED
          BY <4>1
      <3> QED
        BY <3>1, <3>2
    <2>2. CASE Test(i) \/ SaveFails(i)
      <3>1. call'[i].pc = "saving" /\ call'[i].from = call[i].from /\ call[i].pc \in {"testing", "saving"}
        BY <2>2 DEF Test, SaveFails, IInv, Types, Imported
      <3> QED
        BY <1>1, <3>1 DEF IInv, CopiedBefore
    <2>3. CASE Save(i)
      <3>1. /\ call'[i].pc = "marking" /\ call'[i].from = call[i].from /\ call[i].pc = "saving"
            /\ call'[i].passed = call[i].passed /\ call[i].passed # {}
            /\ [preview |-> call[i].from, slot |-> Lowest(call[i].passed), by |-> i] \in saved'
        BY <2>3 DEF Save, IInv, Types, Imported
      <3> QED
        BY <1>1, <3>1 DEF IInv, CopiedBefore
    <2>4. CASE Answer(i) \/ \E keys \in SUBSET Slots : Confirm(i, keys)
      <3>1. PICK r : call' = [call EXCEPT ![i] = r] /\ r.pc \in {"done", "sent"}
        <4>1. CASE Answer(i)
          <5>1. call' = [call EXCEPT ![i] = [call[i] EXCEPT !.pc = "done"]]
            BY <4>1 DEF Answer
          <5>2. [call[i] EXCEPT !.pc = "done"].pc = "done"
            BY DEF IInv, Types, Imported
          <5> QED
            BY <5>1, <5>2
        <4>2. CASE \E keys \in SUBSET Slots : Confirm(i, keys)
          BY <4>2 DEF Confirm, Idle
        <4> QED
          BY <2>4, <4>1, <4>2
      <3> QED
        BY <3>1 DEF IInv, Types
    <2> QED
      BY <2>1, <2>2, <2>3, <2>4
  <1>3. CopiedBefore'
    <2>1. ASSUME NEW j \in Imports, j # i
          PROVE  /\ call'[j].pc \in {"testing", "saving", "marking"} =>
                      /\ call'[j].from \in Previews /\ reading'[call'[j].from] \in {"answered", "done"}
                      /\ pending' # None /\ pending'.preview # call'[j].from => j \in pending'.overtook
                 /\ call'[j].pc = "marking" =>
                      /\ call'[j].passed # {}
                      /\ [preview |-> call'[j].from, slot |-> Lowest(call'[j].passed), by |-> j] \in saved'
      <3>1. call'[j] = call[j]
        BY <1>1, <2>1
      <3> QED
        BY <1>1, <3>1 DEF IInv, CopiedBefore
    <2> QED
      BY <1>2, <2>1 DEF CopiedBefore
  <1>4. SlotsAreSpent' /\ GoneMeansImported'
    BY <1>1 DEF IInv, SlotsAreSpent, GoneMeansImported
  <1> QED
    BY <1>3, <1>4

\* No step breaks the invariant.
LEMMA InvariantStep ==
    ASSUME IInv, [Next]_vars
    PROVE  IInv'
  <1>1. Types'
    BY TypesStep DEF IInv
  <1>2. ASSUME NEW p \in Previews, Load(p) \/ NoPreview(p) \/ Render(p)
        PROVE  IInv'
    <2>1. /\ UNCHANGED <<pending, call, saved, reported>>
          /\ \A q \in Previews : reading[q] \in {"answered", "done"} => reading'[q] \in {"answered", "done"}
      BY <1>2 DEF IInv, Types, Load, NoPreview, Render, backend
    <2>2. pending # None => pending.preview \in Previews
      BY DEF IInv, Types, Lists
    <2> QED
      BY <1>1, <2>1, <2>2 DEF IInv, CopiedBefore, SlotsAreSpent, GoneMeansImported
  <1>3. CASE Discard
    <2>1. pending' = None /\ UNCHANGED <<reading, call, saved, reported>>
      BY <1>3 DEF Discard
    <2> QED
      BY <1>1, <2>1 DEF IInv, CopiedBefore, SlotsAreSpent, GoneMeansImported
  <1>4. CASE Close \/ Tick \/ UNCHANGED vars
    <2>1. UNCHANGED <<pending, reading, call, saved, reported>>
      BY <1>4 DEF Close, Tick, vars, backend
    <2> QED
      BY <1>1, <2>1 DEF IInv, CopiedBefore, SlotsAreSpent, GoneMeansImported
  <1> QED
    BY <1>1, <1>2, <1>3, <1>4, PreviewStep, ImportStep, MarkStep DEF Next, IInv

\* No import takes up what was reported as imported from its list.
LEMMA SelectionStep ==
    ASSUME IInv, [Next]_vars, NEW i \in Imports, call[i].pc = "sent", call'[i].pc = "testing"
    PROVE  \A r \in reported : r.preview = call'[i].from => r.slot \notin call[i].keys
  <1>1. Select(i)
    <2>1. ASSUME NEW j \in Imports, j # i,
                 \/ \E keys \in SUBSET Slots : Confirm(j, keys)
                 \/ Select(j) \/ Test(j) \/ Save(j) \/ SaveFails(j) \/ Mark(j) \/ Answer(j)
          PROVE  call'[i] = call[i]
      BY <2>1 DEF IInv, Types, Confirm, Select, Test, Save, SaveFails, Mark, Answer
    <2>2. ASSUME \/ \E keys \in SUBSET Slots : Confirm(i, keys)
                 \/ Test(i) \/ Save(i) \/ SaveFails(i) \/ Mark(i) \/ Answer(i)
          PROVE  FALSE
      BY <2>2 DEF Confirm, Test, Save, SaveFails, Mark, Answer
    <2>3. ASSUME \/ \E p \in Previews : Load(p) \/ Preview(p) \/ NoPreview(p) \/ Render(p)
                 \/ Close \/ Discard \/ Tick \/ UNCHANGED vars
          PROVE  call' = call
      BY <2>3 DEF Load, Preview, NoPreview, Render, Close, Discard, Tick, vars
    <2> QED
      BY <2>1, <2>2, <2>3 DEF Next
  <1>2. /\ Fresh /\ call[i].keys \subseteq pending.left
        /\ call'[i].from = pending.preview
    BY <1>1 DEF Select, IInv, Types, Imported
  <1> QED
    BY <1>2 DEF IInv, SlotsAreSpent, Fresh

LEMMA InvariantHolds == Spec => []IInv
  <1>1. Init => IInv
    <2> SUFFICES ASSUME Init PROVE IInv
      OBVIOUS
    <2>1. Types
      BY ImportAssumption DEF Init, Idle, Types, Lists, Imported
    <2>2. CopiedBefore /\ SlotsAreSpent /\ GoneMeansImported
      BY DEF Init, Idle, CopiedBefore, SlotsAreSpent, GoneMeansImported
    <2> QED
      BY <2>1, <2>2 DEF IInv
  <1>2. IInv /\ [Next]_vars => IInv'
    BY InvariantStep
  <1> QED
    BY <1>1, <1>2, PTL DEF Spec

\* "None once imported, so a second import of the same key cannot duplicate
\* it" (connection_import.rs:89), however previews, imports and closings of the
\* dialog overlap.
THEOREM NoDuplicates == Spec => NoDuplicateImport
  <1>1. IInv /\ [Next]_vars =>
          [\A i \in Imports : call[i].pc = "sent" /\ call'[i].pc = "testing" =>
             \A r \in reported : r.preview = call'[i].from => r.slot \notin call[i].keys]_vars
    BY SelectionStep
  <1> QED
    BY <1>1, InvariantHolds, PTL DEF Spec, NoDuplicateImport

\* A candidate is missing from its list only when it was saved from it, or when
\* the list overtook the import that saved the one of that index.
THEOREM NothingIsLost == Spec => []GoneMeansImported
  BY InvariantHolds, PTL DEF IInv

-----------------------------------------------------------------------------
(* The parsers that fill the list: LibpqParameters, for any URLs and files. *)
\* What the first m parameters of the query say of a key.
Places(key, m) == {k \in 1..m : source.query[k].key = key}
ValueAt(at) == IF at = {} THEN Unset ELSE source.query[CHOOSE k \in at : TRUE].value
Said(key, m) == ValueAt(Places(key, m))

\* The connection so far is what the authority and the parameters so far say.
Origin == split_host_port(source)
SoFar ==
    /\ fields.host = OrElse(Said("host", read),
                                  IF Origin.host # "" THEN Origin.host
                                  ELSE OrElse(Said("hostaddr", read), ""))
    /\ fields.port = OrElse(Said("port", read), Origin.port)
    /\ fields.user = OrElse(Said("user", read), source.user)
    /\ fields.database = OrElse(Said("dbname", read), source.path)
    /\ fields.downgraded => fields.ssl

UrlFields == {"host", "port", "database", "user", "password", "ssl", "downgraded", "ignored"}

\* The loop invariant of the URL, and what it leaves when it ends.
UrlRead ==
    /\ IsUrl => source \in Urls
    /\ task \in {"url", "pgpass", "service", "done"}
    /\ task = "url" => IsUrl /\ read \in 0..Len(source.query) /\ DOMAIN fields = UrlFields
    /\ task = "url" /\ accepted /\ Plain => SoFar
    /\ task \in {"pgpass", "service"} => ~IsUrl
    /\ UrlMeansWhatItSays

\* The authority always names a host, an empty one perhaps.
LEMMA OriginNamesHost ==
    ASSUME ParserAssumption, source \in Urls
    PROVE  Origin.host # Unset
  <1>1. CASE /\ source.form = "plain" /\ source.port = Unset
             /\ source.host \in DOMAIN CutAtLastColon
    <2>1. Origin = CutAtLastColon[source.host]
      BY <1>1 DEF Origin, split_host_port
    <2>2. Origin.host = ":"
      BY <1>1, <2>1 DEF CutAtLastColon
    <2> QED
      BY <2>2 DEF Unset
  <1>2. CASE ~(/\ source.form = "plain" /\ source.port = Unset
               /\ source.host \in DOMAIN CutAtLastColon)
    BY <1>2 DEF Origin, split_host_port, ParserAssumption
  <1> QED
    BY <1>1, <1>2

\* The next parameter is the first to speak of its key.
LEMMA SaidNext ==
    ASSUME source \in Urls, ParserAssumption, Plain, NEW m \in Nat, m < Len(source.query),
           NEW pair, pair = source.query[m + 1]
    PROVE  /\ \A key : key # pair.key => Said(key, m + 1) = Said(key, m)
           /\ Said(pair.key, m) = Unset
           /\ Said(pair.key, m + 1) = pair.value
           /\ pair.value \notin {Unset, ""}
  <1>1. source.query \in Seq([key : STRING, value : STRING \ {Unset}])
    BY DEF ParserAssumption
  <1>2. DOMAIN source.query = 1..Len(source.query) /\ Len(source.query) \in Nat
    BY <1>1
  <1>3. m + 1 \in DOMAIN source.query
    BY <1>2
  <1>4. ASSUME NEW k \in 1..m
        PROVE  source.query[k].key # pair.key
    <2>1. k \in DOMAIN source.query /\ k # m + 1
      BY <1>2
    <2> QED
      BY <1>3, <2>1 DEF Plain
  <1>5. ASSUME NEW key, key # pair.key
        PROVE  Said(key, m + 1) = Said(key, m)
    <2>1. Places(key, m + 1) = Places(key, m)
      BY <1>5 DEF Places
    <2> QED
      BY <2>1 DEF Said
  <1>6. Said(pair.key, m) = Unset
    BY <1>4 DEF Said, Places, ValueAt
  <1>7. Said(pair.key, m + 1) = pair.value
    <2>1. Places(pair.key, m + 1) = {m + 1}
      BY <1>4 DEF Places
    <2> QED
      BY <2>1 DEF Said, ValueAt
  <1>8. pair.value \notin {Unset, ""}
    <2>0. PICK pairs : pairs = [key : STRING, value : STRING \ {Unset}]
      OBVIOUS
    <2>1. pair \in pairs
      <3>1. source.query \in Seq(pairs)
        BY <1>1, <2>0, Zenon
      <3> QED
        BY <1>3, <3>1
    <2>2. pair.value # ""
      BY <1>3 DEF Plain
    <2> QED
      BY <2>0, <2>1, <2>2
  <1> QED
    BY <1>5, <1>6, <1>7, <1>8

\* The loop over the parameters keeps its invariant: host overrides
\* what the authority says and hostaddr, which fills an empty host only.
LEMMA ParameterKept ==
    ASSUME ParserAssumption, UrlRead, ReadParameter
    PROVE  UrlRead'
  <1> DEFINE pair == source.query[read + 1]
  <1>1. /\ task = "url" /\ accepted /\ read < Len(source.query) /\ read \in Nat
        /\ source \in Urls /\ IsUrl /\ DOMAIN fields = UrlFields
        /\ read' = read + 1 /\ UNCHANGED <<source, task>>
    BY DEF UrlRead, ReadParameter
  <1>2. Len(source.query) \in Nat
    BY <1>1 DEF ParserAssumption
  <1>3. CASE ~accepted'
    <2>1. fields' = fields
      BY <1>3, <1>1 DEF ReadParameter
    <2> QED
      BY <1>1, <1>2, <1>3, <2>1 DEF UrlRead, IsUrl, UrlMeansWhatItSays
  <1>4. CASE accepted'
    <2>1. fields' = With(fields, pair.key, pair.value)
      BY <1>1, <1>4 DEF ReadParameter
    <2>2. DOMAIN fields' = UrlFields
      BY <1>1, <2>1 DEF With
    <2>3. ASSUME Plain
          PROVE  SoFar'
      <3>1. SoFar
        BY <1>1, <2>3 DEF UrlRead
      <3>2. PICK key, value : key = pair.key /\ value = pair.value
        OBVIOUS
      <3>3. /\ \A other : other # key => Said(other, read + 1) = Said(other, read)
            /\ Said(key, read) = Unset /\ Said(key, read + 1) = value
            /\ value \notin {Unset, ""}
        BY <1>1, <2>3, <3>2, SaidNext
      <3>4. ASSUME NEW other
            PROVE  Said(other, read)' = Said(other, read + 1)
          BY <1>1 DEF Said, ValueAt, Places
      <3>5. fields' = With(fields, key, value)
        BY <2>1, <3>2
      <3>6. Origin.host # Unset /\ Origin' = Origin
        BY <1>1, OriginNamesHost DEF Origin, split_host_port
      <3>7. CASE key = "host"
        BY <1>1, <3>1, <3>3, <3>4, <3>5, <3>6, <3>7, ZenonT(60) DEF SoFar, With, OrElse, UrlFields
      <3>8. CASE key = "hostaddr"
        BY <1>1, <3>1, <3>3, <3>4, <3>5, <3>6, <3>8, ZenonT(60) DEF SoFar, With, OrElse, Unset, UrlFields
      <3>9. CASE key = "port"
        BY <1>1, <3>1, <3>3, <3>4, <3>5, <3>6, <3>9, ZenonT(60) DEF SoFar, With, OrElse, UrlFields
      <3>10. CASE key = "user"
        BY <1>1, <3>1, <3>3, <3>4, <3>5, <3>6, <3>10, ZenonT(60) DEF SoFar, With, OrElse, UrlFields
      <3>11. CASE key = "dbname"
        BY <1>1, <3>1, <3>3, <3>4, <3>5, <3>6, <3>11, ZenonT(60) DEF SoFar, With, OrElse, UrlFields
      <3>12. CASE key = "sslmode"
        BY <1>1, <3>1, <3>3, <3>4, <3>5, <3>6, <3>12, ZenonT(60) DEF SoFar, With, UrlFields, ssl_from_mode
      <3>13. CASE key \notin {"host", "hostaddr", "port", "user", "dbname", "sslmode"}
        BY <1>1, <3>1, <3>3, <3>4, <3>5, <3>6, <3>13, ZenonT(60) DEF SoFar, With, UrlFields
      <3> QED
        BY <3>7, <3>8, <3>9, <3>10, <3>11, <3>12, <3>13
    <2>4. Plain' = Plain
      BY <1>1 DEF Plain
    <2> QED
      BY <1>1, <1>2, <2>2, <2>3, <2>4 DEF UrlRead, IsUrl, UrlMeansWhatItSays
  <1> QED
    BY <1>3, <1>4

\* When all parameters are read, the defaults fill what nobody said.
LEMMA UrlFinished ==
    ASSUME ParserAssumption, UrlRead, FinishUrl
    PROVE  UrlRead'
  <1>1. /\ task = "url" /\ task' = "done" /\ UNCHANGED <<source, read>>
        /\ source \in Urls /\ IsUrl /\ DOMAIN fields = UrlFields /\ read \in Nat
    BY DEF UrlRead, FinishUrl
  <1>2. IsUrl' /\ Plain' = Plain
    BY <1>1 DEF IsUrl, Plain
  <1>3. ASSUME accepted', Plain
        PROVE  /\ fields'.host = OrElse(Says("host"),
                     OrElse(Origin.host, OrElse(Says("hostaddr"), "localhost")))
               /\ fields'.port = OrElse(Says("port"), OrElse(Origin.port, "5432"))
               /\ fields'.user = OrElse(Says("user"), source.user)
               /\ fields'.database = OrElse(Says("dbname"), OrElse(source.path, fields'.user))
               /\ fields'.downgraded => fields'.ssl
    <2>1. accepted /\ read = Len(source.query)
      BY <1>3 DEF FinishUrl
    <2>2. SoFar
      BY <1>1, <1>3, <2>1 DEF UrlRead
    <2>3. ASSUME NEW key
          PROVE  Says(key) = Said(key, read)
      <3>1. DOMAIN source.query = 1..read
        BY <1>1, <2>1 DEF ParserAssumption
      <3>2. {k \in DOMAIN source.query : source.query[k].key = key} = Places(key, read)
        BY <3>1 DEF Places
      <3>3. PICK at : at = {k \in DOMAIN source.query : source.query[k].key = key}
        OBVIOUS
      <3>4. Says(key) = ValueAt(at)
        BY <3>3 DEF Says, ValueAt
      <3>5. at = Places(key, read)
        BY <3>2, <3>3
      <3> QED
        BY <3>4, <3>5, Zenon DEF Said
    <2>4. /\ fields'.host = OrElse(fields.host, "localhost")
          /\ fields'.port = OrElse(fields.port, "5432")
          /\ fields'.database = OrElse(fields.database, fields.user)
          /\ fields'.user = fields.user /\ fields'.ssl = fields.ssl
          /\ fields'.downgraded = fields.downgraded
      BY <1>1 DEF FinishUrl, UrlFields
    <2>5. Origin.host # Unset
      BY <1>1, OriginNamesHost
    <2> QED
      BY <2>2, <2>3, <2>4, <2>5 DEF SoFar, OrElse, Unset
  <1>4. \A key : Says(key)' = Says(key)
    BY <1>1 DEF Says
  <1>5. UrlMeansWhatItSays'
    <2>1. split_host_port(source)' = Origin
      BY <1>1 DEF Origin, split_host_port
    <2> QED
      BY <1>1, <1>2, <1>3, <1>4, <2>1, Zenon DEF UrlMeansWhatItSays
  <1> QED
    BY <1>1, <1>2, <1>5 DEF UrlRead

\* For every URL whose parameters say each thing once: the connection that the
\* loop of parse_connection_url ends with is the one the URL means.
THEOREM UrlsAreRead == ParserSpec => []UrlMeansWhatItSays
  <1>1. ParserInit => UrlRead
    <2> SUFFICES ASSUME ParserInit PROVE UrlRead
      OBVIOUS
    <2>1. CASE source \in Urls /\ task = "url"
      <3>1. /\ read = 0 /\ fields = Authority(source)
            /\ source \in Urls /\ task = "url"
        BY <2>1 DEF ParserInit
      <3>2. \A key : Said(key, 0) = Unset
        BY DEF Said, ValueAt, Places
      <3>3. /\ fields.host = Origin.host /\ fields.user = source.user /\ fields.database = source.path
            /\ fields.port = Origin.port
            /\ fields.ssl = FALSE /\ fields.downgraded = FALSE /\ DOMAIN fields = UrlFields
        BY <3>1, Zenon DEF Authority, Empty, UrlFields, Origin
      <3>4. SoFar
        BY ParserAssumption, <3>1, <3>2, <3>3, OriginNamesHost DEF SoFar, OrElse, Unset
      <3>5. IsUrl /\ 0 \in 0..Len(source.query)
        BY ParserAssumption, <3>1 DEF ParserAssumption, IsUrl
      <3>6. UrlMeansWhatItSays
        BY <3>1 DEF UrlMeansWhatItSays
      <3> QED
        BY <3>1, <3>3, <3>4, <3>5, <3>6 DEF UrlRead
    <2>2. CASE source \in Files /\ task = "pgpass"
      BY ParserAssumption, <2>2 DEF UrlRead, UrlMeansWhatItSays, IsUrl, ParserAssumption
    <2> QED
      BY <2>1, <2>2 DEF ParserInit
  <1>2. UrlRead /\ [ParserNext]_parserVars => UrlRead'
    <2> SUFFICES ASSUME UrlRead, [ParserNext]_parserVars PROVE UrlRead'
      OBVIOUS
    <2>1. CASE ReadLine \/ FinishLines \/ ReadService
      <3>1. /\ task \in {"pgpass", "service"} /\ task' \in {"pgpass", "service", "done"}
            /\ source' = source
        BY <2>1 DEF ReadLine, FinishLines, ReadService
      <3> QED
        BY <3>1 DEF UrlRead, UrlMeansWhatItSays, IsUrl
    <2>2. CASE UNCHANGED parserVars
      <3>1. UNCHANGED <<source, task, read, fields, accepted>>
        BY <2>2 DEF parserVars
      <3>2. /\ Plain' = Plain /\ IsUrl' = IsUrl
            /\ \A key : Says(key)' = Says(key)
        BY <3>1 DEF Plain, IsUrl, Says
      <3>3. UrlMeansWhatItSays'
        BY <3>1, <3>2 DEF UrlRead, UrlMeansWhatItSays, split_host_port
      <3>4. \A key : Said(key, read)' = Said(key, read)
        BY <3>1 DEF Said, ValueAt, Places
      <3>5. SoFar' = SoFar
        BY <3>1, <3>4 DEF SoFar, Origin, split_host_port
      <3> QED
        BY <3>1, <3>2, <3>3, <3>5 DEF UrlRead
    <2> QED
      BY ParserAssumption, <2>1, <2>2, ParameterKept, UrlFinished DEF ParserNext
  <1>3. UrlRead => UrlMeansWhatItSays
    BY DEF UrlRead
  <1> QED
    BY <1>1, <1>2, <1>3, PTL DEF ParserSpec

-----------------------------------------------------------------------------
\* What is listed is what the first line that names its target says.
FirstLineWins ==
    \A j, k \in DOMAIN entries :
        /\ Target(entries[j]) = Target(entries[k]) => j = k
        /\ \E i \in 1..read :
              /\ entries[k] = Listed(source.pgpass[i]) /\ Listable(source.pgpass[i])
              /\ \A m \in 1..(i - 1) :
                    Listable(source.pgpass[m]) => Named(source.pgpass[m]) # Named(source.pgpass[i])

\* Every line so far that names a target has it listed.
LinesRead ==
    /\ task \in {"url", "pgpass", "service", "done"}
    /\ task = "url" => entries = <<>>
    /\ task = "pgpass" => source \in Files /\ read \in 0..Len(source.pgpass)
    /\ \E S : entries \in Seq(S)
    /\ task = "pgpass" =>
          \A m \in 1..read : Listable(source.pgpass[m]) =>
              \E k \in DOMAIN entries : Target(entries[k]) = Named(source.pgpass[m])
    /\ FirstLineWins

\* The next line is listed when no line before it names its target.
LEMMA LineKept ==
    ASSUME ParserAssumption, LinesRead, ReadLine
    PROVE  LinesRead'
  <1>1. PICK line : line = source.pgpass[read + 1]
    OBVIOUS
  <1>2. /\ task = "pgpass" /\ read < Len(source.pgpass) /\ read \in Nat /\ Len(source.pgpass) \in Nat
        /\ source \in Files /\ read' = read + 1 /\ UNCHANGED <<source, task>>
    <2>1. Len(source.pgpass) \in Nat
      BY DEF LinesRead, ReadLine, ParserAssumption
    <2> QED
      BY <2>1 DEF LinesRead, ReadLine
  <1>3. PICK S : entries \in Seq(S)
    BY DEF LinesRead
  <1>4. /\ DOMAIN entries = 1..Len(entries) /\ Len(entries) \in Nat
    BY <1>3
  <1>5. CASE /\ Listable(line) /\ \A k \in DOMAIN entries : Target(entries[k]) # Named(line)
    <2>1. PICK new : new = Listed(line)
      OBVIOUS
    <2>2. entries' = Append(entries, new)
      BY <1>1, <1>2, <1>5, <2>1 DEF ReadLine
    <2>3. /\ entries' \in Seq(S \cup {new})
          /\ DOMAIN entries' = DOMAIN entries \cup {Len(entries) + 1}
          /\ entries'[Len(entries) + 1] = new /\ Len(entries) + 1 \notin DOMAIN entries
          /\ \A k \in DOMAIN entries : entries'[k] = entries[k]
      <3>1. entries \in Seq(S \cup {new})
        BY <1>3
      <3> QED
        BY <1>4, <2>2, <3>1
    <2>4. Target(new) = Named(line)
      BY <2>1 DEF Target, Named, Listed
    <2>5. /\ \A m : /\ Listable(source.pgpass[m])' = Listable(source.pgpass[m])
                  /\ Named(source.pgpass[m])' = Named(source.pgpass[m])
                  /\ Listed(source.pgpass[m])' = Listed(source.pgpass[m])
          /\ \A k : Target(entries[k])' = Target(entries'[k])
      BY <1>2 DEF Listable, Named, Target, Listed
    <2>6. FirstLineWins'
      <3>1. ASSUME NEW j \in DOMAIN entries', NEW k \in DOMAIN entries',
                   Target(entries'[j]) = Target(entries'[k])
            PROVE  j = k
        BY <1>5, <2>3, <2>4, <3>1 DEF LinesRead, FirstLineWins
      <3>2. ASSUME NEW k \in DOMAIN entries
            PROVE  \E i \in 1..read' :
                     /\ entries'[k] = Listed(source.pgpass[i]) /\ Listable(source.pgpass[i])
                     /\ \A m \in 1..(i - 1) : Listable(source.pgpass[m])
                           => Named(source.pgpass[m]) # Named(source.pgpass[i])
        <4>1. PICK i \in 1..read :
                     /\ entries[k] = Listed(source.pgpass[i]) /\ Listable(source.pgpass[i])
                     /\ \A m \in 1..(i - 1) : Listable(source.pgpass[m])
                           => Named(source.pgpass[m]) # Named(source.pgpass[i])
          BY <1>2 DEF LinesRead, FirstLineWins
        <4>2. i \in 1..read' /\ entries'[k] = entries[k]
          BY <1>2, <2>3
        <4> QED
          BY <4>1, <4>2
      <3>3. /\ new = Listed(source.pgpass[read']) /\ Listable(source.pgpass[read'])
            /\ \A m \in 1..(read' - 1) : Listable(source.pgpass[m])
                    => Named(source.pgpass[m]) # Named(source.pgpass[read'])
        <4>1. ASSUME NEW m \in 1..read, Listable(source.pgpass[m])
              PROVE  Named(source.pgpass[m]) # Named(line)
          BY <1>2, <1>5, <4>1 DEF LinesRead
        <4>2. read' - 1 = read /\ line = source.pgpass[read']
          BY <1>1, <1>2
        <4> QED
          BY <1>5, <2>1, <4>1, <4>2
      <3>4. read' \in 1..read'
        BY <1>2
      <3>5. \A k \in DOMAIN entries' : k \in DOMAIN entries \/ k = Len(entries) + 1
        BY <2>3
      <3>6. ASSUME NEW k \in DOMAIN entries'
            PROVE  \E i \in 1..read' :
                     /\ entries'[k] = Listed(source.pgpass[i]) /\ Listable(source.pgpass[i])
                     /\ \A m \in 1..(i - 1) : Listable(source.pgpass[m])
                           => Named(source.pgpass[m]) # Named(source.pgpass[i])
        BY <2>3, <3>2, <3>3, <3>4, <3>5, <3>6
      <3> QED
        BY <1>2, <2>5, <3>1, <3>6 DEF FirstLineWins
    <2>7. ASSUME NEW m \in 1..read', Listable(source.pgpass[m])
          PROVE  \E k \in DOMAIN entries' : Target(entries'[k]) = Named(source.pgpass[m])
      <3>1. CASE m = read'
        BY <1>1, <1>2, <2>3, <2>4, <3>1
      <3>2. CASE m # read'
        <4>1. m \in 1..read
          BY <1>2, <3>2
        <4>2. PICK k \in DOMAIN entries : Target(entries[k]) = Named(source.pgpass[m])
          BY <1>2, <2>7, <4>1 DEF LinesRead
        <4> QED
          BY <2>3, <4>2
      <3> QED
        BY <3>1, <3>2
    <2> QED
      BY <1>2, <2>3, <2>5, <2>6, <2>7 DEF LinesRead
  <1>6. CASE ~(/\ Listable(line)
               /\ \A k \in DOMAIN entries : Target(entries[k]) # Named(line))
    <2>1. entries' = entries
      BY <1>1, <1>2, <1>6 DEF ReadLine
    <2>2. /\ \A m : /\ Listable(source.pgpass[m])' = Listable(source.pgpass[m])
                  /\ Named(source.pgpass[m])' = Named(source.pgpass[m])
                  /\ Listed(source.pgpass[m])' = Listed(source.pgpass[m])
          /\ \A k : Target(entries[k])' = Target(entries[k])
      BY <1>2, <2>1 DEF Listable, Named, Target, Listed
    <2>3. ASSUME NEW m \in 1..read', Listable(source.pgpass[m])
          PROVE  \E k \in DOMAIN entries : Target(entries[k]) = Named(source.pgpass[m])
      <3>1. m \in 1..read \/ m = read + 1
        BY <1>2
      <3> QED
        BY <1>1, <1>2, <1>6, <2>3, <3>1 DEF LinesRead
    <2>4. FirstLineWins'
      <3>1. \A i \in 1..read : i \in 1..read'
        BY <1>2
      <3>2. FirstLineWins
        BY DEF LinesRead
      <3> QED
        BY <1>2, <2>1, <2>2, <3>1, <3>2 DEF FirstLineWins
    <2> QED
      BY <1>2, <2>1, <2>2, <2>3, <2>4 DEF LinesRead
  <1> QED
    BY <1>5, <1>6

\* A line without wildcards that matches the target of a listed line names it.
LEMMA PlainMatchNames ==
    ASSUME NEW line, NEW other, Listable(other), Matches(line, Named(other)), ~HasWildcard(line)
    PROVE  Listable(line) /\ Named(line) = Named(other)
  <1>1. /\ line.host = other.host /\ line.user = other.user
        /\ line.port = Named(other).port /\ line.database = Named(other).database
    BY DEF Matches, HasWildcard, Named
  <1>2. Listable(line)
    BY <1>1 DEF Listable, Named, HasWildcard, BadPorts
  <1>3. Named(line) = Named(other)
    BY <1>1 DEF Named, HasWildcard
  <1> QED
    BY <1>2, <1>3

\* What is read is listed, also when the service's turn has come.
LinesListed ==
    /\ LinesRead
    /\ entries # <<>> => source \in Files /\ read \in 0..Len(source.pgpass)
    /\ task = "service" => \A i \in DOMAIN source.pgpass : Listable(source.pgpass[i]) =>
          \E k \in DOMAIN entries : Target(entries[k]) = Named(source.pgpass[i])

\* For every password file: pgpass_connections lists every target that a line
\* names, once, from the line libpq would use but for earlier wildcards.
THEOREM ListedLinesAreLibpqs == ParserSpec => []ListedLineIsLibpqs
  <1>1. ParserInit => LinesListed
    <2> SUFFICES ASSUME ParserInit PROVE LinesListed
      OBVIOUS
    <2>1. entries = <<>> /\ read = 0 /\ task \in {"url", "pgpass"} /\ (task = "pgpass" => source \in Files)
      BY DEF ParserInit
    <2>2. task = "pgpass" => Len(source.pgpass) \in Nat
      BY <2>1 DEF ParserAssumption
    <2>3. entries \in Seq({})
      BY <2>1
    <2> QED
      BY <2>1, <2>2, <2>3 DEF LinesListed, LinesRead, FirstLineWins
  <1>2. LinesListed /\ [ParserNext]_parserVars => LinesListed'
    <2> SUFFICES ASSUME LinesListed, [ParserNext]_parserVars PROVE LinesListed'
      OBVIOUS
    <2> USE DEF LinesListed
    <2>1. CASE ReadParameter \/ FinishUrl
      <3>1. task = "url" /\ task' \in {"url", "done"} /\ entries' = entries
        BY <2>1 DEF ReadParameter, FinishUrl
      <3>2. DOMAIN entries' = {} /\ entries' = <<>>
        BY <3>1 DEF LinesRead
      <3> QED
        BY <3>1, <3>2 DEF LinesRead, FirstLineWins
    <2>2. CASE ReadLine
      <3>1. LinesRead'
        BY ParserAssumption, <2>2, LineKept
      <3>2. task = "pgpass" /\ UNCHANGED <<source, task>> /\ read' = read + 1
            /\ read < Len(source.pgpass)
        BY <2>2 DEF ReadLine
      <3>3. Len(source.pgpass) \in Nat /\ read \in Nat /\ source \in Files
        BY ParserAssumption, <3>2 DEF LinesRead, ParserAssumption
      <3> QED
        BY <3>1, <3>2, <3>3
    <2>3. CASE FinishLines
      <3>1. /\ task = "pgpass" /\ task' = "service" /\ UNCHANGED <<source, read, entries>>
            /\ read = Len(source.pgpass) /\ DOMAIN source.pgpass = 1..read
        BY ParserAssumption, <2>3 DEF FinishLines, LinesRead, ParserAssumption
      <3>2. \A i \in DOMAIN source.pgpass : Listable(source.pgpass[i]) =>
               \E k \in DOMAIN entries : Target(entries[k]) = Named(source.pgpass[i])
        BY <3>1 DEF LinesRead
      <3>3. LinesRead'
        BY <3>1 DEF LinesRead, FirstLineWins
      <3> QED
        BY <3>1, <3>2, <3>3
    <2>4. CASE ReadService
      <3>1. task' = "done" /\ UNCHANGED <<source, read, entries>>
        BY <2>4 DEF ReadService
      <3> QED
        BY <3>1 DEF LinesRead, FirstLineWins
    <2>5. CASE UNCHANGED parserVars
      BY <2>5 DEF parserVars, LinesRead, FirstLineWins
    <2> QED
      BY <2>1, <2>2, <2>3, <2>4, <2>5 DEF ParserNext
  <1>3. LinesListed => ListedLineIsLibpqs
    <2> SUFFICES ASSUME LinesListed PROVE ListedLineIsLibpqs
      OBVIOUS
    <2>1. FirstLineWins
      BY DEF LinesListed, LinesRead
    <2>2. ASSUME NEW k \in DOMAIN entries
          PROVE  \E i \in DOMAIN source.pgpass :
                    /\ entries[k] = Listed(source.pgpass[i])
                    /\ \A m \in 1..(i - 1) :
                          Matches(source.pgpass[m], Target(entries[k])) => HasWildcard(source.pgpass[m])
      <3>1. PICK i \in 1..read :
               /\ entries[k] = Listed(source.pgpass[i]) /\ Listable(source.pgpass[i])
               /\ \A m \in 1..(i - 1) :
                     Listable(source.pgpass[m]) => Named(source.pgpass[m]) # Named(source.pgpass[i])
        BY <2>1 DEF FirstLineWins
      <3>2. i \in DOMAIN source.pgpass
        <4>1. /\ read \in 0..Len(source.pgpass) /\ Len(source.pgpass) \in Nat
              /\ DOMAIN source.pgpass = 1..Len(source.pgpass)
          BY ParserAssumption DEF LinesListed, ParserAssumption
        <4> QED
          BY <4>1
      <3>3. Target(entries[k]) = Named(source.pgpass[i])
        BY <3>1 DEF Target, Named, Listed
      <3>4. ASSUME NEW m \in 1..(i - 1), Matches(source.pgpass[m], Target(entries[k]))
            PROVE  HasWildcard(source.pgpass[m])
        BY <3>1, <3>3, <3>4, PlainMatchNames
      <3> QED
        BY <3>1, <3>2, <3>4
    <2> QED
      BY <2>1, <2>2 DEF LinesListed, ListedLineIsLibpqs, FirstLineWins
  <1> QED
    BY <1>1, <1>2, <1>3, PTL DEF ParserSpec
=============================================================================
