--------------------------- MODULE ConfigStoreProofs ---------------------------
(* Proofs about ConfigStore, for any calls, entries and first list.        *)
EXTENDS ConfigStore, TLAPS

\* A call of no batch in progress is never begun, and every call stands
\* somewhere.
Shape ==
    /\ issued \subseteq Calls
    /\ pc \in [Calls -> States]
    /\ DOMAIN buffer = Calls
    /\ \A c \in Calls \ issued : pc[c] = "new"

\* Every step keeps the shape.
LEMMA ShapeStep ==
    ASSUME Shape, [Next]_vars
    PROVE  Shape'
  <1>1. ASSUME NEW c \in issued, CallStep(c)
        PROVE  Shape'
    <2>1. /\ issued' = issued /\ DOMAIN buffer' = DOMAIN buffer
          /\ \E s \in States : pc' = [pc EXCEPT ![c] = s]
      <3>1. CASE Start(c)
        BY <3>1 DEF Start, States
      <3>2. CASE Read(c) \/ Truncate(c) \/ WritePart(c)
        BY <3>2 DEF Read, Truncate, WritePart, States
      <3>3. CASE Write(c) \/ WriteFails(c)
        BY <3>3 DEF Write, WriteFails, States
      <3>4. CASE Sync(c) \/ SecretFails(c)
        BY <3>4 DEF Sync, SecretFails, States
      <3> QED
        BY <1>1, <3>1, <3>2, <3>3, <3>4 DEF CallStep
    <2> QED
      BY <2>1 DEF Shape
  <1>2. CASE Crash
    BY <1>2 DEF Crash, Shape, States
  <1>3. CASE UNCHANGED vars
    BY <1>3 DEF vars, Shape
  <1> QED
    BY <1>1, <1>2, <1>3 DEF Next, Terminated

\* Calls, batches and steps have their shape in every reachable state.
LEMMA ShapeHolds == Spec => []Shape
  <1>1. Init => Shape
    BY StoreAssumption DEF Init, Shape, States
  <1> QED
    BY <1>1, ShapeStep, PTL DEF Spec

-----------------------------------------------------------------------------
(* The connection manager.                                                 *)

\* A change of the file is owed to the manager until its writer has synced or
\* failed; whoever syncs, syncs with the file and not with what it wrote.
LEMMA ManagerStep ==
    ASSUME Shape, ManagerFollowsFile, [Next]_vars
    PROVE  ManagerFollowsFile'
  <1> DEFINE Settled(c) == /\ SyncsManager(c)
                           /\ pc[c] \notin {"torn", "unsynced", "writing", "filling", "syncing"}
  <1>1. ASSUME NEW c \in issued, CallStep(c)
        PROVE  ManagerFollowsFile'
    <2>0. c \in Calls /\ issued' = issued
      BY <1>1 DEF Shape, CallStep, Start, Read, Truncate, WritePart, Write, WriteFails, Sync, SecretFails
    <2>1. ASSUME known' = known, content' = content, garbled' = garbled,
                 pc[c] \notin {"torn", "unsynced", "writing", "filling", "syncing"},
                 NEW s, pc' = [pc EXCEPT ![c] = s]
          PROVE  ManagerFollowsFile'
      <3>1. ASSUME \A d \in issued : Settled(d)'
            PROVE  \A d \in issued : Settled(d)
        BY <2>0, <2>1, <3>1 DEF Shape, SyncsManager
      <3> QED
        BY <2>0, <2>1, <3>1 DEF ManagerFollowsFile, Parsed, Ids, SyncsManager
    <2>2. ASSUME NEW s \in {"torn", "unsynced", "writing", "filling", "syncing"},
                 pc' = [pc EXCEPT ![c] = s]
          PROVE  ManagerFollowsFile'
      BY <2>0, <2>2 DEF ManagerFollowsFile, Shape
    <2>3. CASE Start(c) \/ Read(c)
      BY <2>1, <2>3 DEF Start, Read
    <2>4. CASE Truncate(c) \/ WritePart(c) \/ SecretFails(c) \/ (WriteFails(c) /\ pc[c] # "editing")
      BY <2>2, <2>4 DEF Truncate, WritePart, WriteFails, SecretFails
    <2>7. CASE WriteFails(c) /\ pc[c] = "editing"
      BY <2>1, <2>7 DEF WriteFails
    <2>5. CASE Write(c)
      <3>1. CASE SyncsManager(c)
        BY <2>2, <2>5, <3>1 DEF Write
      <3>2. CASE ~SyncsManager(c)
        BY <2>0, <3>2 DEF ManagerFollowsFile, SyncsManager
      <3> QED
        BY <3>1, <3>2
    <2>6. CASE Sync(c)
      BY <2>6 DEF Sync, ManagerFollowsFile, Parsed, Ids
    <2> QED
      BY <1>1, <2>3, <2>4, <2>5, <2>6, <2>7 DEF CallStep
  <1>2. CASE Crash
    BY <1>2 DEF Crash, ManagerFollowsFile, Parsed, Ids
  <1>3. CASE UNCHANGED vars
    BY <1>3 DEF vars, ManagerFollowsFile, Parsed, Ids, SyncsManager
  <1> QED
    BY <1>1, <1>2, <1>3 DEF Next, Terminated

\* For any number of overlapping saves and deletes, with crashes and failed
\* writes, the manager ends up with what the file says.
THEOREM ManagerCorrect == Spec => []ManagerFollowsFile
  <1>1. Init => ManagerFollowsFile
    BY DEF Init, ManagerFollowsFile, Parsed, Ids
  <1> QED
    BY <1>1, ShapeHolds, ManagerStep, PTL DEF Spec

-----------------------------------------------------------------------------
(* Commands of the main thread make an atomic list.                        *)

\* One call runs at a time, so what it is about to write is its edit of what
\* the file still holds, and nobody else wrote since it truncated the file.
OneAtATime ==
    /\ \A c, d \in Calls : Running(c) /\ Running(d) => c = d
    /\ \A c \in Calls : pc[c] = "editing" => buffer[c] = Edited(c, Parsed)
    /\ \A c \in Calls : pc[c] = "writing" => Parsed = <<>> /\ writers = {}
    /\ \A c \in Calls : pc[c] = "filling" => Parsed \in CutShort(buffer[c]) /\ writers = {c}

AloneOnMainThread == issued \subseteq MainThread => OneAtATime

\* Nothing of a text may stand for the empty list.
LEMMA EmptyIsCut ==
    ASSUME NEW list
    PROVE  <<>> \in CutShort(list)
  <1>1. SubSeq(list, 1, 0) = <<>>
    OBVIOUS
  <1>2. 0 \in 0..Len(list)
    OBVIOUS
  <1> QED
    BY <1>1, <1>2 DEF CutShort

\* The main thread takes a new call only when the last one is over.
LEMMA AloneStep ==
    ASSUME Shape, issued \subseteq MainThread, OneAtATime, [Next]_vars
    PROVE  OneAtATime'
  <1>1. ASSUME NEW c \in issued, CallStep(c)
        PROVE  OneAtATime'
    <2>0. c \in Calls
      BY DEF Shape
    <2>1. CASE Start(c)
      <3>1. \A d \in Calls : ~Running(d)
        BY <2>1 DEF Start, Shape, Running
      <3>2. pc'[c] \in {"refused", "reading"} /\ \A d \in Calls \ {c} : pc'[d] = pc[d]
        BY <2>0, <2>1 DEF Start, Shape
      <3> QED
        BY <3>1, <3>2 DEF OneAtATime, Running
    <2>2. CASE Read(c)
      <3>1. /\ pc[c] = "reading" /\ pc'[c] = "editing" /\ buffer'[c] = Edited(c, Parsed)
            /\ Parsed' = Parsed /\ \A d \in Calls \ {c} : pc'[d] = pc[d]
        BY <2>0, <2>2 DEF Read, Shape, Parsed
      <3>2. \A d \in Calls \ {c} : ~Running(d)
        BY <2>0, <3>1 DEF OneAtATime, Running
      <3>3. Edited(c, Parsed)' = Edited(c, Parsed')
        BY DEF Edited, Saved, Inserted, Replaced, Without, Version, Ids
      <3> QED
        BY <3>1, <3>2, <3>3 DEF OneAtATime, Running
    <2>3. CASE Truncate(c)
      <3>1. /\ pc[c] = "editing" /\ pc'[c] = "writing" /\ Parsed' = <<>> /\ writers' = {}
            /\ \A d \in Calls \ {c} : pc'[d] = pc[d]
        BY <2>0, <2>3 DEF Truncate, Shape, Parsed
      <3>2. \A d \in Calls \ {c} : ~Running(d)
        BY <2>0, <3>1 DEF OneAtATime, Running
      <3> QED
        BY <3>1, <3>2 DEF OneAtATime, Running
    <2>5. CASE WritePart(c)
      <3>1. /\ pc[c] = "writing" /\ pc'[c] = "filling" /\ buffer' = buffer
            /\ \A d \in Calls \ {c} : pc'[d] = pc[d]
        BY <2>0, <2>5 DEF WritePart, Shape
      <3>2. \A d \in Calls \ {c} : ~Running(d)
        BY <2>0, <3>1 DEF OneAtATime, Running
      <3>3. Parsed' \in CutShort(buffer[c])
        BY <2>5, EmptyIsCut DEF WritePart, Parsed
      <3>4. CutShort(buffer[c])' = CutShort(buffer[c]) /\ writers' = {c}
        BY <2>0, <2>5, <3>1 DEF CutShort, OneAtATime, WritePart
      <3> QED
        BY <3>1, <3>2, <3>3, <3>4 DEF OneAtATime, Running
    <2>4. CASE Write(c) \/ WriteFails(c) \/ Sync(c) \/ SecretFails(c)
      <3>1. /\ Running(c) /\ pc'[c] \notin {"editing", "writing", "filling"}
            /\ \A d \in Calls \ {c} : pc'[d] = pc[d]
        BY <2>0, <2>4 DEF Write, WriteFails, Sync, SecretFails, Shape, Running
      <3>2. \A d \in Calls \ {c} : ~Running(d)
        BY <2>0, <3>1 DEF OneAtATime
      <3> QED
        BY <3>1, <3>2 DEF OneAtATime, Running
    <2> QED
      BY <1>1, <2>1, <2>2, <2>3, <2>4, <2>5 DEF CallStep
  <1>2. CASE Crash
    <2>1. \A d \in Calls : ~Running(d)'
      BY <1>2 DEF Crash, Running, Shape
    <2> QED
      BY <2>1 DEF OneAtATime, Running
  <1>3. CASE UNCHANGED vars
    <2>1. pc' = pc /\ buffer' = buffer /\ writers' = writers /\ Parsed' = Parsed
      BY <1>3 DEF vars, Parsed
    <2>2. ASSUME NEW c \in Calls
          PROVE  Edited(c, Parsed)' = Edited(c, Parsed')
      BY DEF Edited, Saved, Inserted, Replaced, Without, Version, Ids
    <2>3. ASSUME NEW c \in Calls
          PROVE  CutShort(buffer[c])' = CutShort(buffer[c])
      BY <2>1 DEF CutShort
    <2> QED
      BY <2>1, <2>2, <2>3 DEF OneAtATime, Running
  <1> QED
    BY <1>1, <1>2, <1>3 DEF Next, Terminated

\* While c is the one that writes, callers see what it is writing.
LEMMA SeenWhileWriting ==
    ASSUME Shape, OneAtATime, NEW c \in Calls, InWrite(c)
    PROVE  ListSeen = buffer[c]
  <1>1. \A d \in Calls : InWrite(d) <=> d = c
    BY DEF OneAtATime, Running, InWrite
  <1>2. (CHOOSE d \in Calls : InWrite(d)) = c
    BY <1>1
  <1> QED
    BY <1>2 DEF ListSeen

\* The same of the next state.
LEMMA SeenWhileWritingNext ==
    ASSUME Shape', OneAtATime', NEW c \in Calls, InWrite(c)'
    PROVE  ListSeen' = buffer'[c]
  <1>1. \A d \in Calls : InWrite(d)' <=> d = c
    BY DEF OneAtATime, Running, InWrite
  <1>2. (CHOOSE d \in Calls : InWrite(d)') = c
    BY <1>1
  <1> QED
    BY <1>1, <1>2 DEF ListSeen

\* While nobody writes, callers see the file.
LEMMA SeenOtherwise ==
    ASSUME \A c \in Calls : ~InWrite(c)
    PROVE  ListSeen = Parsed
  BY DEF ListSeen

\* A step that moves one running call without ending or beginning a write,
\* leaves the file alone and keeps the call's effect is not seen.
LEMMA NotSeen ==
    ASSUME Shape, Shape', OneAtATime, OneAtATime', NEW c \in Calls,
           \A d \in Calls \ {c} : pc'[d] = pc[d], Running(c) \/ \A d \in Calls : ~Running(d),
           Parsed' = Parsed, ~InWrite(c), ~InWrite(c)',
           c \in Effective <=> c \in Effective'
    PROVE  ListSeen' = ListSeen /\ Effective' = Effective
  <1>1. \A d \in Calls : ~InWrite(d) /\ ~InWrite(d)'
    BY DEF OneAtATime, Running, InWrite
  <1>2. ListSeen = Parsed /\ ListSeen' = Parsed'
    BY <1>1 DEF ListSeen
  <1>3. Effective' = Effective
    BY DEF Effective
  <1> QED
    BY <1>2, <1>3

\* Every step of a call of the main thread is its whole effect, the loss of
\* the end of the list, or nothing a caller sees.
LEMMA AtomicStep ==
    ASSUME Shape, Shape', issued \subseteq MainThread, OneAtATime, OneAtATime', [Next]_vars
    PROVE  Atomic!Next \/ (ListSeen' = ListSeen /\ Effective' = Effective)
  <1>1. ASSUME NEW c \in issued, CallStep(c)
        PROVE  Atomic!Next \/ (ListSeen' = ListSeen /\ Effective' = Effective)
    <2>0. c \in Calls
      BY DEF Shape
    <2>1. CASE Start(c)
      <3>1. /\ \A d \in Calls : ~Running(d)
            /\ pc[c] = "new" /\ pc'[c] \in {"refused", "reading"}
            /\ \A d \in Calls \ {c} : pc'[d] = pc[d]
        BY <2>0, <2>1 DEF Start, Shape, Running
      <3>2. Parsed' = Parsed
        BY <2>1 DEF Start, Parsed
      <3> QED
        BY <2>0, <3>1, <3>2, NotSeen DEF Effective, InWrite
    <2>2. CASE Read(c)
      <3>1. /\ Running(c) /\ pc[c] = "reading" /\ pc'[c] = "editing" /\ Parsed' = Parsed
            /\ \A d \in Calls \ {c} : pc'[d] = pc[d]
        BY <2>0, <2>2 DEF Read, Shape, Running, Parsed
      <3> QED
        BY <2>0, <3>1, NotSeen DEF Effective, InWrite
    <2>3. CASE Truncate(c)
      <3>1. /\ pc[c] = "editing" /\ pc'[c] = "writing" /\ buffer' = buffer
            /\ \A d \in Calls \ {c} : pc'[d] = pc[d]
        BY <2>0, <2>3 DEF Truncate, Shape
      <3>2. ListSeen = Parsed
        <4>1. \A d \in Calls : ~InWrite(d)
          BY <2>0, <3>1 DEF OneAtATime, Running, InWrite
        <4> QED
          BY <4>1, SeenOtherwise
      <3>3. ListSeen' = buffer'[c]
        <4>1. OneAtATime' /\ Shape' /\ InWrite(c)'
          BY <3>1 DEF InWrite
        <4> QED
          BY <2>0, <4>1, SeenWhileWritingNext
      <3>4. ListSeen' = Edited(c, ListSeen)
        BY <2>0, <3>1, <3>2, <3>3 DEF OneAtATime
      <3>5. c \notin Effective /\ Effective' = Effective \cup {c}
        BY <2>0, <3>1 DEF Effective
      <3> QED
        BY <2>0, <3>4, <3>5 DEF Atomic!Next, Atomic!Apply
    <2>8. CASE WritePart(c)
      <3>1. InWrite(c) /\ InWrite(c)' /\ buffer' = buffer
        BY <2>0, <2>8 DEF WritePart, Shape, InWrite
      <3>2. ListSeen' = ListSeen
        BY <2>0, <3>1, SeenWhileWriting, SeenWhileWritingNext
      <3>3. Effective' = Effective
        BY <2>0, <2>8 DEF WritePart, Shape, Effective
      <3> QED
        BY <3>2, <3>3
    <2>4. CASE Write(c)
      <3>1. /\ pc[c] = "filling" /\ pc'[c] \in {"syncing", "done"}
            /\ content' = buffer[c] /\ garbled' = FALSE
            /\ \A d \in Calls \ {c} : pc'[d] = pc[d]
        BY <2>0, <2>4 DEF Write, Shape, OneAtATime
      <3>2. ListSeen = buffer[c]
        BY <2>0, <3>1, SeenWhileWriting DEF InWrite
      <3>3. ListSeen' = buffer[c]
        <4>1. \A d \in Calls : ~InWrite(d)'
          BY <2>0, <3>1 DEF OneAtATime, Running, InWrite
        <4> QED
          BY <3>1, <4>1 DEF ListSeen, Parsed
      <3>4. Effective' = Effective
        BY <3>1 DEF Effective
      <3> QED
        BY <3>2, <3>3, <3>4
    <2>5. CASE WriteFails(c) /\ pc[c] # "editing"
      <3>1. /\ InWrite(c) /\ pc'[c] = "torn" /\ Parsed' = Parsed
            /\ \A d \in Calls \ {c} : pc'[d] = pc[d]
        BY <2>0, <2>5 DEF WriteFails, Shape, InWrite, Parsed
      <3>2. ListSeen' = Parsed
        <4>1. \A d \in Calls : ~InWrite(d)'
          BY <2>0, <3>1 DEF OneAtATime, Running, InWrite
        <4> QED
          BY <3>1, <4>1 DEF ListSeen
      <3>3. ListSeen = buffer[c]
        BY <2>0, <3>1, SeenWhileWriting
      <3>4. Parsed \in CutShort(buffer[c])
        BY <2>0, <3>1, EmptyIsCut DEF OneAtATime, InWrite
      <3>5. Effective' = Effective
        BY <2>0, <3>1 DEF Effective, InWrite
      <3> QED
        BY <3>2, <3>3, <3>4, <3>5 DEF Atomic!Next, Atomic!Lose
    <2>6. CASE WriteFails(c) /\ pc[c] = "editing"
      <3>1. /\ Running(c) /\ pc[c] = "editing" /\ pc'[c] = "failed" /\ Parsed' = Parsed
            /\ \A d \in Calls \ {c} : pc'[d] = pc[d]
        BY <2>0, <2>6 DEF WriteFails, Shape, Running, Parsed
      <3> QED
        BY <2>0, <3>1, NotSeen DEF Effective, InWrite
    <2>7. CASE Sync(c) \/ SecretFails(c)
      <3>1. /\ Running(c) /\ pc[c] = "syncing" /\ pc'[c] \in {"done", "unsynced"} /\ Parsed' = Parsed
            /\ \A d \in Calls \ {c} : pc'[d] = pc[d]
        BY <2>0, <2>7 DEF Sync, SecretFails, Shape, Running, Parsed
      <3> QED
        BY <2>0, <3>1, NotSeen DEF Effective, InWrite
    <2> QED
      BY <1>1, <2>1, <2>2, <2>3, <2>4, <2>5, <2>6, <2>7, <2>8 DEF CallStep
  <1>2. CASE Crash
    <2>1. \A d \in Calls : ~InWrite(d)'
      BY <1>2 DEF Crash, Running, InWrite
    <2>2. ListSeen' = Parsed /\ Effective' = Effective
      BY <1>2, <2>1 DEF Crash, ListSeen, Parsed, Effective, Running
    <2>3. CASE \E c \in Calls : InWrite(c)
      <3>1. PICK c \in Calls : InWrite(c)
        BY <2>3
      <3>2. ListSeen = buffer[c]
        BY <3>1, SeenWhileWriting
      <3>3. Parsed \in CutShort(buffer[c])
        BY <3>1, EmptyIsCut DEF OneAtATime, InWrite
      <3> QED
        BY <2>2, <3>2, <3>3 DEF Atomic!Next, Atomic!Lose
    <2>4. CASE \A c \in Calls : ~InWrite(c)
      BY <2>2, <2>4, SeenOtherwise
    <2> QED
      BY <2>3, <2>4
  <1>3. CASE UNCHANGED vars
    BY <1>3 DEF vars, ListSeen, Parsed, Effective, InWrite
  <1> QED
    BY <1>1, <1>2, <1>3 DEF Next, Terminated

\* For any number of synchronous commands, crashes and failed writes, a file
\* they alone use is a list on which each of them takes effect at once, and of
\* which an interrupted write loses the end.
THEOREM AtomicListRefined == Spec => ImplementsAtomicList
  <1>1. Init => AloneOnMainThread
    BY DEF Init, AloneOnMainThread, OneAtATime, Running
  <1>2. Init => (issued \subseteq MainThread => Atomic!Init)
    BY DEF Init, Atomic!Init, ListSeen, Parsed, Effective, InWrite
  <1>3. [Next]_vars => issued' = issued
    BY DEF Next, CallStep, Start, Read, Truncate, WritePart, Write, WriteFails, Sync, SecretFails, Crash,
           Terminated, vars
  <1>4. Shape /\ AloneOnMainThread /\ [Next]_vars => AloneOnMainThread'
    BY <1>3, AloneStep DEF AloneOnMainThread
  <1>5. Shape /\ Shape' /\ AloneOnMainThread /\ AloneOnMainThread' /\ [Next]_vars
        => [issued \subseteq MainThread => Atomic!Next]_<<issued, ListSeen, Effective>>
    BY <1>3, AtomicStep DEF AloneOnMainThread
  <1> QED
    BY <1>1, <1>2, <1>4, <1>5, ShapeHolds, PTL DEF Spec, ImplementsAtomicList
=============================================================================
