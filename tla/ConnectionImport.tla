--------------------------- MODULE ConnectionImport ---------------------------
(***************************************************************************)
(* The import of connections from libpq's files: the dialog in the web     *)
(* frontend, the candidates the backend keeps between a preview and the    *)
(* import, and the import itself, which tests the selected candidates,     *)
(* saves those that pass and marks their slots.  The dialog names a        *)
(* candidate by its index alone.  Commands of the dialog run at the same   *)
(* time; the pending list is locked for one step at a time.                *)
(***************************************************************************)
EXTENDS Naturals, FiniteSets

CONSTANTS
    Previews,   \* invocations of preview_connection_imports or the file dialog
    Imports,    \* invocations of import_connections
    Slots,      \* the indexes of a preview's candidates
    TTL,        \* PENDING_IMPORT_TTL
    MaxTime,    \* bound: the clock
    None

ASSUME ImportAssumption ==
    /\ Slots \subseteq Nat
    /\ {TTL, MaxTime} \subseteq Nat
    /\ None \notin Previews
    /\ None \notin [preview : Previews, left : SUBSET Slots, at : 0..MaxTime,
                   overtook : SUBSET Imports]

VARIABLES
    dialog,    \* [open, shown: the preview rendered, ready: confirm enabled, ticked: rows the
               \* user may tick]
    pending,   \* [preview, left: slots that are still Some, at,
               \* overtook: history, the imports under way when the list was put up] or None
    discards,  \* discard_connection_import calls under way
    reading,   \* preview -> "new", "reading", "answered", "done"
    call,      \* import -> [pc, from: preview, keys, passed]
    saved,     \* history: [preview, slot, by] of every connection saved
    reported,  \* history: those of them reported as saved
    clock

vars == <<dialog, pending, discards, reading, call, saved, reported, clock>>
backend == <<pending, saved, reported>>

-----------------------------------------------------------------------------
Idle == [pc |-> "new", from |-> None, keys |-> {}, passed |-> {}]

Init ==
    /\ dialog = [open |-> FALSE, shown |-> None, ready |-> TRUE, ticked |-> {}]
    /\ pending = None
    /\ discards = 0
    /\ reading = [p \in Previews |-> "new"]
    /\ call = [i \in Imports |-> Idle]
    /\ saved = {} /\ reported = {}
    /\ clock = 0

\* Imports that hold candidates they copied out of a list.
Underway == {i \in Imports : call[i].pc \in {"testing", "saving", "marking"}}

\* Younger than PENDING_IMPORT_TTL.
Fresh == pending # None /\ clock - pending.at <= TTL

Lowest(S) == CHOOSE k \in S : \A j \in S : k <= j

-----------------------------------------------------------------------------
\* openConnectionImport, its reload button and its two file buttons.
Load(p) ==
    /\ reading[p] = "new"
    /\ dialog' = [dialog EXCEPT !.open = TRUE]
    /\ reading' = [reading EXCEPT ![p] = "reading"]
    /\ UNCHANGED <<backend, discards, call, clock>>

\* The files are read and parsed, and replace_pending_import puts what they
\* hold in place of the last list.
Preview(p) ==
    /\ reading[p] = "reading"
    /\ pending' = [preview |-> p, left |-> Slots, at |-> clock, overtook |-> Underway]
    /\ reading' = [reading EXCEPT ![p] = "answered"]
    /\ UNCHANGED <<dialog, discards, call, saved, reported, clock>>

\* The file dialog was dismissed or the file cannot be read: the last list stays.
NoPreview(p) ==
    /\ reading[p] = "reading"
    /\ reading' = [reading EXCEPT ![p] = "done"]
    /\ UNCHANGED <<dialog, backend, discards, call, clock>>

\* loadConnectionImport renders the answer; that enables the confirm button.
Render(p) ==
    /\ reading[p] = "answered"
    /\ reading' = [reading EXCEPT ![p] = "done"]
    /\ dialog' = [dialog EXCEPT !.shown = p, !.ready = TRUE, !.ticked = Slots]
    /\ UNCHANGED <<backend, discards, call, clock>>

Close ==
    /\ dialog.open
    /\ dialog' = [dialog EXCEPT !.open = FALSE, !.shown = None, !.ticked = {}]
    /\ discards' = discards + 1
    /\ UNCHANGED <<backend, reading, call, clock>>

Discard ==
    /\ discards > 0
    /\ pending' = None
    /\ discards' = discards - 1
    /\ UNCHANGED <<dialog, reading, call, saved, reported, clock>>

Confirm(i, keys) ==
    /\ dialog.open /\ dialog.ready
    /\ call[i].pc = "new"
    /\ keys # {} /\ keys \subseteq dialog.ticked
    /\ dialog' = [dialog EXCEPT !.ready = FALSE]
    /\ call' = [call EXCEPT ![i] = [Idle EXCEPT !.pc = "sent", !.keys = keys]]
    /\ UNCHANGED <<backend, discards, reading, clock>>

\* Copies the candidates out of the list; one that is gone or an old list
\* refuses the whole call.
Select(i) ==
    /\ call[i].pc = "sent"
    /\ call' = [call EXCEPT ![i] =
          IF Fresh /\ @.keys \subseteq pending.left
          THEN [@ EXCEPT !.pc = "testing", !.from = pending.preview]
          ELSE [@ EXCEPT !.pc = "refused"]]
    /\ UNCHANGED <<dialog, backend, discards, reading, clock>>

\* All tests run at once (join_all).
Test(i) ==
    /\ call[i].pc = "testing"
    /\ \E passed \in SUBSET call[i].keys :
          call' = [call EXCEPT ![i].pc = "saving", ![i].passed = passed]
    /\ UNCHANGED <<dialog, backend, discards, reading, clock>>

\* save_connection_with_secrets on the first candidate left that passed.
Save(i) ==
    /\ call[i].pc = "saving" /\ call[i].passed # {}
    /\ saved' = saved \cup {[preview |-> call[i].from, slot |-> Lowest(call[i].passed), by |-> i]}
    /\ call' = [call EXCEPT ![i].pc = "marking"]
    /\ UNCHANGED <<dialog, pending, discards, reading, reported, clock>>

\* It fails before the list is written, or after it at the credential store.
SaveFails(i) ==
    /\ call[i].pc = "saving" /\ call[i].passed # {}
    /\ LET slot == Lowest(call[i].passed) IN
       /\ \/ UNCHANGED saved
          \/ saved' = saved \cup {[preview |-> call[i].from, slot |-> slot, by |-> i]}
       /\ call' = [call EXCEPT ![i].passed = @ \ {slot}]
    /\ UNCHANGED <<dialog, pending, discards, reading, reported, clock>>

\* Mutant: the slot keeps its candidate.
MarkNothing(i) ==
    /\ call[i].pc = "marking"
    /\ LET slot == Lowest(call[i].passed) IN
       /\ reported' = reported \cup {[preview |-> call[i].from, slot |-> slot, by |-> i]}
       /\ call' = [call EXCEPT ![i].pc = "saving", ![i].passed = @ \ {slot}]
    /\ UNCHANGED <<dialog, pending, discards, reading, saved, clock>>

\* Mutant: candidates that failed are dropped as well.
MarkAll(i) ==
    /\ call[i].pc = "marking"
    /\ LET slot == Lowest(call[i].passed) IN
       /\ pending' = IF pending = None THEN None ELSE [pending EXCEPT !.left = @ \ call[i].keys]
       /\ reported' = reported \cup {[preview |-> call[i].from, slot |-> slot, by |-> i]}
       /\ call' = [call EXCEPT ![i].pc = "saving", ![i].passed = @ \ {slot}]
    /\ UNCHANGED <<dialog, discards, reading, saved, clock>>

\* Sets the slot of that index to None in whatever list is pending now.
Mark(i) ==
    /\ call[i].pc = "marking"
    /\ LET slot == Lowest(call[i].passed) IN
       /\ pending' = IF pending = None THEN None ELSE [pending EXCEPT !.left = @ \ {slot}]
       /\ reported' = reported \cup {[preview |-> call[i].from, slot |-> slot, by |-> i]}
       /\ call' = [call EXCEPT ![i].pc = "saving", ![i].passed = @ \ {slot}]
    /\ UNCHANGED <<dialog, discards, reading, saved, clock>>

\* The answer: rows reported as saved are disabled in the list on screen, all
\* others are ticked again; an error leaves the rows alone.
Answer(i) ==
    /\ \/ call[i].pc = "refused"
       \/ call[i].pc = "saving" /\ call[i].passed = {}
    /\ LET done == {r.slot : r \in {q \in reported : q.by = i}} IN
       dialog' = [dialog EXCEPT !.ready = TRUE,
                     !.ticked = IF call[i].pc = "refused" THEN @
                                ELSE IF dialog.shown = None THEN {} ELSE Slots \ done]
    /\ call' = [call EXCEPT ![i].pc = "done"]
    /\ UNCHANGED <<backend, discards, reading, clock>>

Tick ==
    /\ clock < MaxTime
    /\ clock' = clock + 1
    /\ UNCHANGED <<dialog, backend, discards, reading, call>>

Next ==
    \/ \E p \in Previews : Load(p) \/ Preview(p) \/ NoPreview(p) \/ Render(p)
    \/ \E i \in Imports :
          \/ \E keys \in SUBSET Slots : Confirm(i, keys)
          \/ Select(i) \/ Test(i) \/ Save(i) \/ SaveFails(i) \/ Mark(i) \/ Answer(i)
    \/ Close \/ Discard \/ Tick

Spec == Init /\ [][Next]_vars

-----------------------------------------------------------------------------
\* Every variable keeps to the values the code can give it, and what was
\* reported as saved was saved.
TypeOK ==
    /\ dialog \in [open : BOOLEAN, shown : Previews \cup {None}, ready : BOOLEAN, ticked : SUBSET Slots]
    /\ pending = None \/ pending \in [preview : Previews, left : SUBSET Slots, at : 0..MaxTime,
                                     overtook : SUBSET Imports]
    /\ discards \in Nat
    /\ reading \in [Previews -> {"new", "reading", "answered", "done"}]
    /\ \A i \in Imports : call[i].passed \subseteq call[i].keys
    /\ reported \subseteq saved

\* app/connection_import.rs:89, "`None` once imported, so a second import of
\* the same key cannot duplicate it": whatever previews, imports and closings
\* overlap, an import takes up no candidate that one from the same list has
\* reported as saved.  (One whose save failed at its secret may be taken again.)
NoDuplicateImport ==
    [][\A i \in Imports : call[i].pc = "sent" /\ call'[i].pc = "testing" =>
          \A r \in reported : r.preview = call'[i].from => r.slot \notin call[i].keys]_vars

\* The other direction of that comment: a candidate is missing from the list
\* only when it was saved from this list, or when an import that this list
\* overtook saved the candidate of that index from its own.
GoneMeansImported ==
    pending # None =>
        \A slot \in Slots \ pending.left :
            \E s \in saved :
                /\ s.slot = slot
                /\ s.preview = pending.preview \/ s.by \in pending.overtook
=============================================================================
