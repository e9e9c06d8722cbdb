----------------------------- MODULE AssistantChat -----------------------------
(***************************************************************************)
(* Conversations with the assistant: the chat view, assistant_send with    *)
(* its rounds of provider requests and tool calls, the file that holds the *)
(* conversations of all connections and the file that counts the day's     *)
(* messages.  A file is read and written as a whole, in two steps, and a   *)
(* write that fails may leave the file as it was or cut its text short;    *)
(* sends run at the same time, clear_assistant_history runs on the main    *)
(* thread.                                                                 *)
(***************************************************************************)
EXTENDS Naturals, Sequences, FiniteSets

CONSTANTS
    Sends,       \* invocations of assistant_send
    Clears,      \* uses of the clear button
    Conns,
    None,
    Users,       \* what a user does at most: [patient, conns, sends, clears], and
                 \* bounds on selections of a connection and day changes: [selects, days]
    Limit,       \* max_messages_per_day
    Rounds       \* max_rounds_per_message

ASSUME ChatAssumption ==
    /\ None \notin Conns
    /\ Users \subseteq [patient : BOOLEAN, conns : SUBSET Conns, sends : SUBSET Sends,
                        clears : SUBSET Clears, selects : Nat, days : Nat]
    /\ Limit \in Nat \ {0} /\ Rounds \in 1..20

VARIABLES
    user,     \* a patient one waits for each answer before the next click
    chats,    \* ai-history.toml: connection -> messages [by, kind]
    usage,    \* ai-usage.toml: [day, count]
    today,
    send,     \* send -> [pc, conn, epoch, history, file, round, tools, seen]
    clear,    \* clear -> [pc, conn, file]
    loads,    \* assistant_history calls under way: [conn, epoch]
    screen,   \* [selected, shown: whose conversation is rendered, epoch, ready]
    counted   \* history: [send, day] of the messages that went to a provider since the
              \* counter was torn

vars == <<user, chats, usage, today, send, clear, loads, screen, counted>>
kept == <<user, chats, usage, counted>>

-----------------------------------------------------------------------------
NewSend == [pc |-> "new", conn |-> None, epoch |-> 0, history |-> <<>>,
            file |-> <<>>, round |-> 0, tools |-> 0, seen |-> <<0, 0>>]
NoChats == [c \in Conns |-> <<>>]

Init ==
    /\ user \in Users
    /\ chats = NoChats
    /\ usage = [day |-> 0, count |-> 0]
    /\ today = 0
    /\ send = [s \in Sends |-> NewSend]
    /\ clear = [k \in Clears |-> [pc |-> "new", conn |-> None, file |-> NoChats]]
    /\ loads = {}
    /\ screen = [selected |-> None, shown |-> None, epoch |-> 0, ready |-> TRUE]
    /\ counted = {}

Busy ==
    \/ loads # {}
    \/ \E s \in Sends : send[s].pc \notin {"new", "done"}
    \/ \E k \in Clears : clear[k].pc \notin {"new", "done"}

MayClick == user.patient => ~Busy

Message(s, kind) == [by |-> s, kind |-> kind]

Prefixes(h) == {SubSeq(h, 1, n) : n \in 0..Len(h)}

\* What a text of these conversations that ends too early may stand for: some
\* of them, which come in any order, and the start of another.
Torn(file, c, whole) ==
    {[d \in Conns |-> IF d = c THEN h ELSE IF d \in whole THEN file[d] ELSE <<>>] :
        h \in Prefixes(file[c])}
CutShort(file) == UNION {Torn(file, c, whole) : c \in Conns, whole \in SUBSET Conns}

\* The synchronous part of loadAssistant.
Loading(scr, c) ==
    [scr EXCEPT !.epoch = @ + 1, !.ready = TRUE, !.shown = IF c = None THEN None ELSE @]

-----------------------------------------------------------------------------
Select(c) ==
    /\ screen.epoch < user.selects /\ MayClick
    /\ c \in user.conns \cup {None} /\ c # screen.selected
    /\ screen' = [Loading(screen, c) EXCEPT !.selected = c]
    /\ loads' = IF c = None THEN loads ELSE loads \cup {[conn |-> c, epoch |-> screen'.epoch]}
    /\ UNCHANGED <<kept, today, send, clear>>

\* Mutant: no look at the epoch.
LoadedAlways(l) ==
    /\ l \in loads
    /\ loads' = loads \ {l}
    /\ screen' = [screen EXCEPT !.shown = l.conn]
    /\ UNCHANGED <<kept, today, send, clear>>

\* The history, or an error in its place.
Loaded(l) ==
    /\ l \in loads
    /\ loads' = loads \ {l}
    /\ screen' = IF l.epoch = screen.epoch THEN [screen EXCEPT !.shown = l.conn] ELSE screen
    /\ UNCHANGED <<kept, today, send, clear>>

ClickSend(s) ==
    /\ s \in user.sends /\ send[s].pc = "new" /\ MayClick
    /\ screen.ready /\ screen.selected # None
    /\ screen' = [screen EXCEPT !.epoch = @ + 1, !.ready = FALSE]
    /\ send' = [send EXCEPT ![s] = [@ EXCEPT !.pc = "asked", !.conn = screen.selected,
                                             !.epoch = screen'.epoch]]
    /\ UNCHANGED <<kept, today, clear, loads>>

\* get_ai_history, with the user's message pushed.
Begin(s) ==
    /\ send[s].pc = "asked"
    /\ send' = [send EXCEPT ![s] = [@ EXCEPT !.pc = "save",
                    !.history = Append(chats[send[s].conn], Message(s, "question"))]]
    /\ UNCHANGED <<kept, today, clear, loads, screen>>

\* save_ai_history reads the file ...
SaveRead(s) ==
    /\ send[s].pc = "save"
    /\ send' = [send EXCEPT ![s] = [@ EXCEPT !.pc = "write", !.file = chats]]
    /\ UNCHANGED <<kept, today, clear, loads, screen>>

\* Where a send goes after its history was saved: the next round, or out.
After(s) == IF send[s].round < Rounds /\ (send[s].round = 0 \/ send[s].tools > 0)
            THEN (IF send[s].round = 0 THEN "count" ELSE "request") ELSE "answer"

\* Mutant: under the connection that is selected by now.
SaveWriteOnScreen(s) ==
    /\ send[s].pc = "write"
    /\ LET conn == IF screen.selected = None THEN send[s].conn ELSE screen.selected IN
       chats' = [send[s].file EXCEPT ![conn] = send[s].history]
    /\ send' = [send EXCEPT ![s] = [@ EXCEPT !.pc = After(s), !.file = <<>>]]
    /\ UNCHANGED <<user, usage, counted, today, clear, loads, screen>>

\* ... and writes it with this conversation replaced.
SaveWrite(s) ==
    /\ send[s].pc = "write"
    /\ chats' = [send[s].file EXCEPT ![send[s].conn] = send[s].history]
    /\ send' = [send EXCEPT ![s] = [@ EXCEPT !.pc = After(s), !.file = <<>>]]
    /\ UNCHANGED <<user, usage, counted, today, clear, loads, screen>>

\* That fails, which ends the send.
SaveFails(s) ==
    /\ send[s].pc = "write"
    /\ chats' \in {chats} \cup CutShort([send[s].file EXCEPT ![send[s].conn] = send[s].history])
    /\ send' = [send EXCEPT ![s] = [@ EXCEPT !.pc = "failed", !.file = <<>>]]
    /\ UNCHANGED <<user, usage, counted, today, clear, loads, screen>>

\* send_round: a base URL that is not accepted ends the send before anything
\* is counted; otherwise consume_ai_usage reads the counter.
ReadUsage(s) ==
    /\ send[s].pc = "count"
    /\ \/ send' = [send EXCEPT ![s].pc = "failed"]
       \/ send' = [send EXCEPT ![s] = [@ EXCEPT !.pc = "counting",
                       !.seen = <<today, IF usage.day = today THEN usage.count ELSE 0>>]]
    /\ UNCHANGED <<kept, today, clear, loads, screen>>

\* Mutant: the limit is passed by one.
WriteUsageLate(s) ==
    /\ send[s].pc = "counting"
    /\ IF send[s].seen[2] > Limit
       THEN /\ send' = [send EXCEPT ![s].pc = "failed"]
            /\ UNCHANGED <<usage, counted>>
       ELSE /\ usage' = [day |-> send[s].seen[1], count |-> send[s].seen[2] + 1]
            /\ counted' = counted \cup {[send |-> s, day |-> send[s].seen[1]]}
            /\ send' = [send EXCEPT ![s] = [@ EXCEPT !.pc = "request", !.seen = <<0, 0>>]]
    /\ UNCHANGED <<user, chats, today, clear, loads, screen>>

WriteUsage(s) ==
    /\ send[s].pc = "counting"
    /\ IF send[s].seen[2] >= Limit
       THEN /\ send' = [send EXCEPT ![s].pc = "failed"]
            /\ UNCHANGED <<usage, counted>>
       ELSE /\ usage' = [day |-> send[s].seen[1], count |-> send[s].seen[2] + 1]
            /\ counted' = counted \cup {[send |-> s, day |-> send[s].seen[1]]}
            /\ send' = [send EXCEPT ![s] = [@ EXCEPT !.pc = "request", !.seen = <<0, 0>>]]
    /\ UNCHANGED <<user, chats, today, clear, loads, screen>>

\* Its write fails before the provider is asked.  A torn counter is none at all,
\* or has lost its last digits.
UsageFails(s) ==
    /\ send[s].pc = "counting" /\ send[s].seen[2] < Limit
    /\ \/ UNCHANGED <<usage, counted>>
       \/ /\ \/ usage' = [day |-> 0, count |-> 0]
             \/ \E n \in 0..send[s].seen[2] : usage' = [day |-> send[s].seen[1], count |-> n]
          /\ counted' = {}
    /\ send' = [send EXCEPT ![s].pc = "failed"]
    /\ UNCHANGED <<user, chats, today, clear, loads, screen>>

\* Mutant: the reply is added to what the file holds now.
RequestAppending(s) ==
    /\ send[s].pc = "request"
    /\ \E tools \in 0..1, text \in BOOLEAN :
          send' = [send EXCEPT ![s] = [@ EXCEPT !.round = send[s].round + 1, !.tools = tools,
                     !.history = IF text THEN Append(chats[send[s].conn], Message(s, "reply"))
                                 ELSE chats[send[s].conn],
                     !.pc = IF tools > 0 THEN "tool" ELSE "save"]]
    /\ UNCHANGED <<kept, today, clear, loads, screen>>

\* One round trip: no key, an HTTP error or a timeout, or a reply with text
\* or without, with tool calls or without.
Request(s) ==
    /\ send[s].pc = "request"
    /\ \/ send' = [send EXCEPT ![s].pc = "failed"]
       \/ \E tools \in 0..1, text \in BOOLEAN :
             send' = [send EXCEPT ![s] = [@ EXCEPT !.round = send[s].round + 1, !.tools = tools,
                        !.history = IF text THEN Append(send[s].history, Message(s, "reply"))
                                    ELSE send[s].history,
                        !.pc = IF tools > 0 THEN "tool" ELSE "save"]]
    /\ UNCHANGED <<kept, today, clear, loads, screen>>

\* run_tool: its result or its error becomes a message; without a connected
\* driver the send ends, and what the round had added is not saved.
RunTool(s) ==
    /\ send[s].pc = "tool"
    /\ \/ send' = [send EXCEPT ![s].pc = "failed"]
       \/ send' = [send EXCEPT ![s] = [@ EXCEPT !.pc = "save",
                       !.history = Append(send[s].history, Message(s, "tool"))]]
    /\ UNCHANGED <<kept, today, clear, loads, screen>>

\* The answer or the error reaches the view that still waits for it.
Answer(s) ==
    /\ send[s].pc \in {"answer", "failed"}
    /\ screen' = IF send[s].epoch # screen.epoch THEN screen
                 ELSE [screen EXCEPT !.ready = TRUE,
                          !.shown = IF send[s].pc = "answer" THEN send[s].conn ELSE @]
    /\ send' = [send EXCEPT ![s] = [NewSend EXCEPT !.pc = "done", !.conn = send[s].conn]]
    /\ UNCHANGED <<kept, today, clear, loads>>

ClickClear(k) ==
    /\ k \in user.clears /\ clear[k].pc = "new" /\ MayClick
    /\ screen.selected # None
    /\ clear' = [clear EXCEPT ![k] = [@ EXCEPT !.pc = "read", !.conn = screen.selected]]
    /\ UNCHANGED <<kept, today, send, loads, screen>>

\* clear_ai_history on the main thread, one at a time.
ClearRead(k) ==
    /\ clear[k].pc = "read" /\ \A j \in Clears : clear[j].pc # "write"
    /\ clear' = [clear EXCEPT ![k] = [@ EXCEPT !.pc = "write", !.file = chats]]
    /\ UNCHANGED <<kept, today, send, loads, screen>>

ClearWrite(k) ==
    /\ clear[k].pc = "write"
    /\ chats' = [clear[k].file EXCEPT ![clear[k].conn] = <<>>]
    /\ clear' = [clear EXCEPT ![k] = [@ EXCEPT !.pc = "reload", !.file = NoChats]]
    /\ UNCHANGED <<user, usage, counted, today, send, loads, screen>>

\* It fails, and the button's handler ends there.
ClearFails(k) ==
    /\ clear[k].pc = "write"
    /\ chats' \in {chats} \cup CutShort([clear[k].file EXCEPT ![clear[k].conn] = <<>>])
    /\ clear' = [clear EXCEPT ![k] = [@ EXCEPT !.pc = "done", !.file = NoChats]]
    /\ UNCHANGED <<user, usage, counted, today, send, loads, screen>>

\* The button's handler goes on with loadAssistant of the connection it began with.
Reload(k) ==
    /\ clear[k].pc = "reload"
    /\ screen' = Loading(screen, clear[k].conn)
    /\ loads' = loads \cup {[conn |-> clear[k].conn, epoch |-> screen'.epoch]}
    /\ clear' = [clear EXCEPT ![k].pc = "done"]
    /\ UNCHANGED <<kept, today, send>>

NextDay ==
    /\ today < user.days
    /\ today' = today + 1
    /\ UNCHANGED <<kept, send, clear, loads, screen>>

SendStep(s) ==
    \/ Begin(s) \/ SaveRead(s) \/ SaveWrite(s) \/ SaveFails(s)
    \/ ReadUsage(s) \/ WriteUsage(s) \/ UsageFails(s)
    \/ Request(s) \/ RunTool(s) \/ Answer(s)

Next ==
    \/ \E c \in Conns \cup {None} : Select(c)
    \/ \E l \in loads : Loaded(l)
    \/ \E s \in Sends : ClickSend(s) \/ SendStep(s)
    \/ \E k \in Clears : ClickClear(k) \/ ClearRead(k) \/ ClearWrite(k) \/ ClearFails(k) \/ Reload(k)
    \/ NextDay

Spec == Init /\ [][Next]_vars

-----------------------------------------------------------------------------
\* Every variable keeps to the values the code can give it: no send makes more
\* than Rounds requests, and it asks for another only after a tool call.
TypeOK ==
    /\ \A c \in Conns : chats[c] \in Seq([by : Sends, kind : {"question", "reply", "tool"}])
    /\ usage.day <= today
    /\ \A s \in Sends :
          /\ send[s].round \in 0..Rounds
          /\ send[s].pc = "request" /\ send[s].round > 0 =>
                send[s].history[Len(send[s].history)] = Message(s, "tool")
    /\ screen.epoch \in Nat

\* However sends and clears overlap and writes fail, a reply or a tool result is
\* never in a conversation without the question before it that it answers.
AnswersFollowQuestions ==
    \A c \in Conns : \A j \in 1..Len(chats[c]) :
        \E i \in 1..j : chats[c][i] = Message(chats[c][j].by, "question")

\* store.rs:426-427, "each connection's AI Assistant tab gets its own
\* independent conversation": however selections, sends and clears overlap and
\* writes fail, what is stored as the conversation of a connection, and what a
\* provider is sent for it, was asked on that connection.
ConversationsAreIndependent ==
    /\ \A c \in Conns : \A j \in 1..Len(chats[c]) : send[chats[c][j].by].conn = c
    /\ \A s \in Sends : \A j \in 1..Len(send[s].history) :
          send[send[s].history[j].by].conn = send[s].conn

\* Whatever the order in which histories and replies arrive, none is rendered
\* under another connection than its own; a clear, which goes on with the
\* history of the connection it began with, is left out.
AnswersLandWhereAsked ==
    [][(\A k \in Clears : clear[k].pc = "new") /\ screen'.shown \notin {screen.shown, None}
       => screen'.shown = screen.selected]_vars

\* store.rs:463, "failing once `limit` is reached": from one torn counter to the
\* next no more messages of a day go to a provider than the limit, when the
\* user waits for each answer.
DailyLimit == user.patient => \A day \in 0..user.days : Cardinality({u \in counted : u.day = day}) <= Limit
=============================================================================
