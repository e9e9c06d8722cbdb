-------------------------- MODULE AssistantChatProofs --------------------------
(* Proofs about AssistantChat, for any users, connections, messages and      *)
(* limits.                                                                   *)
EXTENDS AssistantChat, FiniteSetTheorems, SequenceTheorems, TLAPS

Messages == [by : Sends, kind : {"question", "reply", "tool"}]
Histories == [Conns -> Seq(Messages)]

Phases == {"new", "asked", "save", "write", "count", "counting", "request", "tool", "answer",
           "failed", "done"}

Sent == [pc : Phases, conn : Conns \cup {None}, epoch : Nat, history : Seq(Messages),
         file : Histories \cup {<<>>}, round : Nat, tools : 0..1, seen : Nat \X Nat]

Cleared == [pc : {"new", "read", "write", "reload", "done"}, conn : Conns \cup {None},
            file : Histories]

Views == [selected : Conns \cup {None}, shown : Conns \cup {None}, epoch : Nat, ready : BOOLEAN]

Types ==
    /\ user \in Users
    /\ chats \in Histories
    /\ usage \in [day : Nat, count : Nat]
    /\ today \in Nat
    /\ send \in [Sends -> Sent]
    /\ clear \in [Clears -> Cleared]
    /\ loads \subseteq [conn : Conns, epoch : Nat]
    /\ screen \in Views

\* A send or a clear on its way has a connection, and a send that is about to
\* write holds all the conversations that it read.
Aimed ==
    /\ \A s \in Sends :
          /\ send[s].pc \notin {"new", "done"} => send[s].conn \in Conns
          /\ send[s].pc = "write" => send[s].file \in Histories
    /\ \A k \in Clears : clear[k].pc \notin {"new", "done"} => clear[k].conn \in Conns

LEMMA MessageIn ==
    \A s \in Sends, kind \in {"question", "reply", "tool"} : Message(s, kind) \in Messages
  BY DEF Message, Messages

\* What a send holds.
LEMMA SentFields ==
    ASSUME NEW r \in Sent
    PROVE  /\ r.pc \in Phases /\ r.conn \in Conns \cup {None} /\ r.epoch \in Nat
           /\ r.history \in Seq(Messages) /\ r.round \in Nat /\ r.tools \in 0..1
           /\ r.seen \in Nat \X Nat
           /\ DOMAIN r = {"pc", "conn", "epoch", "history", "file", "round", "tools", "seen"}
  BY DEF Sent

\* What loadAssistant leaves of the view.
LEMMA LoadingView ==
    ASSUME NEW scr \in Views, NEW c \in Conns \cup {None}
    PROVE  /\ Loading(scr, c) \in Views /\ Loading(scr, c).epoch = scr.epoch + 1
           /\ Loading(scr, c).selected = scr.selected
           /\ Loading(scr, c).shown \in {scr.shown, None}
  <1>1. PICK shown \in Conns \cup {None} : shown = IF c = None THEN None ELSE scr.shown
    BY DEF Views
  <1>2. PICK v : v = [scr EXCEPT !.epoch = scr.epoch + 1]
    OBVIOUS
  <1>3. v \in Views /\ v.epoch = scr.epoch + 1 /\ v.selected = scr.selected
    BY <1>2 DEF Views
  <1>4. PICK w : w = [v EXCEPT !.ready = TRUE]
    OBVIOUS
  <1>5. w \in Views /\ w.epoch = scr.epoch + 1 /\ w.selected = scr.selected
    BY <1>3, <1>4 DEF Views
  <1>6. Loading(scr, c) = [w EXCEPT !.shown = shown]
    BY <1>1, <1>2, <1>4 DEF Loading
  <1>7. /\ [w EXCEPT !.shown = shown] \in Views
        /\ [w EXCEPT !.shown = shown].epoch = scr.epoch + 1
        /\ [w EXCEPT !.shown = shown].selected = scr.selected
        /\ [w EXCEPT !.shown = shown].shown = shown
    BY <1>5 DEF Views
  <1> QED
    BY <1>1, <1>6, <1>7

\* A text that ends too early stands for the start of each conversation, or all of it.
LEMMA WhatIsLeft ==
    ASSUME NEW f \in Histories, NEW g \in CutShort(f)
    PROVE  /\ g \in Histories
           /\ \A c \in Conns : \E n \in 0..Len(f[c]) : g[c] = SubSeq(f[c], 1, n)
  <1>0. PICK c \in Conns, whole \in SUBSET Conns : g \in Torn(f, c, whole)
    BY DEF CutShort
  <1>1. PICK h \in Prefixes(f[c]) :
           g = [d \in Conns |-> IF d = c THEN h ELSE IF d \in whole THEN f[d] ELSE <<>>]
    BY <1>0 DEF Torn
  <1>2. ASSUME NEW d \in Conns
        PROVE  /\ g[d] \in Seq(Messages)
               /\ \E n \in 0..Len(f[d]) : g[d] = SubSeq(f[d], 1, n)
    <2>1. f[d] \in Seq(Messages) /\ Len(f[d]) \in Nat
      BY LenProperties DEF Histories
    <2>2. f[d] = SubSeq(f[d], 1, Len(f[d])) /\ <<>> = SubSeq(f[d], 1, 0)
      BY <2>1
    <2>3. \E n \in 0..Len(f[d]) : g[d] = SubSeq(f[d], 1, n)
      <3>1. CASE d = c
        BY <1>1, <3>1 DEF Prefixes
      <3>2. CASE d # c
        <4>1. g[d] \in {f[d], <<>>} /\ Len(f[d]) \in 0..Len(f[d]) /\ 0 \in 0..Len(f[d])
          BY <1>1, <2>1, <3>2
        <4>2. CASE g[d] = f[d]
          BY <2>2, <4>1, <4>2
        <4>3. CASE g[d] = <<>>
          BY <2>2, <4>1, <4>3
        <4> QED
          BY <4>1, <4>2, <4>3
      <3> QED
        BY <3>1, <3>2
    <2>4. PICK n \in 0..Len(f[d]) : g[d] = SubSeq(f[d], 1, n)
      BY <2>3
    <2>5. SubSeq(f[d], 1, n) \in Seq(Messages)
      BY <2>1, <2>4
    <2> QED
      BY <2>3, <2>4, <2>5
  <1>3. g = [d \in Conns |-> g[d]]
    BY <1>1
  <1> QED
    BY <1>2, <1>3 DEF Histories

\* A step of one send keeps the types when its new record has them.
LEMMA SendTyped ==
    ASSUME Types, Aimed, NEW s \in Sends, NEW r \in Sent, send' = [send EXCEPT ![s] = r],
           r.pc \notin {"new", "done"} => r.conn \in Conns,
           r.pc = "write" => r.file \in Histories,
           chats' \in Histories, usage' \in [day : Nat, count : Nat], screen' \in Views,
           UNCHANGED <<user, today, clear, loads>>
    PROVE  Types' /\ Aimed'
  BY DEF Types, Aimed

\* So does a step of one clear.
LEMMA ClearTyped ==
    ASSUME Types, Aimed, NEW k \in Clears, NEW r \in Cleared, clear' = [clear EXCEPT ![k] = r],
           r.pc \notin {"new", "done"} => r.conn \in Conns,
           chats' \in Histories, loads' \subseteq [conn : Conns, epoch : Nat], screen' \in Views,
           UNCHANGED <<user, usage, today, send>>
    PROVE  Types' /\ Aimed'
  BY DEF Types, Aimed

\* Every step keeps the types.
LEMMA TypesStep ==
    ASSUME Types, Aimed, [Next]_vars
    PROVE  Types' /\ Aimed'
  <1>0. ASSUME NEW s \in Sends
        PROVE  /\ send[s] \in Sent
               /\ send[s].pc \notin {"new", "done"} => send[s].conn \in Conns
               /\ send[s].pc = "write" => send[s].file \in Histories
               /\ \A r \in Sent : send' = [send EXCEPT ![s] = r] => send'[s] = r
    BY DEF Types, Aimed
  <1>1. ASSUME NEW s \in Sends, ClickSend(s)
        PROVE  Types' /\ Aimed'
    <2>1. screen.epoch + 1 \in Nat /\ screen.selected \in Conns /\ screen \in Views
      BY <1>1 DEF ClickSend, Types, Views
    <2>2. screen' \in Views /\ screen'.epoch = screen.epoch + 1
      <3>1. PICK v : v = [screen EXCEPT !.epoch = screen.epoch + 1]
        OBVIOUS
      <3>2. v \in Views /\ v.epoch = screen.epoch + 1
        BY <2>1, <3>1 DEF Views
      <3>3. screen' = [v EXCEPT !.ready = FALSE]
        BY <1>1, <3>1 DEF ClickSend
      <3> QED
        BY <3>2, <3>3 DEF Views
    <2>3. PICK r1 : r1 = [send[s] EXCEPT !.pc = "asked"]
      OBVIOUS
    <2>4. r1 \in Sent /\ r1.pc = "asked"
      BY <1>0, <2>3 DEF Sent, Phases
    <2>5. PICK r2 : r2 = [r1 EXCEPT !.conn = screen.selected]
      OBVIOUS
    <2>6. r2 \in Sent /\ r2.pc = "asked" /\ r2.conn \in Conns
      BY <2>1, <2>4, <2>5 DEF Sent
    <2>7. PICK r : r = [r2 EXCEPT !.epoch = screen'.epoch]
      OBVIOUS
    <2>8. r \in Sent /\ r.pc = "asked" /\ r.conn \in Conns
      BY <2>1, <2>2, <2>6, <2>7 DEF Sent
    <2>9. send' = [send EXCEPT ![s] = r]
      BY <1>1, <2>3, <2>5, <2>7 DEF ClickSend
    <2>10. UNCHANGED <<user, chats, usage, today, clear, loads>>
      BY <1>1 DEF ClickSend, kept
    <2> QED
      BY <2>2, <2>8, <2>9, <2>10, SendTyped DEF Types
  <1>2. ASSUME NEW s \in Sends, Begin(s)
        PROVE  Types' /\ Aimed'
    <2>1. send[s].conn \in Conns /\ chats \in Histories
      BY <1>0, <1>2 DEF Begin, Types
    <2>2. PICK h \in Seq(Messages) : h = Append(chats[send[s].conn], Message(s, "question"))
      <3>1. chats[send[s].conn] \in Seq(Messages)
        BY <2>1 DEF Histories
      <3>2. Append(chats[send[s].conn], Message(s, "question")) \in Seq(Messages)
        BY <3>1, MessageIn, AppendProperties
      <3> QED
        BY <3>2
    <2>3. PICK r : r = [send[s] EXCEPT !.pc = "save", !.history = h]
      OBVIOUS
    <2>4. r \in Sent /\ r.pc = "save" /\ r.conn \in Conns
      BY <1>0, <2>1, <2>3, ZenonT(60) DEF Sent, Phases
    <2>5. send' = [send EXCEPT ![s] = r] /\ UNCHANGED <<user, chats, usage, today, clear, loads, screen>>
      BY <1>2, <2>2, <2>3 DEF Begin, kept
    <2> QED
      BY <2>4, <2>5, SendTyped DEF Types
  <1>3. ASSUME NEW s \in Sends, SaveRead(s)
        PROVE  Types' /\ Aimed'
    <2>1. send[s].conn \in Conns /\ chats \in Histories
      BY <1>0, <1>3 DEF SaveRead, Types
    <2>2. PICK r : r = [send[s] EXCEPT !.pc = "write", !.file = chats]
      OBVIOUS
    <2>3. r \in Sent /\ r.conn \in Conns /\ r.file \in Histories
      BY <1>0, <2>1, <2>2, ZenonT(60) DEF Sent, Phases
    <2>4. send' = [send EXCEPT ![s] = r] /\ UNCHANGED <<user, chats, usage, today, clear, loads, screen>>
      BY <1>3, <2>2 DEF SaveRead, kept
    <2> QED
      BY <2>3, <2>4, SendTyped DEF Types
  <1>4. ASSUME NEW s \in Sends, SaveWrite(s) \/ SaveFails(s)
        PROVE  Types' /\ Aimed'
    <2>1. send[s].conn \in Conns /\ send[s].file \in Histories /\ send[s].history \in Seq(Messages)
      BY <1>0, <1>4, SentFields DEF SaveWrite, SaveFails
    <2>2. PICK pc \in {"count", "request", "answer", "failed"} :
             pc = IF SaveWrite(s) THEN After(s) ELSE "failed"
      BY DEF After
    <2>3. PICK r : r = [send[s] EXCEPT !.pc = pc, !.file = <<>>]
      OBVIOUS
    <2>4. r \in Sent /\ r.conn \in Conns /\ r.pc = pc
      BY <1>0, <2>1, <2>3 DEF Sent, Phases
    <2>5. send' = [send EXCEPT ![s] = r] /\ UNCHANGED <<user, usage, today, clear, loads, screen>>
      BY <1>4, <2>2, <2>3 DEF SaveWrite, SaveFails
    <2>6. PICK f : f = [send[s].file EXCEPT ![send[s].conn] = send[s].history]
      OBVIOUS
    <2>7. f \in Histories
      BY <2>1, <2>6 DEF Histories
    <2>8. chats' \in {chats, f} \cup CutShort(f)
      BY <1>4, <2>6 DEF SaveWrite, SaveFails
    <2>9. chats' \in Histories
      BY <2>7, <2>8, WhatIsLeft DEF Types
    <2> QED
      BY <2>4, <2>5, <2>9, SendTyped DEF Types
  <1>5. ASSUME NEW s \in Sends, ReadUsage(s)
        PROVE  Types' /\ Aimed'
    <2>1. send[s].conn \in Conns
      BY <1>0, <1>5 DEF ReadUsage
    <2>2. UNCHANGED <<user, chats, usage, today, clear, loads, screen>>
      BY <1>5 DEF ReadUsage, kept
    <2>3. PICK n \in Nat : n = IF usage.day = today THEN usage.count ELSE 0
      BY DEF Types
    <2>4. <<today, n>> \in Nat \X Nat
      BY DEF Types
    <2>5. PICK r : /\ send' = [send EXCEPT ![s] = r]
                   /\ \/ r = [send[s] EXCEPT !.pc = "failed"]
                      \/ r = [send[s] EXCEPT !.pc = "counting", !.seen = <<today, n>>]
      BY <1>5, <2>3 DEF ReadUsage
    <2>6. r \in Sent /\ r.conn \in Conns /\ r.pc # "write"
      <3>1. CASE r = [send[s] EXCEPT !.pc = "failed"]
        BY <1>0, <2>1, <3>1, ZenonT(60) DEF Sent, Phases
      <3>2. CASE r = [send[s] EXCEPT !.pc = "counting", !.seen = <<today, n>>]
        BY <1>0, <2>1, <2>4, <3>2, ZenonT(60) DEF Sent, Phases
      <3> QED
        BY <2>5, <3>1, <3>2
    <2> QED
      BY <2>2, <2>5, <2>6, SendTyped DEF Types
  <1>6. ASSUME NEW s \in Sends, WriteUsage(s)
        PROVE  Types' /\ Aimed'
    <2>1. send[s].conn \in Conns /\ send[s].seen \in Nat \X Nat
      BY <1>0, <1>6, SentFields DEF WriteUsage
    <2>2. UNCHANGED <<user, chats, today, clear, loads, screen>>
      BY <1>6 DEF WriteUsage
    <2>3. PICK r : /\ send' = [send EXCEPT ![s] = r]
                   /\ \/ r = [send[s] EXCEPT !.pc = "failed"]
                      \/ r = [send[s] EXCEPT !.pc = "request", !.seen = <<0, 0>>]
      BY <1>6 DEF WriteUsage
    <2>4. <<0, 0>> \in Nat \X Nat
      OBVIOUS
    <2>5. r \in Sent /\ r.conn \in Conns /\ r.pc # "write"
      <3>1. CASE r = [send[s] EXCEPT !.pc = "failed"]
        BY <1>0, <2>1, <3>1 DEF Sent, Phases
      <3>2. CASE r = [send[s] EXCEPT !.pc = "request", !.seen = <<0, 0>>]
        BY <1>0, <2>1, <2>4, <3>2 DEF Sent, Phases
      <3> QED
        BY <2>3, <3>1, <3>2
    <2>6. usage' \in [day : Nat, count : Nat]
      <3>1. usage' = usage \/ usage' = [day |-> send[s].seen[1], count |-> send[s].seen[2] + 1]
        BY <1>6 DEF WriteUsage
      <3>2. send[s].seen[1] \in Nat /\ send[s].seen[2] + 1 \in Nat
        BY <2>1
      <3> QED
        BY <3>1, <3>2 DEF Types
    <2> QED
      BY <2>2, <2>3, <2>5, <2>6, SendTyped DEF Types
  <1>14. ASSUME NEW s \in Sends, UsageFails(s)
         PROVE  Types' /\ Aimed'
    <2>1. send[s].conn \in Conns /\ send[s].seen \in Nat \X Nat
      BY <1>0, <1>14, SentFields DEF UsageFails
    <2>2. UNCHANGED <<user, chats, today, clear, loads, screen>>
      BY <1>14 DEF UsageFails
    <2>3. PICK r : r = [send[s] EXCEPT !.pc = "failed"]
      OBVIOUS
    <2>4. r \in Sent /\ r.conn \in Conns /\ r.pc # "write"
      BY <1>0, <2>1, <2>3 DEF Sent, Phases
    <2>5. send' = [send EXCEPT ![s] = r]
      BY <1>14, <2>3 DEF UsageFails
    <2>6. usage' \in [day : Nat, count : Nat]
      BY <1>14, <2>1 DEF UsageFails, Types
    <2> QED
      BY <2>2, <2>4, <2>5, <2>6, SendTyped DEF Types
  <1>7. ASSUME NEW s \in Sends, Request(s) \/ RunTool(s)
        PROVE  Types' /\ Aimed'
    <2>1. send[s].conn \in Conns
      BY <1>0, <1>7 DEF Request, RunTool
    <2>2. UNCHANGED <<user, chats, usage, today, clear, loads, screen>>
      BY <1>7 DEF Request, RunTool, kept
    <2>3. PICK r \in Sent : /\ send' = [send EXCEPT ![s] = r]
                            /\ r.conn = send[s].conn /\ r.pc # "write"
      <3>1. CASE send' = [send EXCEPT ![s] = [send[s] EXCEPT !.pc = "failed"]]
        <4>1. PICK r : r = [send[s] EXCEPT !.pc = "failed"]
          OBVIOUS
        <4>2. r \in Sent /\ r.pc = "failed" /\ r.conn = send[s].conn
          BY <1>0, <4>1 DEF Sent, Phases
        <4> QED
          BY <3>1, <4>1, <4>2
      <3>2. ASSUME NEW tools \in 0..1, NEW text \in BOOLEAN,
                   send' = [send EXCEPT ![s] = [send[s] EXCEPT
                      !.round = send[s].round + 1, !.tools = tools,
                      !.history = IF text THEN Append(send[s].history, Message(s, "reply"))
                                  ELSE send[s].history,
                      !.pc = IF tools > 0 THEN "tool" ELSE "save"]]
            PROVE  \E r \in Sent : /\ send' = [send EXCEPT ![s] = r]
                                   /\ r.conn = send[s].conn /\ r.pc # "write"
        <4>1. PICK h : h = IF text THEN Append(send[s].history, Message(s, "reply"))
                           ELSE send[s].history
          OBVIOUS
        <4>2. h \in Seq(Messages)
          BY <1>0, <4>1, SentFields, MessageIn, AppendProperties
        <4>3. PICK pc \in {"tool", "save"} : pc = IF tools > 0 THEN "tool" ELSE "save"
          OBVIOUS
        <4>4. PICK r1 : r1 = [send[s] EXCEPT !.round = send[s].round + 1]
          OBVIOUS
        <4>5. r1 \in Sent /\ r1.conn = send[s].conn
          BY <1>0, <4>4 DEF Sent
        <4>6. PICK r2 : r2 = [r1 EXCEPT !.tools = tools]
          OBVIOUS
        <4>7. r2 \in Sent /\ r2.conn = send[s].conn
          BY <4>5, <4>6 DEF Sent
        <4>8. PICK r3 : r3 = [r2 EXCEPT !.history = h]
          OBVIOUS
        <4>9. r3 \in Sent /\ r3.conn = send[s].conn
          BY <4>2, <4>7, <4>8 DEF Sent
        <4>10. PICK r4 : r4 = [r3 EXCEPT !.pc = pc]
          OBVIOUS
        <4>11. r4 \in Sent /\ r4.conn = send[s].conn /\ r4.pc = pc
          BY <4>9, <4>10 DEF Sent, Phases
        <4>12. send' = [send EXCEPT ![s] = r4]
          BY <3>2, <4>1, <4>3, <4>4, <4>6, <4>8, <4>10
        <4> QED
          BY <4>11, <4>12
      <3>3. ASSUME send' = [send EXCEPT ![s] = [send[s] EXCEPT !.pc = "save",
                              !.history = Append(send[s].history, Message(s, "tool"))]]
            PROVE  \E r \in Sent : /\ send' = [send EXCEPT ![s] = r]
                                   /\ r.conn = send[s].conn /\ r.pc # "write"
        <4>1. PICK h : h = Append(send[s].history, Message(s, "tool"))
          OBVIOUS
        <4>2. h \in Seq(Messages)
          BY <1>0, <4>1, SentFields, MessageIn, AppendProperties
        <4>3. PICK r : r = [send[s] EXCEPT !.pc = "save", !.history = h]
          OBVIOUS
        <4>4. r \in Sent /\ r.conn = send[s].conn /\ r.pc = "save"
          BY <1>0, <4>2, <4>3 DEF Sent, Phases
        <4> QED
          BY <3>3, <4>1, <4>3, <4>4
      <3> QED
        BY <1>7, <3>1, <3>2, <3>3 DEF Request, RunTool
    <2> QED
      BY <2>1, <2>2, <2>3, SendTyped DEF Types
  <1>8. ASSUME NEW s \in Sends, Answer(s)
        PROVE  Types' /\ Aimed'
    <2>1. NewSend \in Sent
      <3>1. <<>> \in Seq(Messages) /\ <<0, 0>> \in Nat \X Nat /\ 0 \in 0..1
            /\ <<>> \in Histories \cup {<<>>}
        OBVIOUS
      <3> QED
        BY <3>1 DEF NewSend, Sent, Phases
    <2>4. send[s].conn \in Conns /\ screen \in Views
      BY <1>0, <1>8 DEF Answer, Types
    <2>2. PICK r : r = [NewSend EXCEPT !.pc = "done", !.conn = send[s].conn]
      OBVIOUS
    <2>3. r \in Sent /\ r.pc = "done"
      BY <2>1, <2>2, <2>4 DEF Sent, Phases
    <2>5. screen' \in Views
      <3>1. PICK shown \in Conns \cup {None} :
              shown = IF send[s].pc = "answer" THEN send[s].conn ELSE screen.shown
        BY <2>4 DEF Views
      <3>2. screen' = screen \/ screen' = [screen EXCEPT !.ready = TRUE, !.shown = shown]
        BY <1>8, <3>1 DEF Answer
      <3> QED
        BY <2>4, <3>2 DEF Views
    <2>6. send' = [send EXCEPT ![s] = r] /\ UNCHANGED <<user, chats, usage, today, clear, loads>>
      BY <1>8, <2>2 DEF Answer, kept
    <2> QED
      BY <2>3, <2>5, <2>6, SendTyped DEF Types
  <1>9. ASSUME NEW k \in Clears, ClickClear(k) \/ ClearRead(k) \/ ClearWrite(k) \/ ClearFails(k) \/ Reload(k)
        PROVE  Types' /\ Aimed'
    <2>0. /\ clear[k] \in Cleared /\ clear[k].file \in Histories
          /\ clear[k].pc \notin {"new", "done"} => clear[k].conn \in Conns
      BY DEF Types, Cleared, Aimed
    <2>2. CASE ClickClear(k)
      <3>1. screen.selected \in Conns
        BY <2>2 DEF ClickClear, Types, Views
      <3>2. PICK r : r = [clear[k] EXCEPT !.pc = "read", !.conn = screen.selected]
        OBVIOUS
      <3>3. r \in Cleared /\ r.conn = screen.selected
        BY <2>0, <3>1, <3>2 DEF Cleared
      <3> QED
        BY <2>2, <3>1, <3>2, <3>3, ClearTyped DEF ClickClear, Types, kept
    <2>3. CASE ClearRead(k)
      <3>1. clear[k].conn \in Conns /\ chats \in Histories
        BY <2>0, <2>3 DEF ClearRead, Types
      <3>2. PICK r : r = [clear[k] EXCEPT !.pc = "write", !.file = chats]
        OBVIOUS
      <3>3. r \in Cleared /\ r.conn = clear[k].conn
        BY <2>0, <3>1, <3>2 DEF Cleared
      <3> QED
        BY <2>3, <3>1, <3>2, <3>3, ClearTyped DEF ClearRead, Types, kept
    <2>4. CASE ClearWrite(k) \/ ClearFails(k)
      <3>1. clear[k].conn \in Conns /\ NoChats \in Histories
        BY <2>0, <2>4 DEF ClearWrite, ClearFails, NoChats, Histories
      <3>2. PICK pc \in {"reload", "done"} : pc = IF ClearWrite(k) THEN "reload" ELSE "done"
        OBVIOUS
      <3>3. PICK r : r = [clear[k] EXCEPT !.pc = pc, !.file = NoChats]
        OBVIOUS
      <3>4. r \in Cleared /\ r.conn = clear[k].conn
        BY <2>0, <3>1, <3>3 DEF Cleared
      <3>5. clear' = [clear EXCEPT ![k] = r] /\ UNCHANGED <<user, usage, today, send, loads, screen>>
        BY <2>4, <3>2, <3>3 DEF ClearWrite, ClearFails
      <3>6. PICK f : f = [clear[k].file EXCEPT ![clear[k].conn] = <<>>]
        OBVIOUS
      <3>7. f \in Histories
        <4>1. <<>> \in Seq(Messages)
          OBVIOUS
        <4> QED
          BY <2>0, <3>6, <4>1 DEF Histories
      <3>8. chats' \in {chats, f} \cup CutShort(f)
        BY <2>4, <3>6 DEF ClearWrite, ClearFails
      <3>9. chats' \in Histories
        BY <3>7, <3>8, WhatIsLeft DEF Types
      <3> QED
        BY <3>1, <3>4, <3>5, <3>9, ClearTyped DEF Types
    <2>5. CASE Reload(k)
      <3>1. clear[k].conn \in Conns
        BY <2>0, <2>5 DEF Reload
      <3>2. PICK r : r = [clear[k] EXCEPT !.pc = "done"]
        OBVIOUS
      <3>3. r \in Cleared /\ r.conn = clear[k].conn
        BY <2>0, <3>2 DEF Cleared
      <3>4. screen' \in Views
        BY <2>5, <3>1, LoadingView DEF Reload, Types
      <3>5. [conn |-> clear[k].conn, epoch |-> screen'.epoch] \in [conn : Conns, epoch : Nat]
        BY <3>1, <3>4 DEF Views
      <3> QED
        BY <2>5, <3>1, <3>2, <3>3, <3>4, <3>5, ClearTyped DEF Reload, Types, kept
    <2> QED
      BY <1>9, <2>2, <2>3, <2>4, <2>5
  <1>10. ASSUME NEW c \in Conns \cup {None}, Select(c)
         PROVE  Types' /\ Aimed'
    <2>1. screen' \in Views
      <3>1. Loading(screen, c) \in Views /\ screen' = [Loading(screen, c) EXCEPT !.selected = c]
        BY <1>10, LoadingView DEF Select, Types
      <3> QED
        BY <3>1 DEF Views
    <2>2. loads' \subseteq [conn : Conns, epoch : Nat]
      BY <1>10, <2>1 DEF Select, Types, Views
    <2> QED
      BY <1>10, <2>1, <2>2 DEF Select, Types, Aimed, kept
  <1>11. ASSUME NEW l \in loads, Loaded(l)
         PROVE  Types' /\ Aimed'
    <2>1. screen' \in Views
      BY <1>11 DEF Loaded, Types, Views
    <2> QED
      BY <1>11, <2>1 DEF Loaded, Types, Aimed, kept
  <1>12. CASE NextDay
    BY <1>12 DEF NextDay, Types, Aimed, kept
  <1>13. CASE UNCHANGED vars
    BY <1>13 DEF vars, Types, Aimed
  <1> QED
    BY <1>1, <1>2, <1>3, <1>4, <1>5, <1>6, <1>7, <1>8, <1>9, <1>10, <1>11, <1>12, <1>13, <1>14
       DEF Next, SendStep

\* What each step of a send does to it.
Shape(s) ==
    /\ send \in [Sends -> Sent]
    /\ DOMAIN send[s] = {"pc", "conn", "epoch", "history", "file", "round", "tools", "seen"}
    /\ \A r : send' = [send EXCEPT ![s] = r] =>
          send'[s] = r /\ \A t \in Sends \ {s} : send'[t] = send[t]

LEMMA SendShape ==
    ASSUME Types, NEW s \in Sends
    PROVE  Shape(s)
  BY SentFields DEF Shape, Types

LEMMA ClickSendEffect ==
    ASSUME Types, NEW s \in Sends, ClickSend(s)
    PROVE  /\ send[s].pc = "new" /\ send'[s].pc = "asked" /\ send'[s].conn = screen.selected
           /\ send'[s].history = send[s].history /\ send'[s].epoch = screen'.epoch
           /\ \A t \in Sends \ {s} : send'[t] = send[t]
  <1>0. Shape(s)
    BY SendShape
  <1>1. PICK r : r = [send[s] EXCEPT !.pc = "asked", !.conn = screen.selected,
                                     !.epoch = screen'.epoch]
    OBVIOUS
  <1>2. send' = [send EXCEPT ![s] = r] /\ send[s].pc = "new"
    BY <1>1 DEF ClickSend
  <1>3. /\ r.pc = "asked" /\ r.conn = screen.selected /\ r.history = send[s].history
        /\ r.epoch = screen'.epoch
    BY <1>0, <1>1 DEF Shape
  <1> QED
    BY <1>0, <1>2, <1>3 DEF Shape

LEMMA BeginEffect ==
    ASSUME Types, NEW s \in Sends, Begin(s)
    PROVE  /\ send[s].pc = "asked" /\ send'[s].pc = "save"
           /\ send'[s].history = Append(chats[send[s].conn], Message(s, "question"))
           /\ send'[s].conn = send[s].conn /\ send'[s].epoch = send[s].epoch
           /\ \A t \in Sends \ {s} : send'[t] = send[t]
  <1>0. Shape(s)
    BY SendShape
  <1> QED
    BY <1>0 DEF Shape, Begin

LEMMA SaveReadEffect ==
    ASSUME Types, NEW s \in Sends, SaveRead(s)
    PROVE  /\ send[s].pc = "save" /\ send'[s].pc = "write" /\ send'[s].file = chats
           /\ send'[s].history = send[s].history
           /\ send'[s].conn = send[s].conn /\ send'[s].epoch = send[s].epoch
           /\ \A t \in Sends \ {s} : send'[t] = send[t]
  <1>0. Shape(s)
    BY SendShape
  <1> QED
    BY <1>0 DEF Shape, SaveRead

LEMMA SaveWriteEffect ==
    ASSUME Types, NEW s \in Sends, SaveWrite(s)
    PROVE  /\ send[s].pc = "write" /\ send'[s].pc = After(s)
           /\ send'[s].history = send[s].history
           /\ send'[s].conn = send[s].conn /\ send'[s].epoch = send[s].epoch
           /\ \A t \in Sends \ {s} : send'[t] = send[t]
  <1>0. Shape(s)
    BY SendShape
  <1> QED
    BY <1>0 DEF Shape, SaveWrite

LEMMA SaveFailsEffect ==
    ASSUME Types, NEW s \in Sends, SaveFails(s)
    PROVE  /\ send[s].pc = "write" /\ send'[s].pc = "failed"
           /\ send'[s].history = send[s].history
           /\ send'[s].conn = send[s].conn /\ send'[s].epoch = send[s].epoch
           /\ \A t \in Sends \ {s} : send'[t] = send[t]
  <1>0. Shape(s)
    BY SendShape
  <1> QED
    BY <1>0 DEF Shape, SaveFails

LEMMA UsageFailsEffect ==
    ASSUME Types, NEW s \in Sends, UsageFails(s)
    PROVE  /\ send[s].pc = "counting" /\ send'[s].pc = "failed"
           /\ send'[s].history = send[s].history
           /\ send'[s].conn = send[s].conn /\ send'[s].epoch = send[s].epoch
           /\ \A t \in Sends \ {s} : send'[t] = send[t]
  <1>0. Shape(s)
    BY SendShape
  <1>1. send' = [send EXCEPT ![s] = [send[s] EXCEPT !.pc = "failed"]] /\ send[s].pc = "counting"
    BY DEF UsageFails
  <1> QED
    BY <1>0, <1>1 DEF Shape

LEMMA ReadUsageEffect ==
    ASSUME Types, NEW s \in Sends, ReadUsage(s)
    PROVE  /\ send[s].pc = "count" /\ send'[s].pc \in {"failed", "counting"}
           /\ send'[s].history = send[s].history
           /\ send'[s].pc = "counting" =>
                 send'[s].seen = <<today, IF usage.day = today THEN usage.count ELSE 0>>
           /\ send'[s].conn = send[s].conn /\ send'[s].epoch = send[s].epoch
           /\ \A t \in Sends \ {s} : send'[t] = send[t]
  <1>0. Shape(s)
    BY SendShape
  <1>1. PICK pair : pair = <<today, IF usage.day = today THEN usage.count ELSE 0>>
    OBVIOUS
  <1>2. send' = [send EXCEPT ![s] = [send[s] EXCEPT !.pc = "failed"]]
        \/ send' = [send EXCEPT ![s] = [send[s] EXCEPT !.pc = "counting", !.seen = pair]]
    BY <1>1 DEF ReadUsage
  <1>3. send[s].pc = "count"
    BY DEF ReadUsage
  <1>4. CASE send' = [send EXCEPT ![s] = [send[s] EXCEPT !.pc = "failed"]]
    BY <1>0, <1>3, <1>4 DEF Shape
  <1>5. CASE send' = [send EXCEPT ![s] = [send[s] EXCEPT !.pc = "counting", !.seen = pair]]
    BY <1>0, <1>1, <1>3, <1>5 DEF Shape
  <1> QED
    BY <1>2, <1>4, <1>5

LEMMA WriteUsageEffect ==
    ASSUME Types, NEW s \in Sends, WriteUsage(s)
    PROVE  /\ send[s].pc = "counting" /\ send'[s].pc \in {"failed", "request"}
           /\ send'[s].history = send[s].history
           /\ send'[s].conn = send[s].conn /\ send'[s].epoch = send[s].epoch
           /\ \A t \in Sends \ {s} : send'[t] = send[t]
  <1>0. Shape(s)
    BY SendShape
  <1>1. \/ send' = [send EXCEPT ![s] = [send[s] EXCEPT !.pc = "failed"]]
        \/ send' = [send EXCEPT ![s] = [send[s] EXCEPT !.pc = "request", !.seen = <<0, 0>>]]
    BY DEF WriteUsage
  <1>2. send[s].pc = "counting"
    BY DEF WriteUsage
  <1>3. CASE send' = [send EXCEPT ![s] = [send[s] EXCEPT !.pc = "failed"]]
    BY <1>0, <1>2, <1>3 DEF Shape
  <1>4. CASE send' = [send EXCEPT ![s] = [send[s] EXCEPT !.pc = "request", !.seen = <<0, 0>>]]
    BY <1>0, <1>2, <1>4 DEF Shape
  <1> QED
    BY <1>1, <1>3, <1>4

LEMMA RequestEffect ==
    ASSUME Types, NEW s \in Sends, Request(s)
    PROVE  /\ send[s].pc = "request" /\ send'[s].pc \in {"failed", "tool", "save"}
           /\ send'[s].history \in {send[s].history, Append(send[s].history, Message(s, "reply"))}
           /\ send'[s].conn = send[s].conn /\ send'[s].epoch = send[s].epoch
           /\ \A t \in Sends \ {s} : send'[t] = send[t]
  <1>0. Shape(s)
    BY SendShape
  <1>1. send[s].pc = "request"
    BY DEF Request
  <1>2. CASE send' = [send EXCEPT ![s] = [send[s] EXCEPT !.pc = "failed"]]
    BY <1>0, <1>1, <1>2 DEF Shape
  <1>3. ASSUME NEW tools \in 0..1, NEW text \in BOOLEAN,
               send' = [send EXCEPT ![s] = [send[s] EXCEPT
                  !.round = send[s].round + 1, !.tools = tools,
                  !.history = IF text THEN Append(send[s].history, Message(s, "reply"))
                              ELSE send[s].history,
                  !.pc = IF tools > 0 THEN "tool" ELSE "save"]]
        PROVE  /\ send'[s].pc \in {"tool", "save"}
               /\ send'[s].history \in {send[s].history, Append(send[s].history, Message(s, "reply"))}
               /\ send'[s].conn = send[s].conn /\ send'[s].epoch = send[s].epoch
               /\ \A t \in Sends \ {s} : send'[t] = send[t]
    <2>1. PICK h : h = IF text THEN Append(send[s].history, Message(s, "reply"))
                       ELSE send[s].history
      OBVIOUS
    <2>2. PICK pc \in {"tool", "save"} : pc = IF tools > 0 THEN "tool" ELSE "save"
      OBVIOUS
    <2>3. PICK r : r = [send[s] EXCEPT !.round = send[s].round + 1, !.tools = tools,
                                       !.history = h, !.pc = pc]
      OBVIOUS
    <2>4. send' = [send EXCEPT ![s] = r]
      BY <1>3, <2>1, <2>2, <2>3
    <2>5. r.pc = pc /\ r.history = h /\ r.conn = send[s].conn /\ r.epoch = send[s].epoch
      BY <1>0, <2>3 DEF Shape
    <2> QED
      BY <1>0, <2>1, <2>4, <2>5 DEF Shape
  <1> QED
    BY <1>1, <1>2, <1>3 DEF Request

LEMMA RunToolEffect ==
    ASSUME Types, NEW s \in Sends, RunTool(s)
    PROVE  /\ send[s].pc = "tool" /\ send'[s].pc \in {"failed", "save"}
           /\ send'[s].history \in {send[s].history, Append(send[s].history, Message(s, "tool"))}
           /\ send'[s].conn = send[s].conn /\ send'[s].epoch = send[s].epoch
           /\ \A t \in Sends \ {s} : send'[t] = send[t]
  <1>0. Shape(s)
    BY SendShape
  <1>1. PICK h : h = Append(send[s].history, Message(s, "tool"))
    OBVIOUS
  <1>2. \/ send' = [send EXCEPT ![s] = [send[s] EXCEPT !.pc = "failed"]]
        \/ send' = [send EXCEPT ![s] = [send[s] EXCEPT !.pc = "save", !.history = h]]
    BY <1>1 DEF RunTool
  <1>3. send[s].pc = "tool"
    BY DEF RunTool
  <1>4. CASE send' = [send EXCEPT ![s] = [send[s] EXCEPT !.pc = "failed"]]
    BY <1>0, <1>3, <1>4 DEF Shape
  <1>5. CASE send' = [send EXCEPT ![s] = [send[s] EXCEPT !.pc = "save", !.history = h]]
    BY <1>0, <1>1, <1>3, <1>5 DEF Shape
  <1> QED
    BY <1>2, <1>4, <1>5

LEMMA AnswerEffect ==
    ASSUME Types, NEW s \in Sends, Answer(s)
    PROVE  /\ send[s].pc \in {"answer", "failed"} /\ send'[s].pc = "done"
           /\ send'[s].history = <<>> /\ send'[s].conn = send[s].conn
           /\ \A t \in Sends \ {s} : send'[t] = send[t]
  <1>0. Shape(s)
    BY SendShape
  <1> QED
    BY <1>0 DEF Shape, Answer, NewSend

\* What the steps of a clear do to it.
LEMMA ClearEffect ==
    ASSUME Types, NEW k \in Clears
    PROVE  /\ ClickClear(k) =>
                 /\ clear[k].pc = "new" /\ clear'[k].pc = "read" /\ clear'[k].file = clear[k].file
                 /\ \A j \in Clears \ {k} : clear'[j] = clear[j]
           /\ ClearRead(k) =>
                 /\ clear[k].pc = "read" /\ clear'[k].pc = "write" /\ clear'[k].file = chats
                 /\ \A j \in Clears \ {k} : clear'[j] = clear[j]
           /\ ClearWrite(k) =>
                 /\ clear[k].pc = "write" /\ clear'[k].pc = "reload" /\ clear'[k].file = NoChats
                 /\ \A j \in Clears \ {k} : clear'[j] = clear[j]
           /\ ClearFails(k) =>
                 /\ clear[k].pc = "write" /\ clear'[k].pc = "done" /\ clear'[k].file = NoChats
                 /\ \A j \in Clears \ {k} : clear'[j] = clear[j]
           /\ Reload(k) =>
                 /\ clear[k].pc = "reload" /\ clear'[k].pc = "done" /\ clear'[k].file = clear[k].file
                 /\ \A j \in Clears \ {k} : clear'[j] = clear[j]
  <1>0. clear \in [Clears -> Cleared] /\ DOMAIN clear[k] = {"pc", "conn", "file"}
    BY DEF Types, Cleared
  <1>1. CASE ClickClear(k)
    BY <1>0, <1>1 DEF ClickClear, ClearRead, ClearWrite, ClearFails, Reload
  <1>2. CASE ClearRead(k)
    BY <1>0, <1>2 DEF ClickClear, ClearRead, ClearWrite, ClearFails, Reload
  <1>3. CASE ClearWrite(k)
    BY <1>0, <1>3, ZenonT(60) DEF ClickClear, ClearRead, ClearWrite, ClearFails, Reload
  <1>5. CASE ClearFails(k)
    BY <1>0, <1>5, ZenonT(60) DEF ClickClear, ClearRead, ClearWrite, ClearFails, Reload
  <1>4. CASE Reload(k)
    BY <1>0, <1>4 DEF ClickClear, ClearRead, ClearWrite, ClearFails, Reload
  <1> QED
    BY <1>1, <1>2, <1>3, <1>4, <1>5

-----------------------------------------------------------------------------
(* Which question an answer belongs to, and which connection a conversation. *)

Asked(h, s) == \E i \in 1..Len(h) : h[i] = Message(s, "question")

\* Every message of a conversation has its question at it or before it.
Answered(h) == \A j \in 1..Len(h) : \E i \in 1..j : h[i] = Message(h[j].by, "question")

\* Every message was asked on the connection.
Owned(h, c, sends) == \A j \in 1..Len(h) : sends[h[j].by].conn = c

Fine(h, c, sends) == Answered(h) /\ Owned(h, c, sends)

\* All the conversations that are stored or that a send or a clear holds are
\* fine, and a send on its way holds its own question.
CopiesFine ==
    /\ \A c \in Conns : Fine(chats[c], c, send)
    /\ \A s \in Sends :
          /\ Fine(send[s].history, send[s].conn, send)
          /\ send[s].pc \in {"save", "write", "count", "counting", "request", "tool"} =>
                Asked(send[s].history, s)
          /\ send[s].pc = "write" => \A c \in Conns : Fine(send[s].file[c], c, send)
          /\ send[s].pc \in {"new", "done"} => send[s].history = <<>>
          /\ send[s].pc = "new" => send[s].conn = None
    /\ \A k \in Clears, c \in Conns : Fine(clear[k].file[c], c, send)

LEMMA NothingIsFine ==
    ASSUME NEW c, NEW sends
    PROVE  Fine(<<>>, c, sends)
  BY DEF Fine, Answered, Owned

\* The start of a conversation is fine when it is.
LEMMA StartIsFine ==
    ASSUME NEW h \in Seq(Messages), NEW n \in 0..Len(h), NEW c, NEW sends, Fine(h, c, sends)
    PROVE  Fine(SubSeq(h, 1, n), c, sends)
  <1>1. PICK g : g = SubSeq(h, 1, n)
    OBVIOUS
  <1>2. Len(g) = n /\ n \in Nat /\ n <= Len(h) /\ \A j \in 1..n : g[j] = h[j]
    BY <1>1
  <1>3. Answered(g)
    <2> SUFFICES ASSUME NEW j \in 1..n
                 PROVE  \E i \in 1..j : g[i] = Message(g[j].by, "question")
      BY <1>2 DEF Answered
    <2>1. j \in 1..Len(h)
      BY <1>2
    <2>2. PICK i \in 1..j : h[i] = Message(h[j].by, "question")
      BY <2>1 DEF Fine, Answered
    <2> QED
      BY <1>2, <2>2
  <1>4. Owned(g, c, sends)
    BY <1>2 DEF Fine, Owned
  <1> QED
    BY <1>1, <1>3, <1>4 DEF Fine

\* A conversation keeps its questions when it grows by a question, or by a
\* message whose question it has.
LEMMA OneMore ==
    ASSUME NEW h \in Seq(Messages), NEW s \in Sends, NEW kind \in {"question", "reply", "tool"},
           Answered(h), kind = "question" \/ Asked(h, s)
    PROVE  /\ Answered(Append(h, Message(s, kind))) /\ Asked(Append(h, Message(s, kind)), s)
  <1>1. PICK m \in Messages : m = Message(s, kind) /\ m.by = s
    BY MessageIn DEF Message
  <1>2. PICK g : g = Append(h, m)
    OBVIOUS
  <1>3. /\ g \in Seq(Messages) /\ Len(g) = Len(h) + 1 /\ g[Len(h) + 1] = m
        /\ \A i \in 1..Len(h) : g[i] = h[i]
        /\ Len(h) \in Nat
    BY <1>2, AppendProperties, LenProperties
  <1>4. Asked(g, s)
    <2>1. CASE kind = "question"
      <3>1. g[Len(h) + 1] = Message(s, "question") /\ Len(h) + 1 \in 1..Len(g)
        BY <1>1, <1>3, <2>1
      <3> QED
        BY <3>1 DEF Asked
    <2>2. CASE Asked(h, s)
      <3>1. PICK i \in 1..Len(h) : h[i] = Message(s, "question")
        BY <2>2 DEF Asked
      <3>2. i \in 1..Len(g) /\ g[i] = Message(s, "question")
        BY <1>3, <3>1
      <3> QED
        BY <3>2 DEF Asked
    <2> QED
      BY <2>1, <2>2
  <1>5. ASSUME NEW j \in 1..Len(g)
        PROVE  \E i \in 1..j : g[i] = Message(g[j].by, "question")
    <2>1. CASE j \in 1..Len(h)
      <3>1. PICK i \in 1..j : h[i] = Message(h[j].by, "question")
        BY <2>1 DEF Answered
      <3>2. g[i] = h[i] /\ g[j] = h[j]
        BY <1>3, <2>1, <3>1
      <3> QED
        BY <3>1, <3>2
    <2>2. CASE j = Len(h) + 1
      <3>1. 1..j = 1..Len(g) /\ g[j].by = s
        BY <1>1, <1>3, <2>2
      <3> QED
        BY <1>4, <3>1 DEF Asked
    <2> QED
      BY <1>3, <2>1, <2>2
  <1> QED
    BY <1>1, <1>2, <1>4, <1>5 DEF Answered

\* So is a conversation that grows by a message of a send on its connection.
LEMMA OneMoreIsFine ==
    ASSUME NEW h \in Seq(Messages), NEW s \in Sends, NEW kind \in {"question", "reply", "tool"},
           NEW c, NEW sends, Fine(h, c, sends), sends[s].conn = c, kind = "question" \/ Asked(h, s)
    PROVE  /\ Fine(Append(h, Message(s, kind)), c, sends) /\ Asked(Append(h, Message(s, kind)), s)
  <1>1. PICK m \in Messages : m = Message(s, kind) /\ m.by = s
    BY MessageIn DEF Message
  <1>2. PICK g : g = Append(h, m)
    OBVIOUS
  <1>3. Len(g) = Len(h) + 1 /\ g[Len(h) + 1] = m /\ (\A i \in 1..Len(h) : g[i] = h[i]) /\ Len(h) \in Nat
    BY <1>2, AppendProperties, LenProperties
  <1>4. ASSUME NEW j \in 1..Len(g)
        PROVE  sends[g[j].by].conn = c
    <2>1. CASE j \in 1..Len(h)
      BY <1>3, <2>1 DEF Fine, Owned
    <2>2. CASE j = Len(h) + 1
      BY <1>1, <1>3, <2>2
    <2> QED
      BY <1>3, <2>1, <2>2
  <1>5. Owned(g, c, sends)
    BY <1>4 DEF Owned
  <1>6. Answered(g) /\ Asked(g, s)
    BY <1>1, <1>2, OneMore DEF Fine
  <1> QED
    BY <1>1, <1>2, <1>5, <1>6 DEF Fine

\* What a write leaves is fine when what it would write and what was there are.
LEMMA LeftIsFine ==
    ASSUME NEW f \in Histories, NEW old, NEW g \in {old, f} \cup CutShort(f), NEW sends,
           \A c \in Conns : Fine(f[c], c, sends) /\ Fine(old[c], c, sends)
    PROVE  \A c \in Conns : Fine(g[c], c, sends)
  <1> SUFFICES ASSUME g \in CutShort(f), NEW c \in Conns
               PROVE  Fine(g[c], c, sends)
    OBVIOUS
  <1>1. PICK n \in 0..Len(f[c]) : g[c] = SubSeq(f[c], 1, n)
    BY WhatIsLeft
  <1>2. f[c] \in Seq(Messages)
    BY DEF Histories
  <1> QED
    BY <1>1, <1>2, StartIsFine

\* A send keeps its connection from its click on, so that no step of another
\* makes a conversation another connection's.
LEMMA StaysFine ==
    ASSUME Types, CopiesFine, [Next]_vars, NEW c \in Conns, NEW h \in Seq(Messages),
           Fine(h, c, send)
    PROVE  Fine(h, c, send')
  <1>1. ASSUME NEW s \in Sends, send[s].pc # "new"
        PROVE  send'[s].conn = send[s].conn
    <2>1. ASSUME NEW t \in Sends, ClickSend(t) \/ SendStep(t)
          PROVE  send'[s].conn = send[s].conn
      <3>1. ClickSend(t) => send[t].pc = "new" /\ \A r \in Sends \ {t} : send'[r] = send[r]
        BY ClickSendEffect
      <3>2. SendStep(t) => /\ send'[t].conn = send[t].conn
                           /\ \A r \in Sends \ {t} : send'[r] = send[r]
        BY BeginEffect, SaveReadEffect, SaveWriteEffect, SaveFailsEffect, ReadUsageEffect,
           WriteUsageEffect, UsageFailsEffect, RequestEffect, RunToolEffect, AnswerEffect DEF SendStep
      <3> QED
        BY <1>1, <2>1, <3>1, <3>2
    <2>2. CASE send' = send
      BY <2>2
    <2> QED
      BY <2>1, <2>2 DEF Next, Select, Loaded, ClickClear, ClearRead, ClearWrite, ClearFails, Reload,
         NextDay, vars
  <1>2. ASSUME NEW j \in 1..Len(h)
        PROVE  send'[h[j].by].conn = c
    <2>1. h[j].by \in Sends
      <3>1. h[j] \in Messages
        BY ElementOfSeq
      <3> QED
        BY <3>1 DEF Messages
    <2>2. send[h[j].by].conn = c /\ c # None
      BY ChatAssumption DEF Fine, Owned
    <2>3. send[h[j].by].pc # "new"
      BY <2>1, <2>2 DEF CopiesFine
    <2> QED
      BY <1>1, <2>1, <2>2, <2>3
  <1> QED
    BY <1>2 DEF Fine, Owned

\* What is stored, and what the others hold, stays fine when one send moves.
LEMMA OthersStayFine ==
    ASSUME Types, Aimed, CopiesFine, [Next]_vars, NEW s \in Sends,
           \A t \in Sends \ {s} : send'[t] = send[t]
    PROVE  /\ \A c \in Conns : Fine(chats[c], c, send')
           /\ \A k \in Clears, c \in Conns : Fine(clear[k].file[c], c, send')
           /\ \A t \in Sends \ {s} :
                 /\ Fine(send'[t].history, send'[t].conn, send')
                 /\ send'[t].pc \in {"save", "write", "count", "counting", "request", "tool"} =>
                       Asked(send'[t].history, t)
                 /\ send'[t].pc = "write" => \A c \in Conns : Fine(send'[t].file[c], c, send')
                 /\ send'[t].pc \in {"new", "done"} => send'[t].history = <<>>
                 /\ send'[t].pc = "new" => send'[t].conn = None
  <1>1. ASSUME NEW c \in Conns
        PROVE  Fine(chats[c], c, send')
    <2>1. chats[c] \in Seq(Messages) /\ Fine(chats[c], c, send)
      BY DEF Types, Histories, CopiesFine
    <2> QED
      BY <2>1, StaysFine
  <1>2. ASSUME NEW k \in Clears, NEW c \in Conns
        PROVE  Fine(clear[k].file[c], c, send')
    <2>1. clear[k].file[c] \in Seq(Messages) /\ Fine(clear[k].file[c], c, send)
      BY DEF Types, Cleared, Histories, CopiesFine
    <2> QED
      BY <2>1, StaysFine
  <1>3. ASSUME NEW t \in Sends \ {s}
        PROVE  /\ Fine(send[t].history, send[t].conn, send')
               /\ send[t].pc = "write" => \A c \in Conns : Fine(send[t].file[c], c, send')
    <2>1. send[t] \in Sent /\ send[t].history \in Seq(Messages) /\ Fine(send[t].history, send[t].conn, send)
      <3>1. send[t] \in Sent
        BY DEF Types
      <3> QED
        BY <3>1, SentFields DEF CopiesFine
    <2>2. Fine(send[t].history, send[t].conn, send')
      <3>1. CASE send[t].pc \in {"new", "done"}
        BY <3>1, NothingIsFine DEF CopiesFine
      <3>2. CASE send[t].pc \notin {"new", "done"}
        <4>1. send[t].conn \in Conns
          BY <3>2 DEF Aimed
        <4> QED
          BY <2>1, <4>1, StaysFine
      <3> QED
        BY <3>1, <3>2
    <2>3. ASSUME send[t].pc = "write", NEW c \in Conns
          PROVE  Fine(send[t].file[c], c, send')
      <3>1. send[t].file[c] \in Seq(Messages) /\ Fine(send[t].file[c], c, send)
        BY <2>3 DEF Aimed, Histories, CopiesFine
      <3> QED
        BY <3>1, StaysFine
    <2> QED
      BY <2>2, <2>3
  <1>4. ASSUME NEW t \in Sends \ {s}
        PROVE  /\ send'[t] = send[t]
               /\ send[t].pc \in {"save", "write", "count", "counting", "request", "tool"} =>
                     Asked(send[t].history, t)
               /\ send[t].pc \in {"new", "done"} => send[t].history = <<>>
               /\ send[t].pc = "new" => send[t].conn = None
    BY DEF CopiesFine
  <1> QED
    BY <1>1, <1>2, <1>3, <1>4

\* What a send does to its copy, when the conversations stay as they are.
LEMMA CopyChanges ==
    ASSUME Types, Aimed, CopiesFine, [Next]_vars, NEW s \in Sends,
           UNCHANGED <<chats, clear>>, \A t \in Sends \ {s} : send'[t] = send[t],
           Fine(send'[s].history, send'[s].conn, send'), send'[s].pc # "new",
           send'[s].pc \in {"save", "write", "count", "counting", "request", "tool"} =>
              Asked(send'[s].history, s),
           send'[s].pc = "write" => send'[s].file = chats,
           send'[s].pc = "done" => send'[s].history = <<>>
    PROVE  CopiesFine'
  <1>1. \A c \in Conns : Fine(chats[c], c, send')
    BY OthersStayFine
  <1>2. ASSUME NEW t \in Sends
        PROVE  /\ Fine(send'[t].history, send'[t].conn, send')
               /\ send'[t].pc \in {"save", "write", "count", "counting", "request", "tool"} =>
                     Asked(send'[t].history, t)
               /\ send'[t].pc = "write" => \A c \in Conns : Fine(send'[t].file[c], c, send')
               /\ send'[t].pc \in {"new", "done"} => send'[t].history = <<>>
               /\ send'[t].pc = "new" => send'[t].conn = None
    <2>1. CASE t = s
      BY <1>1, <2>1
    <2>2. CASE t # s
      BY <2>2, OthersStayFine
    <2> QED
      BY <2>1, <2>2
  <1> QED
    BY <1>1, <1>2, OthersStayFine DEF CopiesFine

\* No step puts an answer where its question is not, or a question where it was
\* not asked.
LEMMA CopiesStep ==
    ASSUME Types, Aimed, CopiesFine, [Next]_vars, Types'
    PROVE  CopiesFine'
  <1>0. ASSUME NEW s \in Sends
        PROVE  /\ send[s].history \in Seq(Messages) /\ Fine(send[s].history, send[s].conn, send)
               /\ send[s].pc \in {"save", "write", "count", "counting", "request", "tool"} =>
                     Asked(send[s].history, s)
    <2>1. send[s] \in Sent
      BY DEF Types
    <2> QED
      BY <2>1, SentFields DEF CopiesFine
  <1>h. ASSUME NEW s \in Sends, send[s].pc \notin {"new", "done"}
        PROVE  send[s].conn \in Conns /\ Fine(send[s].history, send[s].conn, send')
    BY <1>0, <1>h, StaysFine DEF Aimed
  <1>1. ASSUME NEW s \in Sends, ClickSend(s)
        PROVE  CopiesFine'
    <2>1. UNCHANGED <<chats, clear>>
      BY <1>1 DEF ClickSend, kept
    <2>2. /\ send'[s].pc = "asked" /\ send'[s].history = <<>>
          /\ \A t \in Sends \ {s} : send'[t] = send[t]
      BY <1>1, ClickSendEffect DEF CopiesFine
    <2> QED
      BY <2>1, <2>2, NothingIsFine, CopyChanges
  <1>2. ASSUME NEW s \in Sends, Begin(s)
        PROVE  CopiesFine'
    <2>1. send[s].conn \in Conns
      BY <1>2 DEF Begin, Aimed
    <2>2. chats[send[s].conn] \in Seq(Messages) /\ Fine(chats[send[s].conn], send[s].conn, send)
      BY <2>1 DEF Types, Histories, CopiesFine
    <2>3. UNCHANGED <<chats, clear>>
      BY <1>2 DEF Begin, kept
    <2>4. Fine(chats[send[s].conn], send[s].conn, send')
      BY <2>1, <2>2, StaysFine
    <2>5. /\ send'[s].pc = "save" /\ send'[s].conn = send[s].conn
          /\ \A t \in Sends \ {s} : send'[t] = send[t]
          /\ send'[s].history = Append(chats[send[s].conn], Message(s, "question"))
      BY <1>2, BeginEffect
    <2>6. Fine(send'[s].history, send'[s].conn, send') /\ Asked(send'[s].history, s)
      BY <2>2, <2>4, <2>5, OneMoreIsFine DEF Fine
    <2> QED
      BY <2>3, <2>5, <2>6, CopyChanges
  <1>3. ASSUME NEW s \in Sends, SaveRead(s)
        PROVE  CopiesFine'
    <2>1. UNCHANGED <<chats, clear>>
      BY <1>3 DEF SaveRead, kept
    <2>2. /\ send[s].pc = "save" /\ send'[s].pc = "write" /\ send'[s].file = chats
          /\ send'[s].history = send[s].history /\ send'[s].conn = send[s].conn
          /\ \A t \in Sends \ {s} : send'[t] = send[t]
      BY <1>3, SaveReadEffect
    <2> QED
      BY <1>0, <1>h, <2>1, <2>2, CopyChanges
  <1>4. ASSUME NEW s \in Sends, SaveWrite(s) \/ SaveFails(s)
        PROVE  CopiesFine'
    <2>1. /\ send[s].pc = "write" /\ send'[s].pc \in {"count", "request", "answer", "failed"}
          /\ send'[s].history = send[s].history /\ send'[s].conn = send[s].conn
          /\ \A t \in Sends \ {s} : send'[t] = send[t]
      BY <1>4, SaveWriteEffect, SaveFailsEffect DEF After
    <2>2. /\ send[s].conn \in Conns /\ send[s].file \in Histories
          /\ Fine(send[s].history, send[s].conn, send') /\ Asked(send[s].history, s)
      BY <1>0, <1>h, <2>1 DEF Aimed
    <2>3. PICK f : f = [send[s].file EXCEPT ![send[s].conn] = send[s].history]
      OBVIOUS
    <2>4. f \in Histories
      BY <1>0, <2>2, <2>3 DEF Histories
    <2>5. ASSUME NEW c \in Conns
          PROVE  Fine(f[c], c, send')
      <3>1. f[c] = IF c = send[s].conn THEN send[s].history ELSE send[s].file[c]
        BY <2>2, <2>3 DEF Histories
      <3>2. send[s].file[c] \in Seq(Messages) /\ Fine(send[s].file[c], c, send)
        BY <2>1, <2>2 DEF Histories, CopiesFine
      <3> QED
        BY <2>2, <3>1, <3>2, StaysFine
    <2>6. chats' \in {chats, f} \cup CutShort(f) /\ clear' = clear
      BY <1>4, <2>3 DEF SaveWrite, SaveFails
    <2>7. \A c \in Conns : Fine(chats'[c], c, send')
      BY <2>1, <2>4, <2>5, <2>6, OthersStayFine, LeftIsFine
    <2>8. ASSUME NEW t \in Sends
          PROVE  /\ Fine(send'[t].history, send'[t].conn, send')
                 /\ send'[t].pc \in {"save", "write", "count", "counting", "request", "tool"} =>
                       Asked(send'[t].history, t)
                 /\ send'[t].pc = "write" => \A c \in Conns : Fine(send'[t].file[c], c, send')
                 /\ send'[t].pc \in {"new", "done"} => send'[t].history = <<>>
                 /\ send'[t].pc = "new" => send'[t].conn = None
      <3>1. CASE t = s
        BY <2>1, <2>2, <3>1
      <3>2. CASE t # s
        BY <2>1, <3>2, OthersStayFine
      <3> QED
        BY <3>1, <3>2
    <2> QED
      BY <2>1, <2>6, <2>7, <2>8, OthersStayFine DEF CopiesFine
  <1>5. ASSUME NEW s \in Sends, ReadUsage(s) \/ WriteUsage(s) \/ UsageFails(s)
        PROVE  CopiesFine'
    <2>1. UNCHANGED <<chats, clear>>
      BY <1>5 DEF ReadUsage, WriteUsage, UsageFails, kept
    <2>2. /\ send[s].pc \in {"count", "counting"}
          /\ send'[s].pc \in {"failed", "counting", "request"}
          /\ send'[s].history = send[s].history /\ send'[s].conn = send[s].conn
          /\ \A t \in Sends \ {s} : send'[t] = send[t]
      BY <1>5, ReadUsageEffect, WriteUsageEffect, UsageFailsEffect
    <2> QED
      BY <1>0, <1>h, <2>1, <2>2, CopyChanges
  <1>6. ASSUME NEW s \in Sends, Request(s) \/ RunTool(s)
        PROVE  CopiesFine'
    <2>1. UNCHANGED <<chats, clear>>
      BY <1>6 DEF Request, RunTool, kept
    <2>2. PICK kind \in {"reply", "tool"} :
            send'[s].history \in {send[s].history, Append(send[s].history, Message(s, kind))}
      BY <1>6, RequestEffect, RunToolEffect
    <2>3. /\ send[s].pc \in {"request", "tool"} /\ send'[s].pc \in {"failed", "tool", "save"}
          /\ send'[s].conn = send[s].conn
          /\ \A t \in Sends \ {s} : send'[t] = send[t]
      BY <1>6, RequestEffect, RunToolEffect
    <2>4. Fine(send'[s].history, send'[s].conn, send') /\ Asked(send'[s].history, s)
      <3>1. /\ send[s].history \in Seq(Messages) /\ Asked(send[s].history, s)
            /\ Fine(send[s].history, send[s].conn, send')
        BY <1>0, <1>h, <2>3
      <3> QED
        BY <2>2, <2>3, <3>1, OneMoreIsFine
    <2> QED
      BY <2>1, <2>3, <2>4, CopyChanges
  <1>7. ASSUME NEW s \in Sends, Answer(s)
        PROVE  CopiesFine'
    <2>1. UNCHANGED <<chats, clear>>
      BY <1>7 DEF Answer, kept
    <2>2. /\ send'[s].pc = "done" /\ send'[s].history = <<>>
          /\ \A t \in Sends \ {s} : send'[t] = send[t]
      BY <1>7, AnswerEffect
    <2> QED
      BY <2>1, <2>2, NothingIsFine, CopyChanges
  <1>8. ASSUME NEW k \in Clears,
               ClickClear(k) \/ ClearRead(k) \/ ClearWrite(k) \/ ClearFails(k) \/ Reload(k)
        PROVE  CopiesFine'
    <2>0. /\ clear \in [Clears -> Cleared] /\ clear[k].file \in Histories
          /\ \A c \in Conns : Fine(clear[k].file[c], c, send) /\ Fine(chats[c], c, send)
      BY DEF Types, Cleared, CopiesFine
    <2>1. send' = send /\ \A j \in Clears \ {k} : clear'[j] = clear[j]
      BY <1>8, ClearEffect DEF ClickClear, ClearRead, ClearWrite, ClearFails, Reload
    <2>2. PICK f : f = [clear[k].file EXCEPT ![clear[k].conn] = <<>>]
      OBVIOUS
    <2>3. ASSUME NEW c \in Conns
          PROVE  f[c] \in Seq(Messages) /\ Fine(f[c], c, send)
      <3>1. f[c] \in {<<>>, clear[k].file[c]} /\ clear[k].file[c] \in Seq(Messages)
        BY <2>0, <2>2 DEF Histories
      <3>2. <<>> \in Seq(Messages) /\ Fine(<<>>, c, send)
        BY NothingIsFine
      <3> QED
        BY <2>0, <3>1, <3>2
    <2>4. f \in Histories
      <3>1. f = [c \in Conns |-> f[c]]
        BY <2>0, <2>2 DEF Histories
      <3> QED
        BY <2>3, <3>1 DEF Histories
    <2>5. chats' \in {chats, f} \cup CutShort(f)
      BY <1>8, <2>2 DEF ClickClear, ClearRead, ClearWrite, ClearFails, Reload, kept
    <2>6. \A c \in Conns : Fine(chats'[c], c, send)
      BY <2>0, <2>3, <2>4, <2>5, LeftIsFine
    <2>7. clear'[k].file \in {clear[k].file, chats, NoChats}
      BY <1>8, ClearEffect
    <2>8. ASSUME NEW c \in Conns
          PROVE  Fine(clear'[k].file[c], c, send)
      <3>1. NoChats[c] = <<>>
        BY DEF NoChats
      <3> QED
        BY <2>0, <2>7, <3>1, NothingIsFine
    <2>9. \A j \in Clears, c \in Conns : Fine(clear'[j].file[c], c, send)
      BY <2>1, <2>8 DEF CopiesFine
    <2> QED
      BY <2>1, <2>6, <2>9 DEF CopiesFine
  <1>9. CASE UNCHANGED <<chats, send, clear>>
    BY <1>9 DEF CopiesFine
  <1> QED
    BY <1>1, <1>2, <1>3, <1>4, <1>5, <1>6, <1>7, <1>8, <1>9
       DEF Next, SendStep, Select, Loaded, NextDay, vars, kept

-----------------------------------------------------------------------------
(* A user who waits keeps one thing under way.                               *)

SendBusy(s) == send[s].pc \notin {"new", "done"}
ClearBusy(k) == clear[k].pc \notin {"new", "done"}

OneThing ==
    /\ \A l, m \in loads : l = m
    /\ \A s, t \in Sends : SendBusy(s) /\ SendBusy(t) => s = t
    /\ \A k, j \in Clears : ClearBusy(k) /\ ClearBusy(j) => k = j
    /\ \A s \in Sends, k \in Clears : ~(SendBusy(s) /\ ClearBusy(k))
    /\ loads # {} => /\ \A s \in Sends : ~SendBusy(s)
                     /\ \A k \in Clears : ~ClearBusy(k)

\* Nothing is under way when a user who waits clicks.
LEMMA ClickWhenIdle ==
    ASSUME user.patient, MayClick
    PROVE  loads = {} /\ (\A s \in Sends : ~SendBusy(s)) /\ (\A k \in Clears : ~ClearBusy(k))
  BY DEF MayClick, Busy, SendBusy, ClearBusy

\* A step of a send on its way moves that send alone.
LEMMA SendMoves ==
    ASSUME Types, NEW s \in Sends, SendStep(s)
    PROVE  /\ SendBusy(s) /\ UNCHANGED <<user, today, loads, clear>>
           /\ \A t \in Sends \ {s} : send'[t] = send[t]
  <1>1. UNCHANGED <<user, today, loads, clear>>
    BY DEF SendStep, Begin, SaveRead, SaveWrite, SaveFails, ReadUsage, WriteUsage, UsageFails,
       Request, RunTool, Answer, kept
  <1>2. SendBusy(s) /\ \A t \in Sends \ {s} : send'[t] = send[t]
    BY BeginEffect, SaveReadEffect, SaveWriteEffect, SaveFailsEffect, ReadUsageEffect, WriteUsageEffect, UsageFailsEffect,
       RequestEffect, RunToolEffect, AnswerEffect DEF SendStep, SendBusy
  <1> QED
    BY <1>1, <1>2

\* A click begins one thing when nothing is under way; everything else goes on
\* with what is, and a clear that ends leaves its reload behind.
LEMMA OneThingStep ==
    ASSUME Types, OneThing, user.patient, [Next]_vars
    PROVE  OneThing'
  <1>1. ASSUME NEW c \in Conns \cup {None}, Select(c)
        PROVE  OneThing'
    <2>1. loads = {} /\ (\A s \in Sends : ~SendBusy(s)) /\ (\A k \in Clears : ~ClearBusy(k))
      BY <1>1, ClickWhenIdle DEF Select
    <2>2. send' = send /\ clear' = clear
          /\ \/ loads' = loads
             \/ loads' = loads \cup {[conn |-> c, epoch |-> screen'.epoch]}
      BY <1>1 DEF Select
    <2> QED
      BY <2>1, <2>2 DEF OneThing, SendBusy, ClearBusy
  <1>2. ASSUME NEW l \in loads, Loaded(l)
        PROVE  OneThing'
    BY <1>2 DEF Loaded, OneThing, SendBusy, ClearBusy
  <1>3. ASSUME NEW s \in Sends, ClickSend(s)
        PROVE  OneThing'
    <2>1. loads = {} /\ (\A t \in Sends : ~SendBusy(t)) /\ (\A k \in Clears : ~ClearBusy(k))
      BY <1>3, ClickWhenIdle DEF ClickSend
    <2>2. UNCHANGED <<clear, loads>> /\ \A t \in Sends \ {s} : send'[t] = send[t]
      BY <1>3, ClickSendEffect DEF ClickSend
    <2> QED
      BY <2>1, <2>2 DEF OneThing, SendBusy, ClearBusy
  <1>4. ASSUME NEW s \in Sends, SendStep(s)
        PROVE  OneThing'
    BY <1>4, SendMoves DEF OneThing, SendBusy, ClearBusy
  <1>5. ASSUME NEW k \in Clears, ClickClear(k)
        PROVE  OneThing'
    <2>1. loads = {} /\ (\A t \in Sends : ~SendBusy(t)) /\ (\A j \in Clears : ~ClearBusy(j))
      BY <1>5, ClickWhenIdle DEF ClickClear
    <2>2. UNCHANGED <<send, loads>> /\ \A j \in Clears \ {k} : clear'[j] = clear[j]
      BY <1>5, ClearEffect DEF ClickClear
    <2> QED
      BY <2>1, <2>2 DEF OneThing, SendBusy, ClearBusy
  <1>6. ASSUME NEW k \in Clears, ClearRead(k) \/ ClearWrite(k) \/ ClearFails(k)
        PROVE  OneThing'
    <2>1. UNCHANGED <<send, loads>> /\ ClearBusy(k) /\ \A j \in Clears \ {k} : clear'[j] = clear[j]
      BY <1>6, ClearEffect DEF ClearRead, ClearWrite, ClearFails, ClearBusy
    <2> QED
      BY <2>1 DEF OneThing, SendBusy, ClearBusy
  <1>7. ASSUME NEW k \in Clears, Reload(k)
        PROVE  OneThing'
    <2>1. /\ send' = send /\ ClearBusy(k) /\ clear'[k].pc = "done"
          /\ \A j \in Clears \ {k} : clear'[j] = clear[j]
          /\ loads' = loads \cup {[conn |-> clear[k].conn, epoch |-> screen'.epoch]}
      BY <1>7, ClearEffect DEF Reload, ClearBusy
    <2>2. loads = {} /\ (\A t \in Sends : ~SendBusy(t)) /\ (\A j \in Clears \ {k} : ~ClearBusy(j))
      BY <2>1 DEF OneThing
    <2>3. \A j \in Clears : ~ClearBusy(j)'
      BY <2>1, <2>2 DEF ClearBusy
    <2> QED
      BY <2>1, <2>2, <2>3 DEF OneThing, SendBusy
  <1>8. CASE UNCHANGED <<loads, send, clear>>
    BY <1>8 DEF OneThing, SendBusy, ClearBusy
  <1> QED
    BY <1>1, <1>2, <1>3, <1>4, <1>5, <1>6, <1>7, <1>8 DEF Next, NextDay, vars

CountedOn(day) == {u \in counted : u.day = day}

\* The file counts every message of its day, no message is of a later day, and
\* a send that has read the counter has read it as it is.
UsageCounts ==
    /\ IsFiniteSet(counted)
    /\ \A u \in counted : u.day \in Nat /\ u.day <= usage.day
    /\ usage.day <= today
    /\ Cardinality(CountedOn(usage.day)) <= usage.count
    /\ \A day \in Nat : Cardinality(CountedOn(day)) <= Limit
    /\ \A s \in Sends : send[s].pc = "counting" =>
          \/ send[s].seen = <<usage.day, usage.count>>
          \/ send[s].seen[1] > usage.day /\ send[s].seen[1] <= today /\ send[s].seen[2] = 0

\* A message that is counted makes its day's messages at most one more, and no
\* other day's.
LEMMA OneMoreCounted ==
    ASSUME IsFiniteSet(counted), NEW u, NEW day
    PROVE  /\ IsFiniteSet(counted \cup {u})
           /\ CountedOn(day) \subseteq counted /\ Cardinality(CountedOn(day)) \in Nat
           /\ Cardinality({v \in counted \cup {u} : v.day = day}) <= Cardinality(CountedOn(day)) + 1
           /\ u.day # day => {v \in counted \cup {u} : v.day = day} = CountedOn(day)
  <1>1. CountedOn(day) \subseteq counted /\ IsFiniteSet(CountedOn(day))
    BY FS_Subset DEF CountedOn
  <1>2. Cardinality(CountedOn(day)) \in Nat /\ IsFiniteSet(counted \cup {u})
    BY <1>1, FS_CardinalityType, FS_AddElement
  <1>3. CASE u.day = day
    <2>1. {v \in counted \cup {u} : v.day = day} = CountedOn(day) \cup {u}
      BY <1>3 DEF CountedOn
    <2>2. Cardinality(CountedOn(day) \cup {u})
             \in {Cardinality(CountedOn(day)), Cardinality(CountedOn(day)) + 1}
      BY <1>1, FS_AddElement
    <2>3. Cardinality({v \in counted \cup {u} : v.day = day}) <= Cardinality(CountedOn(day)) + 1
      BY <1>2, <2>1, <2>2
    <2> QED
      BY <1>1, <1>2, <1>3, <2>3
  <1>4. CASE u.day # day
    <2>1. {v \in counted \cup {u} : v.day = day} = CountedOn(day)
      BY <1>4 DEF CountedOn
    <2>2. Cardinality({v \in counted \cup {u} : v.day = day}) = Cardinality(CountedOn(day))
      BY <2>1
    <2>3. Cardinality({v \in counted \cup {u} : v.day = day}) <= Cardinality(CountedOn(day)) + 1
      BY <1>2, <2>2
    <2> QED
      BY <1>1, <1>2, <2>1, <2>3
  <1> QED
    BY <1>3, <1>4

\* While one send counts, nobody else does, and it writes one more than it read.
LEMMA UsageStep ==
    ASSUME Types, OneThing, UsageCounts, [Next]_vars
    PROVE  UsageCounts'
  <1>0. today \in Nat /\ usage.day \in Nat /\ usage.count \in Nat /\ Limit \in Nat \ {0}
    BY ChatAssumption DEF Types
  <1>1. ASSUME NEW s \in Sends, WriteUsage(s)
        PROVE  UsageCounts'
    <2>1. /\ send[s].pc = "counting" /\ send'[s].pc # "counting" /\ SendBusy(s) /\ today' = today
          /\ \A t \in Sends \ {s} : send'[t] = send[t]
      BY <1>1, SendMoves, WriteUsageEffect DEF SendStep
    <2>2. \A t \in Sends : send'[t].pc # "counting"
      BY <2>1 DEF OneThing, SendBusy
    <2>3. CASE UNCHANGED <<usage, counted>>
      BY <2>1, <2>2, <2>3 DEF UsageCounts, CountedOn
    <2>4. CASE ~UNCHANGED <<usage, counted>>
      <3>1. PICK day : day = send[s].seen[1]
        OBVIOUS
      <3>2. PICK n : n = send[s].seen[2]
        OBVIOUS
      <3>3. /\ ~(n >= Limit) /\ usage' = [day |-> day, count |-> n + 1]
            /\ counted' = counted \cup {[send |-> s, day |-> day]}
        BY <1>1, <2>4, <3>1, <3>2 DEF WriteUsage
      <3>4. \/ day = usage.day /\ n = usage.count
            \/ day \in Nat /\ day > usage.day /\ day <= today /\ n = 0
        <4>1. send[s] \in Sent
          BY DEF Types
        <4>2. send[s].seen \in Nat \X Nat
          BY <4>1, SentFields
        <4> QED
          BY <2>1, <3>1, <3>2, <4>2 DEF UsageCounts
      <3>5. /\ usage'.day = day /\ usage'.count = n + 1 /\ day \in Nat /\ n \in Nat
            /\ usage.day <= day /\ day <= today' /\ n < Limit
        BY <1>0, <2>1, <3>3, <3>4 DEF UsageCounts
      <3>6. Cardinality(CountedOn(day)) <= n
        <4>1. CASE day = usage.day
          BY <3>4, <4>1 DEF UsageCounts
        <4>2. CASE day > usage.day
          <5>1. CountedOn(day) = {}
            BY <1>0, <3>5, <4>2 DEF UsageCounts, CountedOn
          <5> QED
            BY <3>5, <5>1, FS_EmptySet
        <4> QED
          BY <1>0, <3>4, <4>1, <4>2
      <3>7. IsFiniteSet(counted) /\ (\A u \in counted : u.day \in Nat /\ u.day <= usage.day)
            /\ \A d \in Nat : Cardinality(CountedOn(d)) <= Limit
        BY DEF UsageCounts
      <3>8. IsFiniteSet(counted')
        BY <3>3, <3>7, OneMoreCounted
      <3>9. \A u \in counted' : u.day \in Nat /\ u.day <= usage'.day
        BY <1>0, <3>3, <3>5, <3>7
      <3>10. Cardinality(CountedOn(day)') <= n + 1
        <4>1. CountedOn(day)' = {v \in counted \cup {[send |-> s, day |-> day]} : v.day = day}
          BY <3>3 DEF CountedOn
        <4>2. Cardinality(CountedOn(day)') <= Cardinality(CountedOn(day)) + 1
              /\ Cardinality(CountedOn(day)) \in Nat
          BY <3>7, <4>1, OneMoreCounted
        <4>3. Cardinality(CountedOn(day)') \in Nat
          BY <3>8, FS_Subset, FS_CardinalityType DEF CountedOn
        <4> QED
          BY <3>5, <3>6, <4>2, <4>3
      <3>11. ASSUME NEW d \in Nat
             PROVE  Cardinality({v \in counted' : v.day = d}) <= Limit
        <4>1. CASE d = day
          <5>1. Cardinality({v \in counted' : v.day = d}) <= n + 1
            BY <3>10, <4>1 DEF CountedOn
          <5>2. IsFiniteSet({v \in counted' : v.day = d})
            BY <3>8, FS_Subset
          <5>3. Cardinality({v \in counted' : v.day = d}) \in Nat
            BY <5>2, FS_CardinalityType
          <5> QED
            BY <1>0, <3>5, <5>1, <5>3
        <4>2. CASE d # day
          <5>1. {v \in counted' : v.day = d} = CountedOn(d)
            BY <3>3, <3>7, <4>2, OneMoreCounted
          <5> QED
            BY <3>7, <5>1
        <4> QED
          BY <4>1, <4>2
      <3>12. Cardinality({v \in counted' : v.day = usage'.day}) <= usage'.count
        BY <3>5, <3>10 DEF CountedOn
      <3> QED
        BY <2>2, <3>5, <3>8, <3>9, <3>11, <3>12 DEF UsageCounts, CountedOn
    <2> QED
      BY <2>3, <2>4
  <1>2. ASSUME NEW s \in Sends, ReadUsage(s)
        PROVE  UsageCounts'
    <2>1. UNCHANGED <<usage, counted, today>> /\ \A t \in Sends \ {s} : send'[t] = send[t]
      BY <1>2, ReadUsageEffect DEF ReadUsage, kept
    <2>2. send'[s].pc = "counting" =>
            \/ send'[s].seen = <<usage.day, usage.count>>
            \/ send'[s].seen[1] > usage.day /\ send'[s].seen[1] <= today /\ send'[s].seen[2] = 0
      <3>1. CASE usage.day = today
        BY <1>2, <3>1, ReadUsageEffect
      <3>2. CASE usage.day # today
        <4>1. usage.day < today
          BY <1>0, <3>2 DEF UsageCounts
        <4>2. send'[s].pc = "counting" => send'[s].seen = <<today, 0>>
          BY <1>2, <3>2, ReadUsageEffect
        <4> QED
          BY <1>0, <4>1, <4>2
      <3> QED
        BY <3>1, <3>2
    <2> QED
      BY <2>1, <2>2 DEF UsageCounts, CountedOn
  <1>6. ASSUME NEW s \in Sends, UsageFails(s)
        PROVE  UsageCounts'
    <2>1. /\ send[s].pc = "counting" /\ send'[s].pc # "counting" /\ SendBusy(s) /\ today' = today
          /\ \A t \in Sends \ {s} : send'[t] = send[t]
      BY <1>6, SendMoves, UsageFailsEffect DEF SendStep
    <2>2. \A t \in Sends : send'[t].pc # "counting"
      BY <2>1 DEF OneThing, SendBusy
    <2>3. CASE UNCHANGED <<usage, counted>>
      BY <2>1, <2>2, <2>3 DEF UsageCounts, CountedOn
    <2>4. CASE ~UNCHANGED <<usage, counted>>
      <3>1. send[s].seen[1] \in Nat /\ send[s].seen[1] <= today
        <4>1. send[s] \in Sent
          BY DEF Types
        <4>2. send[s].seen \in Nat \X Nat
          BY <4>1, SentFields
        <4> QED
          BY <1>0, <2>1, <4>2 DEF UsageCounts
      <3>2. /\ usage'.day \in {0, send[s].seen[1]} /\ usage'.count \in Nat /\ counted' = {}
        BY <1>6, <2>4 DEF UsageFails
      <3>3. IsFiniteSet({}) /\ Cardinality({}) = 0
        BY FS_EmptySet
      <3>4. \A day : {u \in {} : u.day = day} = {}
        OBVIOUS
      <3>5. \A day : Cardinality({u \in counted' : u.day = day}) = 0
        BY <3>2, <3>3, <3>4
      <3> QED
        BY <1>0, <2>1, <2>2, <3>1, <3>2, <3>3, <3>5 DEF UsageCounts, CountedOn
    <2> QED
      BY <2>3, <2>4
  <1>3. ASSUME NEW s \in Sends, ClickSend(s) \/ SendStep(s), ~WriteUsage(s), ~ReadUsage(s), ~UsageFails(s)
        PROVE  UsageCounts'
    <2>1. UNCHANGED <<usage, counted, today>>
      BY <1>3 DEF ClickSend, SendStep, Begin, SaveRead, SaveWrite, SaveFails, Request, RunTool, Answer, kept
    <2>2. send'[s].pc # "counting" /\ \A t \in Sends \ {s} : send'[t] = send[t]
      BY <1>3, ClickSendEffect, BeginEffect, SaveReadEffect, SaveWriteEffect, SaveFailsEffect, RequestEffect,
         RunToolEffect, AnswerEffect DEF SendStep, After
    <2> QED
      BY <2>1, <2>2 DEF UsageCounts, CountedOn
  <1>4. CASE NextDay
    <2>1. today' = today + 1 /\ UNCHANGED <<usage, counted, send>>
      BY <1>4 DEF NextDay, kept
    <2>2. ASSUME NEW s \in Sends, send[s].pc = "counting",
                 send[s].seen[1] > usage.day, send[s].seen[1] <= today
          PROVE  send[s].seen[1] <= today'
      <3>1. send[s] \in Sent
        BY DEF Types
      <3>2. send[s].seen[1] \in Nat
        BY <3>1, SentFields
      <3> QED
        BY <1>0, <2>1, <2>2, <3>2
    <2>3. usage.day <= today'
      BY <1>0, <2>1 DEF UsageCounts
    <2> QED
      BY <2>1, <2>2, <2>3 DEF UsageCounts, CountedOn
  <1>5. CASE UNCHANGED <<usage, counted, today, send>>
    BY <1>5 DEF UsageCounts, CountedOn
  <1> QED
    BY <1>1, <1>2, <1>3, <1>4, <1>5, <1>6 DEF Next, SendStep, Select, Loaded, ClickClear, ClearRead,
       ClearWrite, ClearFails, Reload, vars, kept

WaitingUser == user.patient => OneThing /\ UsageCounts

-----------------------------------------------------------------------------
(* Where what arrives is rendered.                                           *)

NoClear == \A k \in Clears : clear[k].pc = "new"

\* Until a clear begins, what the view still waits for is of the selected connection.
EpochsMatch ==
    /\ \A l \in loads :
          /\ l.epoch <= screen.epoch
          /\ l.epoch = screen.epoch => l.conn = screen.selected
    /\ \A s \in Sends : SendBusy(s) =>
          /\ send[s].epoch <= screen.epoch
          /\ send[s].epoch = screen.epoch => send[s].conn = screen.selected

\* Each thing that is begun has an epoch of its own.
LEMMA EpochsStep ==
    ASSUME Types, NoClear => EpochsMatch, [Next]_vars
    PROVE  NoClear' => EpochsMatch'
  <1> SUFFICES ASSUME NoClear'
               PROVE  EpochsMatch'
    OBVIOUS
  <1>0. /\ screen \in Views /\ screen.epoch \in Nat
        /\ \A l \in loads : l.epoch \in Nat
        /\ \A s \in Sends : send[s].epoch \in Nat
    <2>1. \A s \in Sends : send[s] \in Sent
      BY DEF Types
    <2> QED
      BY <2>1, SentFields DEF Types, Views
  <1>1. ASSUME NEW k \in Clears, ClickClear(k) \/ ClearRead(k) \/ ClearWrite(k) \/ ClearFails(k) \/ Reload(k)
        PROVE  FALSE
    BY <1>1, ClearEffect DEF NoClear
  <1>2. NoClear
    <2>1. clear' = clear
      BY <1>1 DEF Next, Select, Loaded, NextDay, ClickSend, SendStep, Begin, SaveRead, SaveWrite,
                  SaveFails, ReadUsage, WriteUsage, UsageFails, Request, RunTool, Answer, vars
    <2> QED
      BY <2>1 DEF NoClear
  <1>3. /\ \A l \in loads : l.epoch <= screen.epoch /\ (l.epoch = screen.epoch => l.conn = screen.selected)
        /\ \A s \in Sends : SendBusy(s) =>
              send[s].epoch <= screen.epoch /\ (send[s].epoch = screen.epoch => send[s].conn = screen.selected)
    BY <1>2 DEF EpochsMatch
  <1>4. ASSUME NEW c \in Conns \cup {None}, Select(c)
        PROVE  EpochsMatch'
    <2>1. screen'.epoch = screen.epoch + 1 /\ screen'.selected = c
      <3>1. Loading(screen, c) \in Views /\ Loading(screen, c).epoch = screen.epoch + 1
        BY <1>0, LoadingView
      <3>2. screen' = [Loading(screen, c) EXCEPT !.selected = c]
        BY <1>4 DEF Select
      <3> QED
        BY <3>1, <3>2 DEF Views
    <2>2. send' = send /\ \A l \in loads' :
            l \in loads \/ l = [conn |-> c, epoch |-> screen'.epoch]
      BY <1>4 DEF Select
    <2>3. ASSUME NEW l \in loads'
          PROVE  /\ l.epoch <= screen'.epoch
                 /\ l.epoch = screen'.epoch => l.conn = screen'.selected
      <3>1. CASE l \in loads
        BY <1>0, <1>3, <2>1, <3>1
      <3>2. CASE l = [conn |-> c, epoch |-> screen'.epoch]
        BY <1>0, <2>1, <3>2
      <3> QED
        BY <2>2, <3>1, <3>2
    <2>4. ASSUME NEW s \in Sends, SendBusy(s)
          PROVE  send[s].epoch < screen'.epoch
      BY <1>0, <1>3, <2>1, <2>4
    <2> QED
      BY <1>0, <2>1, <2>2, <2>3, <2>4 DEF EpochsMatch, SendBusy
  <1>5. ASSUME NEW l \in loads, Loaded(l)
        PROVE  EpochsMatch'
    <2>1. /\ loads' \subseteq loads /\ send' = send
          /\ screen'.epoch = screen.epoch /\ screen'.selected = screen.selected
      BY <1>0, <1>5 DEF Loaded, Views
    <2> QED
      BY <1>3, <2>1 DEF EpochsMatch, SendBusy
  <1>6. ASSUME NEW s \in Sends, ClickSend(s)
        PROVE  EpochsMatch'
    <2>1. screen'.epoch = screen.epoch + 1 /\ screen'.selected = screen.selected /\ loads' = loads
      BY <1>0, <1>6 DEF ClickSend, Views
    <2>2. /\ send'[s].conn = screen.selected /\ send'[s].epoch = screen'.epoch
          /\ \A t \in Sends \ {s} : send'[t] = send[t]
      BY <1>6, ClickSendEffect
    <2>3. \A l \in loads : l.epoch < screen'.epoch
      BY <1>0, <1>3, <2>1
    <2>4. \A t \in Sends \ {s} : SendBusy(t) => send[t].epoch < screen'.epoch
      BY <1>0, <1>3, <2>1
    <2> QED
      BY <1>0, <2>1, <2>2, <2>3, <2>4 DEF EpochsMatch, SendBusy
  <1>7. ASSUME NEW s \in Sends, SendStep(s)
        PROVE  EpochsMatch'
    <2>1. SendBusy(s) /\ loads' = loads /\ \A t \in Sends \ {s} : send'[t] = send[t]
      BY <1>7, SendMoves
    <2>2. send'[s].pc = "done" \/ (send'[s].conn = send[s].conn /\ send'[s].epoch = send[s].epoch)
      BY <1>7, BeginEffect, SaveReadEffect, SaveWriteEffect, SaveFailsEffect, ReadUsageEffect, WriteUsageEffect, UsageFailsEffect,
         RequestEffect, RunToolEffect, AnswerEffect DEF SendStep
    <2>3. screen'.epoch = screen.epoch /\ screen'.selected = screen.selected
      <3>1. CASE Answer(s)
        BY <1>0, <3>1 DEF Answer, Views
      <3>2. CASE ~Answer(s)
        BY <1>7, <3>2 DEF SendStep, Begin, SaveRead, SaveWrite, SaveFails, ReadUsage, WriteUsage, UsageFails,
       Request, RunTool
      <3> QED
        BY <3>1, <3>2
    <2> QED
      BY <1>3, <2>1, <2>2, <2>3 DEF EpochsMatch, SendBusy
  <1>8. CASE UNCHANGED <<loads, send, screen>>
    BY <1>3, <1>8 DEF EpochsMatch, SendBusy
  <1> QED
    BY <1>1, <1>4, <1>5, <1>6, <1>7, <1>8 DEF Next, NextDay, vars

\* What is rendered was waited for, or the view becomes empty.
LEMMA RenderStep ==
    ASSUME Types, Aimed, EpochsMatch, NoClear, [Next]_vars, screen'.shown \notin {screen.shown, None}
    PROVE  screen'.shown = screen.selected
  <1>0. screen \in Views
    BY DEF Types
  <1>1. ASSUME NEW c \in Conns \cup {None}, Select(c)
        PROVE  FALSE
    <2>1. Loading(screen, c) \in Views /\ Loading(screen, c).shown \in {screen.shown, None}
      BY <1>0, LoadingView
    <2>2. screen'.shown = Loading(screen, c).shown
      BY <1>1, <2>1 DEF Select, Views
    <2> QED
      BY <2>1, <2>2
  <1>2. ASSUME NEW l \in loads, Loaded(l)
        PROVE  screen'.shown = screen.selected
    <2>1. l.epoch = screen.epoch /\ screen' = [screen EXCEPT !.shown = l.conn]
      BY <1>2 DEF Loaded
    <2> QED
      BY <1>0, <2>1 DEF EpochsMatch, Views
  <1>3. ASSUME NEW s \in Sends, Answer(s)
        PROVE  screen'.shown = screen.selected
    <2>1. SendBusy(s)
      BY <1>3 DEF Answer, SendBusy
    <2>2. PICK shown : shown = IF send[s].pc = "answer" THEN send[s].conn ELSE screen.shown
      OBVIOUS
    <2>3. send[s].epoch = screen.epoch /\ screen' = [screen EXCEPT !.ready = TRUE, !.shown = shown]
      BY <1>3, <2>2 DEF Answer
    <2>4. screen'.shown = shown
      BY <1>0, <2>3 DEF Views
    <2> QED
      BY <2>1, <2>2, <2>3, <2>4 DEF EpochsMatch
  <1>4. ASSUME NEW s \in Sends, ClickSend(s)
        PROVE  FALSE
    BY <1>0, <1>4 DEF ClickSend, Views
  <1>5. ASSUME NEW k \in Clears, Reload(k)
        PROVE  FALSE
    BY <1>5 DEF Reload, NoClear
  <1> QED
    BY <1>1, <1>2, <1>3, <1>4, <1>5 DEF Next, SendStep, NextDay, Begin, SaveRead, SaveWrite, SaveFails,
       ReadUsage, WriteUsage, UsageFails, Request, RunTool, ClickClear, ClearRead, ClearWrite, ClearFails, vars

-----------------------------------------------------------------------------
\* The inductive invariant.
IInv == Types /\ Aimed /\ CopiesFine /\ WaitingUser /\ (NoClear => EpochsMatch)

LEMMA InitHolds ==
    ASSUME Init
    PROVE  IInv
  <1>0. <<>> \in Seq(Messages) /\ <<0, 0>> \in Nat \X Nat
    OBVIOUS
  <1>1. NoChats \in Histories
    BY <1>0 DEF NoChats, Histories
  <1>2. NewSend \in Sent
    BY <1>0 DEF NewSend, Sent, Phases
  <1>3. Types
    <2>1. [pc |-> "new", conn |-> None, file |-> NoChats] \in Cleared
      BY <1>1 DEF Cleared
    <2> QED
      BY <1>1, <1>2, <2>1 DEF Init, Types, Views
  <1>4. /\ \A s \in Sends : /\ send[s] = NewSend /\ send[s].pc = "new"
                            /\ send[s].history = <<>> /\ send[s].conn = None
        /\ \A k \in Clears : clear[k].pc = "new" /\ clear[k].file = NoChats
        /\ chats = NoChats /\ loads = {} /\ counted = {}
    BY DEF Init, NewSend
  <1>5. Aimed
    BY <1>4 DEF Aimed
  <1>6. CopiesFine
    <2>1. \A c \in Conns : NoChats[c] = <<>>
      BY DEF NoChats
    <2> QED
      BY <1>4, <2>1, NothingIsFine DEF CopiesFine
  <1>7. OneThing
    BY <1>4 DEF OneThing, SendBusy, ClearBusy
  <1>8. UsageCounts
    <2>1. IsFiniteSet({}) /\ Cardinality({}) = 0
      BY FS_EmptySet
    <2>2. \A day : Cardinality(CountedOn(day)) = 0
      <3>1. \A day : CountedOn(day) = {}
        BY <1>4 DEF CountedOn
      <3> QED
        BY <2>1, <3>1
    <2>3. Limit \in Nat /\ usage.day = 0 /\ usage.count = 0 /\ today = 0
      BY ChatAssumption DEF Init
    <2>4. Cardinality(CountedOn(usage.day)) <= usage.count /\ usage.day <= today
      BY <2>2, <2>3
    <2>5. \A day \in Nat : Cardinality(CountedOn(day)) <= Limit
      BY <2>2, <2>3
    <2> QED
      BY <1>4, <2>1, <2>4, <2>5 DEF UsageCounts
  <1>9. EpochsMatch
    BY <1>4 DEF EpochsMatch, SendBusy
  <1> QED
    BY <1>3, <1>5, <1>6, <1>7, <1>8, <1>9 DEF IInv, WaitingUser

LEMMA IInvStep ==
    ASSUME IInv, [Next]_vars
    PROVE  IInv'
  <1>1. Types' /\ Aimed' /\ CopiesFine' /\ (NoClear' => EpochsMatch')
    BY TypesStep, CopiesStep, EpochsStep DEF IInv
  <1>2. user' = user
    BY DEF Next, Select, Loaded, ClickSend, SendStep, Begin, SaveRead, SaveWrite, SaveFails,
           ReadUsage, WriteUsage, UsageFails,
           Request, RunTool, Answer, ClickClear, ClearRead, ClearWrite, ClearFails, Reload, NextDay, vars, kept
  <1>3. WaitingUser'
    <2>1. ASSUME user.patient
          PROVE  OneThing' /\ UsageCounts'
      BY <2>1, OneThingStep, UsageStep DEF IInv, WaitingUser
    <2> QED
      BY <1>2, <2>1 DEF WaitingUser
  <1> QED
    BY <1>1, <1>3 DEF IInv

LEMMA InvariantHolds == Spec => []IInv
  BY InitHolds, IInvStep, PTL DEF Spec

\* assistant.rs: however messages and clears overlap, on any number of
\* connections, no reply or tool result is in a conversation without its question.
THEOREM AnswersCorrect == Spec => []AnswersFollowQuestions
  <1>1. IInv => AnswersFollowQuestions
    BY DEF IInv, CopiesFine, Fine, Answered, AnswersFollowQuestions
  <1> QED
    BY <1>1, InvariantHolds, PTL

\* consume_ai_usage: from one torn counter to the next no more messages of a
\* day than the limit go to a provider, for any limit, when the user waits.
THEOREM LimitKept == Spec => []DailyLimit
  <1>1. IInv => DailyLimit
    <2> SUFFICES ASSUME IInv, user.patient, NEW day \in 0..user.days
                 PROVE  Cardinality({u \in counted : u.day = day}) <= Limit
      BY DEF DailyLimit
    <2>1. day \in Nat
      BY ChatAssumption DEF IInv, Types
    <2> QED
      BY <2>1 DEF IInv, WaitingUser, UsageCounts, CountedOn
  <1> QED
    BY <1>1, InvariantHolds, PTL

\* save_ai_history and clear_ai_history write the conversations of all
\* connections: whatever overlaps and fails, no message of one gets into the
\* stored conversation of another, or to a provider with it.
THEOREM ConversationsIndependent == Spec => []ConversationsAreIndependent
  <1>1. IInv => ConversationsAreIndependent
    BY DEF IInv, CopiesFine, Fine, Owned, ConversationsAreIndependent
  <1> QED
    BY <1>1, InvariantHolds, PTL

\* loadAssistant and the send button's handler: until a clear begins, what is
\* rendered is of the connection that is selected, in whatever order it arrives.
THEOREM AnswersLand == Spec => AnswersLandWhereAsked
  <1>1. IInv /\ [Next]_vars =>
          [(\A k \in Clears : clear[k].pc = "new") /\ screen'.shown \notin {screen.shown, None}
             => screen'.shown = screen.selected]_vars
    BY RenderStep DEF IInv, NoClear
  <1> QED
    BY <1>1, InvariantHolds, PTL DEF Spec, AnswersLandWhereAsked
=============================================================================
