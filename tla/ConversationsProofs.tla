------------------------- MODULE ConversationsProofs -------------------------
(***************************************************************************)
(* Why a conversation's file keeps what it is given, for any number of     *)
(* connections, messages and faults: nothing is passed on that was not     *)
(* stored, no answer is stored without its question, and a line that is    *)
(* lost is one whose append met another's.                                 *)
(***************************************************************************)
EXTENDS Conversations, SequenceTheorems, TLAPS

-----------------------------------------------------------------------------
(* Where the two tasks stand, and what the two sides send.                *)
MainSteps == {"none", "connect", "take", "line", "newline", "send",
              "collect", "collected", "reply", "ask", "stream", "over"}
ForwardSteps == {"off", "take", "line", "newline", "send", "over"}
ClientTexts == Conns \X {"user", "verbatim", "control"} \X Nat
AgentEvents == Conns \X {"delta", "agent", "mute"} \X Nat

(* Every variable has its type, the queues of both sides included.         *)
TasksTyped ==
    /\ main \in [Conns -> MainSteps]
    /\ held \in [Conns -> Messages \cup {NoMessage}]
    /\ forward \in [Conns -> ForwardSteps]
    /\ carried \in [Conns -> AgentEvents \cup {NoMessage}]
    /\ link \in [Conns -> {"up", "stuck", "closed"}]
    /\ aborting \subseteq {c \in Conns : forward[c] \in {"line", "newline"}}
InputsTyped ==
    /\ clientHere \in [Conns -> BOOLEAN]
    /\ fromClient \in [Conns -> Seq(ClientTexts \cup {Close})]
    /\ fromAgent \in [Conns -> Seq(AgentEvents)]
    /\ sent \in [Conns -> Nat]
    /\ emitted \in [Conns -> Nat]
FileTyped == file \in Seq(Entries)

(* What the file has, or would have but for an error; an answer whose      *)
(* question is there.                                                      *)
Recorded == skipped \cup {file[j] : j \in DOMAIN file}
Asked(a) == \E q \in Recorded : IsQuestion(q) /\ AnswerTo(q) = a

(* What a handler has in hand at each of its steps: what it sends in a     *)
(* chat, or asks, is recorded; an answer it stores has its question there. *)
MainOK(c) ==
    /\ main[c] = "none" => held[c] = NoMessage
    /\ main[c] = "connect" =>
          \/ kind \in {"chat", "proxy", "terminal"} /\ held[c] = NoMessage
          \/ kind \in {"team", "send"} /\ IsQuestion(held[c])
    /\ main[c] \in {"line", "newline"} =>
          \/ kind \in {"chat", "direct", "team", "send"} /\ IsQuestion(held[c])
          \/ kind \in {"direct", "team", "send"} /\ IsAnswer(held[c]) /\ Asked(held[c])
    /\ main[c] = "newline" => held[c] \in Recorded
    /\ main[c] = "send" =>
          \/ /\ kind = "chat" /\ held[c] \in ClientTexts
             /\ IsQuestion(held[c]) => held[c] \in Recorded
          \/ kind \in {"proxy", "terminal"} /\ held[c] \in Messages
          \/ kind \in {"team", "send"} /\ IsQuestion(held[c])
    /\ main[c] \in {"collect", "collected"} =>
          kind \in {"team", "send"} /\ IsQuestion(held[c])
    /\ main[c] = "reply" => kind = "team" /\ held[c] \in Messages
    /\ main[c] \in {"ask", "stream"} =>
          kind = "direct" /\ IsQuestion(held[c]) /\ held[c] \in Recorded

(* The same for the forwarding task; it starts with its connection.        *)
ForwardOK(c) ==
    /\ forward[c] \in {"take", "send"} => kind \in {"chat", "proxy"}
    /\ forward[c] \in {"line", "newline"} => kind = "chat"
    /\ forward[c] \in {"line", "newline", "send"} => carried[c] \in AgentEvents
    /\ forward[c] = "newline" => carried[c] \in Recorded
    /\ kind = "chat" /\ forward[c] = "send" /\ IsAnswer(carried[c]) => carried[c] \in Recorded
    /\ kind = "chat" /\ main[c] \in {"none", "connect"} => forward[c] = "off"

Tasks == \A c \in Conns : MainOK(c) /\ ForwardOK(c)

(* StoredIsLoaded line by line, and what makes it inductive: a line still  *)
(* without its newline is somebody's who is about to write it, or was torn. *)
Lines ==
    \A i \in DOMAIN file :
        file[i] \in Messages \ damaged =>
            /\ i > 1 => file[i - 1] = Newline
            /\ i < Len(file) => file[i + 1] = Newline
OpenEnd ==
    file # <<>> /\ file[Len(file)] # Newline =>
        /\ Unfinished # {}
        /\ file[Len(file)] \in Messages => file[Len(file)] \in Unfinished

(* HistoryBeforeDelivery, in these words.                                  *)
Told ==
    kind = "chat" =>
        \A m \in reached \cup shown : IsQuestion(m) \/ IsAnswer(m) => m \in Recorded

Stored == FileTyped /\ Lines /\ OpenEnd /\ AnswersFollowQuestions
Inv == kind \in Kinds /\ TasksTyped /\ InputsTyped /\ Tasks /\ Stored /\ Told

-----------------------------------------------------------------------------
(* The messages, and what is none.                                         *)
LEMMA Sentinels ==
    /\ NoMessage \notin Messages /\ Newline \notin Messages /\ Close \notin Messages
    /\ NoMessage # Newline /\ Newline # Close
    /\ Part \notin Messages /\ Broken \notin Messages
    /\ Part # Newline /\ Broken # Newline
  <1>1. \A m \in Messages : DOMAIN m = 1 .. 3
    BY DEF Messages
  <1>2. /\ DOMAIN NoMessage = 1 .. 1 /\ DOMAIN Newline = 1 .. 1 /\ DOMAIN Close = 1 .. 1
        /\ DOMAIN Part = 1 .. 1 /\ DOMAIN Broken = 1 .. 1
    BY DEF NoMessage, Newline, Close, Part, Broken
  <1>3. 1 .. 1 # 1 .. 3
    <2>1. 3 \in 1 .. 3 /\ 3 \notin 1 .. 1
      OBVIOUS
    <2> QED
      BY <2>1
  <1>4. NoMessage # Newline /\ Newline # Close /\ Part # Newline /\ Broken # Newline
    BY DEF NoMessage, Newline, Close, Part, Broken
  <1> QED
    BY <1>1, <1>2, <1>3, <1>4

LEMMA Sides ==
    /\ AgentEvents \subseteq Messages /\ ClientTexts \subseteq Messages
    /\ \A m \in AgentEvents : ~IsQuestion(m)
    /\ \A m \in ClientTexts : ~IsAnswer(m)
    /\ \A m : IsQuestion(m) => m \in Messages /\ ~IsAnswer(m)
    /\ \A m : IsAnswer(m) => m \in Messages /\ ~IsQuestion(m)
    /\ \A m : IsQuestion(m) => IsAnswer(AnswerTo(m))
  <1>1. AgentEvents \subseteq Messages /\ ClientTexts \subseteq Messages
    BY DEF AgentEvents, ClientTexts, Messages, Roles
  <1>2. \A m \in AgentEvents : ~IsQuestion(m)
    BY DEF AgentEvents, IsQuestion
  <1>3. \A m \in ClientTexts : ~IsAnswer(m)
    BY DEF ClientTexts, IsAnswer
  <1>4. \A m : IsQuestion(m) => m \in Messages /\ ~IsAnswer(m)
    BY DEF IsQuestion, IsAnswer
  <1>5. \A m : IsAnswer(m) => m \in Messages /\ ~IsQuestion(m)
    BY DEF IsQuestion, IsAnswer
  <1>6. \A m : IsQuestion(m) => IsAnswer(AnswerTo(m))
    BY DEF IsQuestion, IsAnswer, AnswerTo, Messages, Roles
  <1> QED
    BY <1>1, <1>2, <1>3, <1>4, <1>5, <1>6

-----------------------------------------------------------------------------
(* What a step of one connection's tasks leaves of the others', and of the *)
(* appends that are half done.                                             *)
OthersKept(c) ==
    \A d \in Conns \ {c} :
        /\ main'[d] = main[d] /\ held'[d] = held[d]
        /\ forward'[d] = forward[d] /\ carried'[d] = carried[d]
MainKept(c) == main'[c] = main[c] /\ held'[c] = held[c]
ForwardKept(c) == forward'[c] = forward[c] /\ carried'[c] = carried[c]
HalvesKept(c) ==
    /\ main[c] = "newline" => MainKept(c)
    /\ forward[c] = "newline" => ForwardKept(c)

LEMMA StepShape ==
    ASSUME TasksTyped, NEW c \in Conns, NEW next \in MainSteps, Step(c, next)
    PROVE  /\ TasksTyped' /\ OthersKept(c) /\ ForwardKept(c)
           /\ main'[c] = next /\ held'[c] = held[c]
  BY DEF Step, Set, TasksTyped, OthersKept, ForwardKept

LEMMA HoldShape ==
    ASSUME TasksTyped, NEW c \in Conns, NEW next \in MainSteps,
           NEW m \in Messages \cup {NoMessage}, Hold(c, m, next)
    PROVE  /\ TasksTyped' /\ OthersKept(c) /\ ForwardKept(c)
           /\ main'[c] = next /\ held'[c] = m
  BY DEF Hold, Set, TasksTyped, OthersKept, ForwardKept

LEMMA EndExchangeShape ==
    ASSUME TasksTyped, NEW c \in Conns, NEW next \in MainSteps, EndExchange(c, next)
    PROVE  /\ TasksTyped' /\ OthersKept(c) /\ ForwardKept(c)
           /\ main'[c] = next /\ held'[c] = held[c]
  BY DEF EndExchange, Set, TasksTyped, OthersKept, ForwardKept

LEMMA EndShape ==
    ASSUME TasksTyped, NEW c \in Conns, End(c)
    PROVE  /\ TasksTyped' /\ OthersKept(c)
           /\ main'[c] = "over" /\ held'[c] = NoMessage
           /\ ForwardKept(c) \/ (forward[c] \notin {"line", "newline"} /\ forward'[c] = "over")
  BY DEF End, Set, TasksTyped, OthersKept, ForwardKept, MainSteps, ForwardSteps

LEMMA CarryShape ==
    ASSUME TasksTyped, NEW c \in Conns, NEW next \in ForwardSteps,
           NEW m \in AgentEvents \cup {NoMessage}, Carry(c, m, next), UNCHANGED <<main, held>>,
           c \in aborting => next \in {"line", "newline"}
    PROVE  /\ TasksTyped' /\ OthersKept(c) /\ MainKept(c)
           /\ forward'[c] = next /\ carried'[c] = m
  BY DEF Carry, Set, TasksTyped, OthersKept, MainKept

LEMMA EndForwardShape ==
    ASSUME TasksTyped, NEW c \in Conns, EndForward(c), UNCHANGED <<main, held>>
    PROVE  /\ TasksTyped' /\ OthersKept(c) /\ MainKept(c) /\ forward'[c] = "over"
  BY DEF EndForward, Set, TasksTyped, OthersKept, MainKept, ForwardSteps

-----------------------------------------------------------------------------
(* The file: what each of the writes makes of it.                          *)

(* The records only grow, and so the other connections stay as they were.  *)
LEMMA OthersStay ==
    ASSUME Tasks, NEW c \in Conns, kind' = kind, OthersKept(c),
           Recorded \subseteq Recorded', MainOK(c)', ForwardOK(c)'
    PROVE  Tasks'
  <1> SUFFICES ASSUME NEW d \in Conns \ {c} PROVE MainOK(d)' /\ ForwardOK(d)'
    BY DEF Tasks
  <1>1. MainOK(d) /\ ForwardOK(d)
    BY DEF Tasks
  <1>2. \A a : Asked(a) => Asked(a)'
    BY DEF Asked
  <1>3. MainOK(d)'
    BY <1>1, <1>2 DEF MainOK, OthersKept
  <1>4. ForwardOK(d)'
    BY <1>1 DEF ForwardOK, OthersKept
  <1> QED
    BY <1>3, <1>4

LEMMA HalvesStay ==
    ASSUME NEW c \in Conns, OthersKept(c), HalvesKept(c), torn \subseteq torn'
    PROVE  Unfinished \subseteq Unfinished'
  BY DEF OthersKept, HalvesKept, MainKept, ForwardKept, Unfinished

LEMMA NothingWritten ==
    ASSUME Stored, file' = file, damaged' = damaged, kind' = kind,
           skipped \subseteq skipped', Unfinished \subseteq Unfinished'
    PROVE  Stored' /\ Recorded \subseteq Recorded'
  <1>1. FileTyped' /\ Lines' /\ OpenEnd'
    BY DEF Stored, FileTyped, Lines, OpenEnd
  <1>2. AnswersFollowQuestions'
    BY DEF Stored, AnswersFollowQuestions
  <1>3. Recorded \subseteq Recorded'
    BY DEF Recorded
  <1> QED
    BY <1>1, <1>2, <1>3 DEF Stored

LEMMA Extended ==
    ASSUME Stored, NEW m \in Messages, NEW e \in {m, Part, Broken}, Write(m, e),
           kind' = kind, skipped \subseteq skipped',
           Unfinished' # {}, e \in Messages => e \in Unfinished',
           e = m /\ kind \in {"direct", "team", "send"} /\ IsAnswer(m) => Asked(m)
    PROVE  Stored' /\ Recorded \subseteq Recorded' /\ (e = m => m \in Recorded')
  <1>1. /\ file \in Seq(Entries) /\ file' = Append(file, e) /\ damaged \subseteq damaged'
    BY DEF Stored, FileTyped, Write, Written
  <1>2. e \in Entries /\ (e \in Messages => e = m)
    BY Sentinels DEF Entries
  <1>3. /\ FileTyped' /\ Len(file') = Len(file) + 1 /\ Len(file) \in Nat
        /\ DOMAIN file = 1 .. Len(file) /\ DOMAIN file' = 1 .. Len(file')
        /\ file'[Len(file')] = e
        /\ \A i \in DOMAIN file : file'[i] = file[i]
    BY <1>1, <1>2 DEF FileTyped
  <1> HIDE <1>1
  <1>4. Unfinished # {} => m \in damaged' /\ Unfinished \subseteq damaged'
    BY DEF Write
  <1>5. OpenEnd'
    BY <1>3 DEF OpenEnd
  <1>6. Lines'
    <2> SUFFICES ASSUME NEW i \in DOMAIN file', file'[i] \in Messages \ damaged'
                 PROVE  /\ i > 1 => file'[i - 1] = Newline
                        /\ i < Len(file') => file'[i + 1] = Newline
      BY DEF Lines
    <2>1. CASE i = Len(file')
      <3>1. Unfinished = {}
        BY <2>1, <1>2, <1>3, <1>4
      <3>2. file # <<>> => file[Len(file)] = Newline
        BY <3>1 DEF Stored, OpenEnd
      <3>3. i > 1 => file # <<>> /\ Len(file) \in DOMAIN file /\ i - 1 = Len(file)
        BY <2>1, <1>3
      <3> QED
        BY <3>2, <3>3, <2>1, <1>3
    <2>2. CASE i \in DOMAIN file
      <3>1. file[i] \in Messages \ damaged
        BY <2>2, <1>1, <1>3
      <3>2. /\ i > 1 => file[i - 1] = Newline
            /\ i < Len(file) => file[i + 1] = Newline
        BY <3>1, <2>2 DEF Stored, Lines
      <3>3. i # Len(file)
        <4> SUFFICES ASSUME i = Len(file) PROVE FALSE
          OBVIOUS
        <4>1. file # <<>>
          BY <2>2, <1>3
        <4>2. file[i] \in Unfinished
          BY <3>1, <4>1, Sentinels DEF Stored, OpenEnd
        <4> QED
          BY <4>2, <1>4, <1>3, <2>2
      <3> QED
        BY <3>2, <3>3, <2>2, <1>3
    <2> QED
      BY <2>1, <2>2, <1>3
  <1>7. /\ Recorded \subseteq Recorded' /\ e \in Recorded'
        /\ Recorded \subseteq skipped' \cup {file'[j] : j \in 1 .. Len(file)}
    BY <1>1, <1>3 DEF Recorded
  <1>8. AnswersFollowQuestions'
    <2> SUFFICES ASSUME kind \in {"direct", "team", "send"},
                        NEW i \in DOMAIN file', IsAnswer(file'[i])
                 PROVE  \E q \in skipped' \cup {file'[j] : j \in 1 .. i - 1} :
                            IsQuestion(q) /\ AnswerTo(q) = file'[i]
      BY DEF AnswersFollowQuestions
    <2>1. CASE i = Len(file')
      <3>1. Asked(file'[i])
        BY <2>1, <1>2, <1>3, Sides
      <3>2. i - 1 = Len(file)
        BY <2>1, <1>3
      <3> QED
        BY <3>1, <3>2, <1>7 DEF Asked
    <2>2. CASE i \in DOMAIN file
      <3>1. PICK q \in skipped \cup {file[j] : j \in 1 .. i - 1} :
                     IsQuestion(q) /\ AnswerTo(q) = file[i]
        BY <2>2, <1>3 DEF Stored, AnswersFollowQuestions
      <3>2. \A j \in 1 .. i - 1 : j \in DOMAIN file /\ file'[j] = file[j]
        BY <2>2, <1>3
      <3> QED
        BY <3>1, <3>2, <1>1, <1>3, <2>2
    <2> QED
      BY <2>1, <2>2, <1>3
  <1> QED
    BY <1>3, <1>5, <1>6, <1>7, <1>8 DEF Stored

LEMMA FirstHalf ==
    ASSUME Stored, NEW m \in Messages, Append1(m), m \in Unfinished', kind' = kind,
           kind \in {"direct", "team", "send"} /\ IsAnswer(m) => Asked(m)
    PROVE  Stored' /\ Recorded \subseteq Recorded' /\ m \in Recorded'
  BY Extended DEF Append1

(* Part of a message, left by an error or by a crash.                      *)
LEMMA Stump ==
    ASSUME Stored, NEW m \in Messages, CutShort(m), kind' = kind,
           skipped \subseteq skipped'
    PROVE  Stored' /\ Recorded \subseteq Recorded'
  <1>1. PICK e \in {Part, Broken} : Write(m, e)
    BY DEF CutShort
  <1>2. e # m /\ e \notin Messages
    BY Sentinels
  <1>3. Unfinished' # {}
    BY DEF CutShort, Unfinished
  <1> QED
    BY <1>1, <1>2, <1>3, Extended

LEMMA SecondHalf ==
    ASSUME Stored, Append2, kind' = kind
    PROVE  Stored' /\ Recorded \subseteq Recorded'
  <1>1. /\ file \in Seq(Entries) /\ file' = Append(file, Newline)
        /\ damaged' = damaged /\ skipped' = skipped
    BY DEF Stored, FileTyped, Append2
  <1>2. /\ FileTyped' /\ Len(file') = Len(file) + 1 /\ Len(file) \in Nat
        /\ DOMAIN file = 1 .. Len(file) /\ DOMAIN file' = 1 .. Len(file')
        /\ file'[Len(file')] = Newline
        /\ \A i \in DOMAIN file : file'[i] = file[i]
    BY <1>1 DEF FileTyped, Entries
  <1> HIDE <1>1
  <1>3. OpenEnd'
    BY <1>2 DEF OpenEnd
  <1>4. Lines'
    <2> SUFFICES ASSUME NEW i \in DOMAIN file', file'[i] \in Messages \ damaged'
                 PROVE  /\ i > 1 => file'[i - 1] = Newline
                        /\ i < Len(file') => file'[i + 1] = Newline
      BY DEF Lines
    <2>1. i \in DOMAIN file /\ file[i] \in Messages \ damaged
      BY <1>1, <1>2, Sentinels
    <2>2. /\ i > 1 => file[i - 1] = Newline
          /\ i < Len(file) => file[i + 1] = Newline
      BY <2>1 DEF Stored, Lines
    <2> QED
      BY <2>1, <2>2, <1>2
  <1>5. AnswersFollowQuestions'
    <2> SUFFICES ASSUME kind \in {"direct", "team", "send"},
                        NEW i \in DOMAIN file', IsAnswer(file'[i])
                 PROVE  \E q \in skipped' \cup {file'[j] : j \in 1 .. i - 1} :
                            IsQuestion(q) /\ AnswerTo(q) = file'[i]
      BY DEF AnswersFollowQuestions
    <2>1. i \in DOMAIN file
      BY <1>2, Sentinels, Sides
    <2>2. PICK q \in skipped \cup {file[j] : j \in 1 .. i - 1} :
                   IsQuestion(q) /\ AnswerTo(q) = file[i]
      BY <2>1, <1>2 DEF Stored, AnswersFollowQuestions
    <2>3. \A j \in 1 .. i - 1 : j \in DOMAIN file /\ file'[j] = file[j]
      BY <2>1, <1>2
    <2> QED
      BY <2>1, <2>2, <2>3, <1>1, <1>2
  <1>6. Recorded \subseteq Recorded'
    BY <1>1, <1>2 DEF Recorded
  <1> QED
    BY <1>2, <1>3, <1>4, <1>5, <1>6 DEF Stored

LEMMA NoHalf ==
    ASSUME Stored, NEW m \in Messages, AppendFails(m), kind' = kind,
           torn' = torn => Unfinished \subseteq Unfinished'
    PROVE  Stored' /\ Recorded \subseteq Recorded' /\ m \in Recorded'
  <1>1. skipped \subseteq skipped' /\ m \in skipped'
    BY DEF AppendFails
  <1>2. CASE CutShort(m)
    BY <1>1, <1>2, Stump DEF Recorded
  <1>3. CASE UNCHANGED <<file, torn, damaged>>
    BY <1>1, <1>3, NothingWritten DEF Recorded
  <1> QED
    BY <1>2, <1>3 DEF AppendFails

LEMMA FailedRecorded ==
    ASSUME Stored, NEW m \in Messages, AppendFails(m)
    PROVE  Recorded \subseteq Recorded' /\ m \in Recorded'
  <1>1. file' = file \/ \E e \in Entries : file' = Append(file, e)
    BY DEF AppendFails, CutShort, Write, Written, Entries
  <1>2. \A j \in DOMAIN file : j \in DOMAIN file' /\ file'[j] = file[j]
    BY <1>1 DEF Stored, FileTyped
  <1>3. skipped' = skipped \cup {m}
    BY DEF AppendFails
  <1> QED
    BY <1>2, <1>3 DEF Recorded

LEMMA NoNewline ==
    ASSUME Stored, NEW m, NewlineFails(m), kind' = kind, Unfinished \subseteq Unfinished'
    PROVE  Stored' /\ Recorded \subseteq Recorded'
  BY NothingWritten DEF NewlineFails

-----------------------------------------------------------------------------
(* A step of one connection that writes nothing.                           *)
LEMMA Quiet ==
    ASSUME Inv, NEW c \in Conns, kind' = kind, UNCHANGED storage,
           TasksTyped', InputsTyped', OthersKept(c), HalvesKept(c),
           MainOK(c)', ForwardOK(c)',
           \A m \in (reached' \cup shown') \ (reached \cup shown) :
               kind = "chat" /\ (IsQuestion(m) \/ IsAnswer(m)) => m \in Recorded
    PROVE  Inv'
  <1>1. UNCHANGED <<file, torn, damaged, skipped>>
    BY DEF storage
  <1>2. Unfinished \subseteq Unfinished'
    BY <1>1, HalvesStay
  <1>3. Stored' /\ Recorded \subseteq Recorded'
    BY <1>1, <1>2, NothingWritten DEF Inv
  <1>4. Tasks'
    BY <1>3, OthersStay DEF Inv
  <1>5. Told'
    BY <1>3 DEF Inv, Told
  <1> QED
    BY <1>3, <1>4, <1>5 DEF Inv

(* The same of its handler alone, and of its end.                          *)
LEMMA QuietMain ==
    ASSUME Inv, NEW c \in Conns, kind' = kind, UNCHANGED storage,
           TasksTyped', InputsTyped', OthersKept(c), ForwardKept(c), main[c] # "newline",
           main'[c] \notin {"none", "newline"}, main'[c] = "connect" => kind # "chat" \/ main[c] = "none",
           Recorded' = Recorded => MainOK(c)',
           \A m \in (reached' \cup shown') \ (reached \cup shown) :
               kind = "chat" /\ (IsQuestion(m) \/ IsAnswer(m)) => m \in Recorded
    PROVE  Inv'
  <1>1. Recorded' = Recorded
    BY DEF Recorded, storage
  <1>2. ForwardOK(c)'
    BY <1>1 DEF Inv, Tasks, ForwardOK, ForwardKept
  <1>3. HalvesKept(c)
    BY DEF HalvesKept
  <1> QED
    BY <1>1, <1>2, <1>3, Quiet

LEMMA QuietEnd ==
    ASSUME Inv, NEW c \in Conns, kind' = kind, UNCHANGED storage, End(c),
           main[c] # "newline", InputsTyped',
           \A m \in (reached' \cup shown') \ (reached \cup shown) :
               kind = "chat" /\ (IsQuestion(m) \/ IsAnswer(m)) => m \in Recorded
    PROVE  Inv'
  <1>1. /\ TasksTyped' /\ OthersKept(c)
        /\ main'[c] = "over" /\ held'[c] = NoMessage
        /\ ForwardKept(c) \/ (forward[c] \notin {"line", "newline"} /\ forward'[c] = "over")
    BY EndShape DEF Inv
  <1>2. Recorded' = Recorded
    BY DEF Recorded, storage
  <1>3. MainOK(c)'
    BY <1>1 DEF MainOK
  <1>4. ForwardOK(c)'
    BY <1>1, <1>2 DEF Inv, Tasks, ForwardOK, ForwardKept
  <1>5. HalvesKept(c)
    BY <1>1 DEF HalvesKept
  <1> QED
    BY <1>1, <1>3, <1>4, <1>5, Quiet

LEMMA QuietForward ==
    ASSUME Inv, NEW c \in Conns, kind' = kind, UNCHANGED storage,
           TasksTyped', InputsTyped', OthersKept(c), MainKept(c), forward[c] # "newline",
           Recorded' = Recorded => ForwardOK(c)',
           \A m \in (reached' \cup shown') \ (reached \cup shown) :
               kind = "chat" /\ (IsQuestion(m) \/ IsAnswer(m)) => m \in Recorded
    PROVE  Inv'
  <1>1. Recorded' = Recorded
    BY DEF Recorded, storage
  <1>2. MainOK(c)'
    BY <1>1 DEF Inv, Tasks, MainOK, MainKept, Asked
  <1>3. HalvesKept(c)
    BY DEF HalvesKept
  <1> QED
    BY <1>1, <1>2, <1>3, Quiet

-----------------------------------------------------------------------------
(* The actions.                                                            *)
LEMMA OpenInv == ASSUME Inv, NEW c \in Conns, Open(c) PROVE Inv'
  <1>1. main[c] = "none" /\ kind' = kind /\ UNCHANGED storage /\ UNCHANGED outputs
    BY DEF Open
  <1>2. InputsTyped'
    BY DEF Open, Inv, InputsTyped, Set
  <1>3. held[c] = NoMessage /\ TasksTyped /\ MainOK(c)
    BY <1>1 DEF Inv, Tasks, MainOK
  <1>4. \A m \in (reached' \cup shown') \ (reached \cup shown) :
            kind = "chat" /\ (IsQuestion(m) \/ IsAnswer(m)) => m \in Recorded
    BY <1>1 DEF outputs
  <1>5. CASE End(c)
    BY <1>1, <1>2, <1>4, <1>5, QuietEnd
  <1>6. CASE kind \in {"chat", "proxy", "terminal"} /\ Step(c, "connect")
    <2>1. /\ TasksTyped' /\ OthersKept(c) /\ ForwardKept(c)
          /\ main'[c] = "connect" /\ held'[c] = held[c]
      BY <1>3, <1>6, StepShape DEF MainSteps
    <2>2. MainOK(c)'
      BY <2>1, <1>1, <1>3, <1>6 DEF MainOK
    <2> QED
      BY <2>1, <2>2, <1>1, <1>2, <1>4, QuietMain
  <1>7. CASE Step(c, "take")
    <2>1. /\ TasksTyped' /\ OthersKept(c) /\ ForwardKept(c)
          /\ main'[c] = "take" /\ held'[c] = held[c]
      BY <1>3, <1>7, StepShape DEF MainSteps
    <2>2. MainOK(c)'
      BY <2>1 DEF MainOK
    <2> QED
      BY <2>1, <2>2, <1>1, <1>2, <1>4, QuietMain
  <1>8. CASE kind = "send" /\ Hold(c, <<c, "user", 1>>, "connect")
    <2>1. IsQuestion(<<c, "user", 1>>) /\ <<c, "user", 1>> \in Messages
      BY DEF IsQuestion, Messages, Roles
    <2>2. /\ TasksTyped' /\ OthersKept(c) /\ ForwardKept(c)
          /\ main'[c] = "connect" /\ held'[c] = <<c, "user", 1>>
      BY <1>3, <1>8, <2>1, HoldShape DEF MainSteps
    <2>3. MainOK(c)'
      BY <2>1, <2>2, <1>1, <1>8 DEF MainOK
    <2> QED
      BY <2>2, <2>3, <1>1, <1>2, <1>4, <1>8, QuietMain
  <1> QED
    BY <1>5, <1>6, <1>7, <1>8
       DEF Open, OpenChat, OpenProxy, OpenTerminal, OpenDirect, OpenTeam, OpenSend

LEMMA ConnectInv == ASSUME Inv, NEW c \in Conns, Connect(c) PROVE Inv'
  <1>1. main[c] = "connect" /\ kind' = kind /\ UNCHANGED storage /\ UNCHANGED outputs
    BY DEF Connect
  <1>2. InputsTyped'
    <2>1. <<>> \in Seq(AgentEvents)
      OBVIOUS
    <2> QED
      BY <2>1 DEF Connect, Inv, InputsTyped, Set
  <1>3. TasksTyped /\ MainOK(c) /\ ForwardOK(c)
    BY DEF Inv, Tasks
  <1>4. \A m \in (reached' \cup shown') \ (reached \cup shown) :
            kind = "chat" /\ (IsQuestion(m) \/ IsAnswer(m)) => m \in Recorded
    BY <1>1 DEF outputs
  <1>5. CASE End(c)
    BY <1>1, <1>2, <1>4, <1>5, QuietEnd
  <1>6. CASE kind = "team" /\ Step(c, "reply")
    <2>1. /\ TasksTyped' /\ OthersKept(c) /\ ForwardKept(c)
          /\ main'[c] = "reply" /\ held'[c] = held[c]
      BY <1>3, <1>6, StepShape DEF MainSteps
    <2>2. MainOK(c)'
      BY <2>1, <1>1, <1>3, <1>6, Sides DEF MainOK
    <2> QED
      BY <2>1, <2>2, <1>1, <1>2, <1>4, QuietMain
  <1>7. CASE Connected(c)
    <2>1. /\ TasksTyped' /\ OthersKept(c) /\ held' = held /\ carried' = carried
          /\ main'[c] = IF held[c] = NoMessage THEN "take" ELSE "send"
          /\ forward'[c] = IF kind \in {"chat", "proxy"} THEN "take" ELSE forward[c]
      BY <1>1, <1>3, <1>7
         DEF Connected, Set, TasksTyped, OthersKept, MainSteps, ForwardSteps, ForwardOK
    <2>2. Recorded' = Recorded
      BY <1>1 DEF Recorded, storage
    <2>3. MainOK(c)'
      BY <2>1, <1>1, <1>3, Sides, Sentinels DEF MainOK
    <2>4. ForwardOK(c)'
      BY <2>1, <2>2, <1>1, <1>3 DEF ForwardOK
    <2>5. HalvesKept(c)
      BY <2>1, <1>1, <1>3 DEF HalvesKept, ForwardKept, ForwardOK
    <2> QED
      BY <2>1, <2>3, <2>4, <2>5, <1>1, <1>2, <1>4, Quiet
  <1> QED
    BY <1>5, <1>6, <1>7 DEF Connect, NotConnected

(* What is taken from a queue and what is left in it.                      *)
LEMMA Taken ==
    ASSUME NEW S, NEW q \in [Conns -> Seq(S)], NEW c \in Conns, q[c] # <<>>
    PROVE  Head(q[c]) \in S /\ Pop(q, c) \in [Conns -> Seq(S)]
  <1>1. q[c] \in Seq(S)
    OBVIOUS
  <1>2. Head(q[c]) \in S /\ Tail(q[c]) \in Seq(S)
    BY <1>1, HeadTailProperties
  <1> QED
    BY <1>2 DEF Pop

LEMMA TakeMessageInv == ASSUME Inv, NEW c \in Conns, TakeMessage(c) PROVE Inv'
  <1> DEFINE m == Head(fromClient[c])
  <1>1. /\ main[c] = "take" /\ kind' = kind /\ UNCHANGED storage /\ UNCHANGED outputs
        /\ m # Close /\ fromClient[c] # <<>>
    BY DEF TakeMessage
  <1>2. /\ fromClient \in [Conns -> Seq(ClientTexts \cup {Close})]
        /\ UNCHANGED <<clientHere, fromAgent, sent, emitted>> /\ fromClient' = Pop(fromClient, c)
    BY DEF TakeMessage, Inv, InputsTyped
  <1>3. m \in ClientTexts /\ fromClient' \in [Conns -> Seq(ClientTexts \cup {Close})]
    BY <1>1, <1>2, Taken
  <1>4. InputsTyped'
    BY <1>2, <1>3 DEF Inv, InputsTyped
  <1>5. \A x \in (reached' \cup shown') \ (reached \cup shown) :
            kind = "chat" /\ (IsQuestion(x) \/ IsAnswer(x)) => x \in Recorded
    BY <1>1 DEF outputs
  <1>6. TasksTyped /\ m \in Messages /\ (m[2] = "user" <=> IsQuestion(m))
    BY <1>3, Sides DEF Inv, IsQuestion
  <1>7. TakeMessage(c) =>
            \/ Step(c, "take")
            \/ kind = "chat" /\ m[2] = "verbatim" /\ Hold(c, m, "send")
            \/ kind \in {"chat", "direct"} /\ m[2] = "user" /\ Hold(c, m, "line")
            \/ kind \in {"proxy", "terminal"} /\ Hold(c, m, "send")
            \/ kind = "team" /\ m[2] = "user" /\ Hold(c, m, "connect")
            \/ kind = "team" /\ Hold(c, m, "reply")
    BY DEF TakeMessage, Drop, TakeChat, TakeDirect, TakeProxy, TakeTerminal, TakeTeam, Routes
  <1>8. m[2] = "verbatim" => ~IsQuestion(m)
    BY DEF IsQuestion
  <1> HIDE DEF m
  <1>9. CASE Step(c, "take")
    <2>1. /\ TasksTyped' /\ OthersKept(c) /\ ForwardKept(c)
          /\ main'[c] = "take" /\ held'[c] = held[c]
      BY <1>6, <1>9, StepShape DEF MainSteps
    <2>2. MainOK(c)'
      BY <2>1 DEF MainOK
    <2> QED
      BY <2>1, <2>2, <1>1, <1>4, <1>5, QuietMain
  <1>10. ASSUME NEW next \in {"send", "line", "connect", "reply"}, Hold(c, m, next),
                next = "send" => (kind = "chat" /\ m[2] = "verbatim") \/ kind \in {"proxy", "terminal"},
                next = "line" => kind \in {"chat", "direct"} /\ m[2] = "user",
                next = "connect" => kind = "team" /\ m[2] = "user",
                next = "reply" => kind = "team"
         PROVE  Inv'
    <2>1. /\ TasksTyped' /\ OthersKept(c) /\ ForwardKept(c)
          /\ main'[c] = next /\ held'[c] = m
      BY <1>6, <1>10, HoldShape DEF MainSteps
    <2>2. MainOK(c)'
      BY <2>1, <1>1, <1>3, <1>6, <1>8, <1>10 DEF MainOK
    <2> QED
      BY <2>1, <2>2, <1>1, <1>4, <1>5, <1>10, QuietMain
  <1> QED
    BY <1>7, <1>9, <1>10

LEMMA ClientLeftInv == ASSUME Inv, NEW c \in Conns, ClientLeft(c) PROVE Inv'
  <1>1. main[c] = "take" /\ End(c) /\ kind' = kind /\ UNCHANGED <<inputs, storage, outputs>>
    BY DEF ClientLeft
  <1>2. InputsTyped'
    BY <1>1 DEF Inv, InputsTyped, inputs
  <1> QED
    BY <1>1, <1>2, QuietEnd DEF outputs

(* Where a handler stands once a message of it is in the records.          *)
LEMMA AfterStoringShape ==
    ASSUME Inv, NEW c \in Conns, main[c] \in {"line", "newline"}, AfterStoring(c),
           kind' = kind, Recorded \subseteq Recorded', held[c] \in Recorded'
    PROVE  /\ TasksTyped' /\ OthersKept(c) /\ MainOK(c)' /\ ForwardOK(c)'
           /\ forward[c] = "newline" => ForwardKept(c)
  <1>1. TasksTyped /\ MainOK(c) /\ ForwardOK(c)
    BY DEF Inv, Tasks
  <1>2. IsQuestion(held[c]) \/ (kind # "chat" /\ IsAnswer(held[c]))
    BY <1>1 DEF MainOK
  <1>3. ASSUME ForwardKept(c), main'[c] \notin {"none", "connect"}
        PROVE  ForwardOK(c)'
    BY <1>1, <1>3 DEF ForwardOK, ForwardKept
  <1>4. AfterStoring(c) =>
            \/ kind = "chat" /\ Step(c, "send")
            \/ kind \in {"direct", "team"} /\ IsAnswer(held[c])
               /\ Step(c, IF kind = "direct" THEN "take" ELSE "reply")
            \/ kind = "direct" /\ ~IsAnswer(held[c]) /\ Step(c, "ask")
            \/ kind \in {"team", "send"} /\ ~IsAnswer(held[c]) /\ Hold(c, AnswerTo(held[c]), "line")
            \/ kind = "send" /\ End(c)
    BY DEF AfterStoring, ChatStored, DirectStored, TeamStored, SendStored
  <1>5. CASE kind = "send" /\ End(c)
    <2>1. /\ TasksTyped' /\ OthersKept(c)
          /\ main'[c] = "over" /\ held'[c] = NoMessage
          /\ ForwardKept(c) \/ (forward[c] \notin {"line", "newline"} /\ forward'[c] = "over")
      BY <1>1, <1>5, EndShape
    <2>2. MainOK(c)'
      BY <2>1 DEF MainOK
    <2>3. ForwardOK(c)'
      BY <2>1, <1>3 DEF ForwardOK
    <2> QED
      BY <2>1, <2>2, <2>3
  <1>6. CASE kind \in {"team", "send"} /\ ~IsAnswer(held[c]) /\ Hold(c, AnswerTo(held[c]), "line")
    <2>1. IsQuestion(held[c]) /\ IsAnswer(AnswerTo(held[c])) /\ AnswerTo(held[c]) \in Messages
      BY <1>2, <1>6, Sides
    <2>2. /\ TasksTyped' /\ OthersKept(c) /\ ForwardKept(c)
          /\ main'[c] = "line" /\ held'[c] = AnswerTo(held[c])
      BY <1>1, <1>6, <2>1, HoldShape DEF MainSteps
    <2>3. Asked(held[c])'
      BY <2>1, <2>2 DEF Asked
    <2>4. MainOK(c)'
      BY <2>1, <2>2, <2>3, <1>6 DEF MainOK
    <2> QED
      BY <2>2, <2>4, <1>3
  <1>7. ASSUME NEW next \in {"send", "take", "reply", "ask"}, Step(c, next),
               next = "send" => kind = "chat",
               next = "reply" => kind = "team",
               next = "ask" => kind = "direct" /\ ~IsAnswer(held[c])
        PROVE  /\ TasksTyped' /\ OthersKept(c) /\ ForwardKept(c) /\ MainOK(c)' /\ ForwardOK(c)'
    <2>1. /\ TasksTyped' /\ OthersKept(c) /\ ForwardKept(c)
          /\ main'[c] = next /\ held'[c] = held[c]
      BY <1>1, <1>7, StepShape DEF MainSteps
    <2>2. held[c] \in Messages /\ (kind = "chat" => held[c] \in ClientTexts)
      BY <1>2, Sides DEF IsQuestion, ClientTexts, Messages
    <2>3. MainOK(c)'
      BY <2>1, <2>2, <1>2, <1>7 DEF MainOK
    <2> QED
      BY <2>1, <2>3, <1>3, <1>7
  <1> QED
    BY <1>4, <1>5, <1>6, <1>7

LEMMA StoreInv == ASSUME Inv, NEW c \in Conns, Store(c) PROVE Inv'
  <1>1. kind' = kind /\ UNCHANGED inputs /\ UNCHANGED outputs
    BY DEF Store
  <1>2. InputsTyped'
    BY <1>1 DEF Inv, InputsTyped, inputs
  <1>3. TasksTyped /\ MainOK(c) /\ ForwardOK(c) /\ Stored
    BY DEF Inv, Tasks
  <1>4. ASSUME Stored', Tasks', TasksTyped', Recorded \subseteq Recorded'
        PROVE  Inv'
    <2>1. Told'
      BY <1>1, <1>4 DEF Inv, Told, outputs
    <2> QED
      BY <2>1, <1>1, <1>2, <1>4 DEF Inv
  <1>5. CASE main[c] = "line" /\ Append1(held[c]) /\ Step(c, "newline")
    <2>1. /\ TasksTyped' /\ OthersKept(c) /\ ForwardKept(c)
          /\ main'[c] = "newline" /\ held'[c] = held[c]
      BY <1>3, <1>5, StepShape DEF MainSteps
    <2>2. held[c] \in Messages /\ held[c] \in Unfinished'
      BY <2>1, <1>3, <1>5, Sides DEF MainOK, Unfinished
    <2>3. IsAnswer(held[c]) => Asked(held[c])
      BY <1>3, <1>5, Sides DEF MainOK
    <2>4. Stored' /\ Recorded \subseteq Recorded' /\ held[c] \in Recorded'
      BY <2>2, <2>3, <1>1, <1>3, <1>5, FirstHalf
    <2>5. Asked(held[c]) => Asked(held[c])'
      BY <2>1, <2>4 DEF Asked
    <2>6. MainOK(c)'
      BY <2>1, <2>4, <2>5, <1>1, <1>3, <1>5 DEF MainOK
    <2>7. ForwardOK(c)'
      BY <2>1, <2>4, <1>1, <1>3 DEF ForwardOK, ForwardKept
    <2>8. Tasks'
      BY <2>1, <2>4, <2>6, <2>7, <1>1, OthersStay DEF Inv
    <2> QED
      BY <2>1, <2>4, <2>8, <1>4
  <1>6. CASE main[c] = "line" /\ AppendFails(held[c]) /\ AfterStoring(c)
    <2>1. Recorded \subseteq Recorded' /\ held[c] \in Recorded' /\ held[c] \in Messages
      <3>1. held[c] \in Messages
        BY <1>3, <1>6, Sides DEF MainOK
      <3> QED
        BY <3>1, <1>3, <1>6, FailedRecorded
    <2>2. /\ TasksTyped' /\ OthersKept(c) /\ MainOK(c)' /\ ForwardOK(c)'
          /\ forward[c] = "newline" => ForwardKept(c)
      BY <2>1, <1>1, <1>6, AfterStoringShape
    <2>3. torn' = torn => Unfinished \subseteq Unfinished'
      BY <2>2, <1>6, HalvesStay DEF HalvesKept
    <2>4. Stored'
      BY <2>1, <2>3, <1>1, <1>3, <1>6, NoHalf
    <2>5. Tasks'
      BY <2>1, <2>2, <1>1, OthersStay DEF Inv
    <2> QED
      BY <2>1, <2>2, <2>4, <2>5, <1>4
  <1>7. CASE main[c] = "newline" /\ Append2 /\ AfterStoring(c)
    <2>1. Stored' /\ Recorded \subseteq Recorded'
      BY <1>1, <1>3, <1>7, SecondHalf
    <2>2. held[c] \in Recorded'
      BY <2>1, <1>3, <1>7 DEF MainOK
    <2>3. TasksTyped' /\ OthersKept(c) /\ MainOK(c)' /\ ForwardOK(c)'
      BY <2>1, <2>2, <1>1, <1>7, AfterStoringShape
    <2>4. Tasks'
      BY <2>1, <2>3, <1>1, OthersStay DEF Inv
    <2> QED
      BY <2>1, <2>3, <2>4, <1>4
  <1>8. CASE main[c] = "newline" /\ NewlineFails(held[c]) /\ AfterStoring(c)
    <2>1. Recorded \subseteq Recorded' /\ held[c] \in Recorded'
      BY <1>3, <1>8 DEF NewlineFails, Recorded, MainOK
    <2>2. /\ TasksTyped' /\ OthersKept(c) /\ MainOK(c)' /\ ForwardOK(c)'
          /\ forward[c] = "newline" => ForwardKept(c)
      BY <2>1, <1>1, <1>8, AfterStoringShape
    <2>3. torn' = torn \cup {held[c]}
      BY <1>8 DEF NewlineFails
    <2>4. Unfinished \subseteq Unfinished'
      BY <2>2, <2>3 DEF OthersKept, ForwardKept, Unfinished
    <2>5. Stored'
      BY <2>4, <1>1, <1>3, <1>8, NoNewline
    <2>6. Tasks'
      BY <2>1, <2>2, <1>1, OthersStay DEF Inv
    <2> QED
      BY <2>1, <2>2, <2>5, <2>6, <1>4
  <1> QED
    BY <1>5, <1>6, <1>7, <1>8 DEF Store

LEMMA SendToAgentInv == ASSUME Inv, NEW c \in Conns, SendToAgent(c) PROVE Inv'
  <1>1. /\ main[c] = "send" /\ kind' = kind /\ UNCHANGED <<inputs, storage>> /\ shown' = shown
        /\ reached' \subseteq reached \cup {held[c]}
    BY DEF SendToAgent
  <1>2. InputsTyped'
    BY <1>1 DEF Inv, InputsTyped, inputs
  <1>3. TasksTyped /\ MainOK(c)
    BY DEF Inv, Tasks
  <1>4. \A m \in (reached' \cup shown') \ (reached \cup shown) :
            kind = "chat" /\ (IsQuestion(m) \/ IsAnswer(m)) => m \in Recorded
    BY <1>1, <1>3, Sides DEF MainOK
  <1>5. ASSUME NEW next \in {"take", "collect", "reply"},
               /\ main'[c] = next /\ held'[c] = held[c]
               /\ TasksTyped' /\ OthersKept(c) /\ ForwardKept(c),
               next = "collect" => kind \in {"team", "send"},
               next = "reply" => kind = "team"
        PROVE  Inv'
    <2>1. held[c] \in Messages /\ (kind \in {"team", "send"} => IsQuestion(held[c]))
      BY <1>1, <1>3, Sides DEF MainOK
    <2>2. MainOK(c)'
      BY <2>1, <1>1, <1>5 DEF MainOK
    <2> QED
      BY <2>2, <1>1, <1>2, <1>4, <1>5, QuietMain
  <1>6. CASE Step(c, IF kind \in {"team", "send"} THEN "collect" ELSE "take")
    BY <1>3, <1>5, <1>6, StepShape DEF MainSteps
  <1>7. CASE End(c)
    BY <1>1, <1>2, <1>4, <1>7, QuietEnd
  <1>8. CASE kind = "team" /\ EndExchange(c, "reply")
    BY <1>3, <1>5, <1>8, EndExchangeShape DEF MainSteps
  <1> QED
    BY <1>6, <1>7, <1>8 DEF SendToAgent

LEMMA CollectInv == ASSUME Inv, NEW c \in Conns, Collect(c) PROVE Inv'
  <1>1. /\ main[c] \in {"collect", "collected"} /\ kind' = kind
        /\ UNCHANGED storage /\ UNCHANGED outputs
        /\ UNCHANGED <<clientHere, fromClient, sent, emitted>>
    BY DEF Collect
  <1>2. fromAgent' \in [Conns -> Seq(AgentEvents)]
    <2>1. fromAgent \in [Conns -> Seq(AgentEvents)]
      BY DEF Inv, InputsTyped
    <2>2. fromAgent' = fromAgent \/ (fromAgent[c] # <<>> /\ fromAgent' = Pop(fromAgent, c))
      BY DEF Collect
    <2> QED
      BY <2>1, <2>2, Taken
  <1>3. InputsTyped'
    BY <1>1, <1>2 DEF Inv, InputsTyped
  <1>4. /\ TasksTyped /\ MainOK(c) /\ IsQuestion(held[c]) /\ held[c] \in Messages
        /\ kind \in {"team", "send"}
    BY <1>1, Sides DEF Inv, Tasks, MainOK
  <1>5. \A m \in (reached' \cup shown') \ (reached \cup shown) :
            kind = "chat" /\ (IsQuestion(m) \/ IsAnswer(m)) => m \in Recorded
    BY <1>1 DEF outputs
  <1>6. ASSUME NEW next \in {"line", "collect", "collected", "reply"},
               next = "reply" => kind = "team",
               EndExchange(c, next) \/ Step(c, next)
        PROVE  Inv'
    <2>1. /\ TasksTyped' /\ OthersKept(c) /\ ForwardKept(c)
          /\ main'[c] = next /\ held'[c] = held[c]
      BY <1>4, <1>6, EndExchangeShape, StepShape DEF MainSteps
    <2>2. MainOK(c)'
      BY <2>1, <1>1, <1>4, <1>6 DEF MainOK
    <2> QED
      BY <2>1, <2>2, <1>1, <1>3, <1>5, <1>6, QuietMain
  <1>7. CASE End(c)
    BY <1>1, <1>3, <1>5, <1>7, QuietEnd
  <1> QED
    BY <1>6, <1>7 DEF Collect, Failed

LEMMA ReplyInv == ASSUME Inv, NEW c \in Conns, Reply(c) PROVE Inv'
  <1>1. /\ main[c] = "reply" /\ kind' = kind /\ UNCHANGED <<inputs, storage>>
    BY DEF Reply
  <1>2. InputsTyped'
    BY <1>1 DEF Inv, InputsTyped, inputs
  <1>3. TasksTyped /\ kind = "team"
    BY <1>1 DEF Inv, Tasks, MainOK
  <1>4. CASE Hold(c, NoMessage, "take")
    <2>1. /\ TasksTyped' /\ OthersKept(c) /\ ForwardKept(c)
          /\ main'[c] = "take" /\ held'[c] = NoMessage
      BY <1>3, <1>4, HoldShape DEF MainSteps
    <2>2. MainOK(c)'
      BY <2>1 DEF MainOK
    <2> QED
      BY <2>1, <2>2, <1>1, <1>2, <1>3, QuietMain
  <1>5. CASE End(c)
    BY <1>1, <1>2, <1>3, <1>5, QuietEnd
  <1> QED
    BY <1>4, <1>5 DEF Reply

LEMMA AskInv == ASSUME Inv, NEW c \in Conns, Ask(c) PROVE Inv'
  <1>1. /\ main[c] = "ask" /\ kind' = kind /\ UNCHANGED <<inputs, storage>>
    BY DEF Ask
  <1>2. InputsTyped'
    BY <1>1 DEF Inv, InputsTyped, inputs
  <1>3. TasksTyped /\ MainOK(c) /\ kind = "direct"
    BY <1>1 DEF Inv, Tasks, MainOK
  <1>4. /\ main'[c] \in {"take", "stream"} /\ held' = held
        /\ TasksTyped' /\ OthersKept(c) /\ ForwardKept(c)
    BY <1>3 DEF Ask, Step, Set, TasksTyped, OthersKept, ForwardKept, MainSteps
  <1>5. Recorded' = Recorded => MainOK(c)'
    BY <1>1, <1>3, <1>4 DEF MainOK
  <1> QED
    BY <1>1, <1>2, <1>3, <1>4, <1>5, QuietMain

LEMMA FinalizeInv == ASSUME Inv, NEW c \in Conns, Finalize(c) PROVE Inv'
  <1>1. /\ main[c] = "stream" /\ kind' = kind /\ UNCHANGED <<inputs, storage>>
        /\ held' = Set(held, c, AnswerTo(held[c]))
    BY DEF Finalize
  <1>2. InputsTyped'
    BY <1>1 DEF Inv, InputsTyped, inputs
  <1>3. TasksTyped /\ kind = "direct" /\ IsQuestion(held[c]) /\ held[c] \in Recorded
    BY <1>1 DEF Inv, Tasks, MainOK
  <1>4. IsAnswer(AnswerTo(held[c])) /\ AnswerTo(held[c]) \in Messages
    BY <1>3, Sides
  <1>5. /\ main'[c] = "line" /\ held'[c] = AnswerTo(held[c])
        /\ TasksTyped' /\ OthersKept(c) /\ ForwardKept(c)
    BY <1>3, <1>4 DEF Finalize, Set, TasksTyped, OthersKept, ForwardKept, MainSteps
  <1>6. Recorded' = Recorded => Asked(held[c])'
    BY <1>3, <1>5 DEF Asked
  <1>7. Recorded' = Recorded => MainOK(c)'
    BY <1>1, <1>3, <1>4, <1>5, <1>6 DEF MainOK
  <1> QED
    BY <1>1, <1>2, <1>3, <1>5, <1>7, QuietMain

LEMMA ShellPrintsInv == ASSUME Inv, NEW c \in Conns, ShellPrints(c) PROVE Inv'
  <1>1. /\ main[c] = "take" /\ kind = "terminal" /\ kind' = kind /\ UNCHANGED storage
        /\ UNCHANGED <<clientHere, fromClient, sent, emitted>>
        /\ fromAgent[c] # <<>> /\ fromAgent' = Pop(fromAgent, c)
    BY DEF ShellPrints
  <1>2. InputsTyped'
    <2>1. fromAgent \in [Conns -> Seq(AgentEvents)]
      BY DEF Inv, InputsTyped
    <2>2. fromAgent' \in [Conns -> Seq(AgentEvents)]
      BY <2>1, <1>1, Taken
    <2> QED
      BY <2>2, <1>1 DEF Inv, InputsTyped
  <1>3. CASE Step(c, "take")
    <2>1. /\ TasksTyped' /\ OthersKept(c) /\ ForwardKept(c) /\ main'[c] = "take"
      BY <1>3, StepShape DEF Inv, MainSteps
    <2>2. MainOK(c)'
      BY <2>1 DEF MainOK
    <2> QED
      BY <2>1, <2>2, <1>1, <1>2, QuietMain
  <1>4. CASE End(c)
    BY <1>1, <1>2, <1>4, QuietEnd
  <1> QED
    BY <1>3, <1>4 DEF ShellPrints

LEMMA ShellExitsInv == ASSUME Inv, NEW c \in Conns, ShellExits(c) PROVE Inv'
  <1>1. main[c] = "take" /\ End(c) /\ kind' = kind /\ UNCHANGED <<inputs, storage, outputs>>
    BY DEF ShellExits
  <1>2. InputsTyped'
    BY <1>1 DEF Inv, InputsTyped, inputs
  <1> QED
    BY <1>1, <1>2, QuietEnd DEF outputs

LEMMA TakeEventInv == ASSUME Inv, NEW c \in Conns, TakeEvent(c) PROVE Inv'
  <1> DEFINE e == Head(fromAgent[c])
  <1> DEFINE next == IF IsAnswer(e) /\ kind = "chat" THEN "line" ELSE "send"
  <1>1. /\ forward[c] = "take" /\ fromAgent[c] # <<>> /\ kind' = kind
        /\ UNCHANGED storage /\ UNCHANGED outputs /\ UNCHANGED <<main, held>>
        /\ UNCHANGED <<clientHere, fromClient, sent, emitted>>
        /\ fromAgent' = Pop(fromAgent, c) /\ Carry(c, e, next)
    BY DEF TakeEvent
  <1>2. e \in AgentEvents /\ fromAgent' \in [Conns -> Seq(AgentEvents)]
    <2>1. fromAgent \in [Conns -> Seq(AgentEvents)]
      BY DEF Inv, InputsTyped
    <2> QED
      BY <2>1, <1>1, Taken
  <1>3. InputsTyped'
    BY <1>1, <1>2 DEF Inv, InputsTyped
  <1>4. TasksTyped /\ ForwardOK(c) /\ c \notin aborting
    BY <1>1 DEF Inv, Tasks, TasksTyped
  <1>5. next \in {"line", "send"} /\ (next = "line" => kind = "chat")
        /\ (next = "send" => kind # "chat" \/ ~IsAnswer(e))
    OBVIOUS
  <1> HIDE DEF e, next
  <1>6. /\ TasksTyped' /\ OthersKept(c) /\ MainKept(c)
        /\ forward'[c] = next /\ carried'[c] = e
    BY <1>1, <1>2, <1>4, <1>5, CarryShape DEF ForwardSteps
  <1>7. Recorded' = Recorded => ForwardOK(c)'
    BY <1>1, <1>2, <1>4, <1>5, <1>6 DEF ForwardOK, MainKept
  <1> QED
    BY <1>1, <1>3, <1>6, <1>7, QuietForward DEF outputs

(* The event goes on to the client once it is recorded, unless its task    *)
(* was aborted meanwhile.                                                  *)
LEMMA EventStored ==
    ASSUME Inv, NEW c \in Conns, forward[c] \in {"line", "newline"}, kind' = kind,
           UNCHANGED <<main, held>>, Recorded \subseteq Recorded', carried[c] \in Recorded',
           IF c \in aborting THEN EndForward(c) ELSE Carry(c, carried[c], "send")
    PROVE  /\ TasksTyped' /\ OthersKept(c) /\ MainKept(c) /\ Tasks'
  <1>1. TasksTyped /\ MainOK(c) /\ ForwardOK(c) /\ Tasks
    BY DEF Inv, Tasks
  <1>2. kind = "chat" /\ carried[c] \in AgentEvents /\ main[c] \notin {"none", "connect"}
    BY <1>1 DEF ForwardOK
  <1>3. /\ TasksTyped' /\ OthersKept(c) /\ MainKept(c)
        /\ \/ forward'[c] = "over"
           \/ forward'[c] = "send" /\ carried'[c] = carried[c]
    BY <1>1, <1>2, EndForwardShape, CarryShape DEF ForwardSteps
  <1>4. MainOK(c)'
    BY <1>1, <1>3 DEF MainOK, MainKept, Asked
  <1>5. ForwardOK(c)'
    BY <1>2, <1>3 DEF ForwardOK, MainKept
  <1> QED
    BY <1>1, <1>3, <1>4, <1>5, OthersStay

LEMMA StoreEventInv == ASSUME Inv, NEW c \in Conns, StoreEvent(c) PROVE Inv'
  <1>1. kind' = kind /\ UNCHANGED <<main, held>> /\ UNCHANGED inputs /\ UNCHANGED outputs
    BY DEF StoreEvent
  <1>2. InputsTyped'
    BY <1>1 DEF Inv, InputsTyped, inputs
  <1>3. TasksTyped /\ MainOK(c) /\ ForwardOK(c) /\ Stored /\ Tasks
    BY DEF Inv, Tasks
  <1>4. ASSUME Stored', Tasks', TasksTyped', Recorded \subseteq Recorded'
        PROVE  Inv'
    <2>1. Told'
      BY <1>1, <1>4 DEF Inv, Told, outputs
    <2> QED
      BY <2>1, <1>1, <1>2, <1>4 DEF Inv
  <1>5. forward[c] \in {"line", "newline"} => carried[c] \in AgentEvents /\ kind = "chat"
    BY <1>3 DEF ForwardOK
  <1>6. CASE forward[c] = "line" /\ Append1(carried[c]) /\ Carry(c, carried[c], "newline")
    <2>1. /\ TasksTyped' /\ OthersKept(c) /\ MainKept(c)
          /\ forward'[c] = "newline" /\ carried'[c] = carried[c]
      BY <1>1, <1>3, <1>5, <1>6, CarryShape DEF ForwardSteps
    <2>2. carried[c] \in Messages /\ carried[c] \in Unfinished'
      BY <2>1, <1>5, <1>6, Sides DEF Unfinished
    <2>3. Stored' /\ Recorded \subseteq Recorded' /\ carried[c] \in Recorded'
      BY <2>2, <1>1, <1>3, <1>5, <1>6, FirstHalf
    <2>4. MainOK(c)'
      BY <2>1, <2>3, <1>1, <1>3 DEF MainOK, MainKept, Asked
    <2>5. ForwardOK(c)'
      BY <2>1, <2>3, <1>1, <1>3, <1>5, <1>6 DEF ForwardOK, MainKept
    <2>6. Tasks'
      BY <2>1, <2>3, <2>4, <2>5, <1>1, <1>3, OthersStay
    <2> QED
      BY <2>1, <2>3, <2>6, <1>4
  <1>7. CASE /\ forward[c] = "line" /\ AppendFails(carried[c])
             /\ IF c \in aborting THEN EndForward(c) ELSE Carry(c, carried[c], "send")
    <2>1. Recorded \subseteq Recorded' /\ carried[c] \in Recorded' /\ carried[c] \in Messages
      <3>1. carried[c] \in Messages
        BY <1>5, <1>7, Sides
      <3> QED
        BY <3>1, <1>3, <1>7, FailedRecorded
    <2>2. TasksTyped' /\ OthersKept(c) /\ MainKept(c) /\ Tasks'
      BY <2>1, <1>1, <1>7, EventStored
    <2>3. torn' = torn => Unfinished \subseteq Unfinished'
      BY <2>2, <1>7, HalvesStay DEF HalvesKept
    <2>4. Stored'
      BY <2>1, <2>3, <1>1, <1>3, <1>7, NoHalf
    <2> QED
      BY <2>1, <2>2, <2>4, <1>4
  <1>8. CASE /\ forward[c] = "newline" /\ Append2
             /\ IF c \in aborting THEN EndForward(c) ELSE Carry(c, carried[c], "send")
    <2>1. Stored' /\ Recorded \subseteq Recorded'
      BY <1>1, <1>3, <1>8, SecondHalf
    <2>2. carried[c] \in Recorded'
      BY <2>1, <1>3, <1>8 DEF ForwardOK
    <2>3. TasksTyped' /\ OthersKept(c) /\ MainKept(c) /\ Tasks'
      BY <2>1, <2>2, <1>1, <1>8, EventStored
    <2> QED
      BY <2>1, <2>3, <1>4
  <1>9. CASE /\ forward[c] = "newline" /\ NewlineFails(carried[c])
             /\ IF c \in aborting THEN EndForward(c) ELSE Carry(c, carried[c], "send")
    <2>1. Recorded \subseteq Recorded' /\ carried[c] \in Recorded'
      BY <1>3, <1>9 DEF NewlineFails, Recorded, ForwardOK
    <2>2. TasksTyped' /\ OthersKept(c) /\ MainKept(c) /\ Tasks'
      BY <2>1, <1>1, <1>9, EventStored
    <2>3. torn' = torn \cup {carried[c]}
      BY <1>9 DEF NewlineFails
    <2>4. Unfinished \subseteq Unfinished'
      BY <2>2, <2>3 DEF OthersKept, MainKept, Unfinished
    <2>5. Stored'
      BY <2>4, <1>1, <1>3, <1>9, NoNewline
    <2> QED
      BY <2>1, <2>2, <2>5, <1>4
  <1> QED
    BY <1>6, <1>7, <1>8, <1>9 DEF StoreEvent

LEMMA SendToClientInv == ASSUME Inv, NEW c \in Conns, SendToClient(c) PROVE Inv'
  <1>1. /\ forward[c] = "send" /\ kind' = kind /\ UNCHANGED <<main, held>>
        /\ UNCHANGED inputs /\ UNCHANGED storage /\ reached' = reached
        /\ shown' \subseteq shown \cup {carried[c]}
    BY DEF SendToClient
  <1>2. InputsTyped'
    BY <1>1 DEF Inv, InputsTyped, inputs
  <1>3. TasksTyped /\ ForwardOK(c) /\ c \notin aborting
    BY <1>1 DEF Inv, Tasks, TasksTyped
  <1>4. \A m \in (reached' \cup shown') \ (reached \cup shown) :
            kind = "chat" /\ (IsQuestion(m) \/ IsAnswer(m)) => m \in Recorded
    BY <1>1, <1>3, Sides DEF ForwardOK
  <1>5. CASE Carry(c, NoMessage, "take")
    <2>1. /\ TasksTyped' /\ OthersKept(c) /\ MainKept(c) /\ forward'[c] = "take"
      BY <1>1, <1>3, <1>5, CarryShape DEF ForwardSteps
    <2>2. ForwardOK(c)'
      BY <2>1, <1>1, <1>3 DEF ForwardOK, MainKept
    <2> QED
      BY <2>1, <2>2, <1>1, <1>2, <1>4, QuietForward
  <1>6. CASE EndForward(c)
    <2>1. /\ TasksTyped' /\ OthersKept(c) /\ MainKept(c) /\ forward'[c] = "over"
      BY <1>1, <1>3, <1>6, EndForwardShape
    <2>2. ForwardOK(c)'
      BY <2>1, <1>1, <1>3 DEF ForwardOK, MainKept
    <2> QED
      BY <2>1, <2>2, <1>1, <1>2, <1>4, QuietForward
  <1> QED
    BY <1>5, <1>6 DEF SendToClient

LEMMA AgentLeftInv == ASSUME Inv, NEW c \in Conns, AgentLeft(c) PROVE Inv'
  <1>1. /\ forward[c] = "take" /\ EndForward(c) /\ kind' = kind /\ UNCHANGED <<main, held>>
        /\ UNCHANGED inputs /\ UNCHANGED storage /\ UNCHANGED outputs
    BY DEF AgentLeft
  <1>2. InputsTyped'
    BY <1>1 DEF Inv, InputsTyped, inputs
  <1>3. TasksTyped /\ ForwardOK(c)
    BY DEF Inv, Tasks
  <1>4. /\ TasksTyped' /\ OthersKept(c) /\ MainKept(c) /\ forward'[c] = "over"
    BY <1>1, <1>3, EndForwardShape
  <1>5. ForwardOK(c)'
    BY <1>1, <1>3, <1>4 DEF ForwardOK, MainKept
  <1> QED
    BY <1>1, <1>2, <1>4, <1>5, QuietForward DEF outputs

(* A step that no task takes.                                              *)
LEMMA OutsideOnly ==
    ASSUME Inv, kind' = kind, UNCHANGED tasks, UNCHANGED storage, UNCHANGED outputs,
           InputsTyped', link' \in [Conns -> {"up", "stuck", "closed"}]
    PROVE  Inv'
  <1>1. TasksTyped'
    BY DEF Inv, TasksTyped, tasks
  <1>2. Stored' /\ Recorded' = Recorded
    BY NothingWritten DEF Inv, storage, tasks, Unfinished, Recorded
  <1>3. Tasks'
    BY <1>2 DEF Inv, Tasks, tasks, MainOK, ForwardOK, Asked
  <1>4. Told'
    BY <1>2 DEF Inv, Told, outputs
  <1> QED
    BY <1>1, <1>2, <1>3, <1>4 DEF Inv

LEMMA ClientSendsInv == ASSUME Inv, NEW c \in Conns, ClientSends(c) PROVE Inv'
  <1>1. /\ UNCHANGED <<kind, tasks, link, clientHere, fromAgent, emitted, storage, outputs>>
        /\ sent' = [sent EXCEPT ![c] = @ + 1]
    BY DEF ClientSends
  <1>2. PICK role \in {"user", "verbatim", "control"} :
               fromClient' = [fromClient EXCEPT ![c] = Append(@, <<c, role, sent'[c]>>)]
    BY DEF ClientSends
  <1>3. sent' \in [Conns -> Nat]
    BY <1>1 DEF Inv, InputsTyped
  <1>4. <<c, role, sent'[c]>> \in ClientTexts \cup {Close}
    BY <1>3 DEF ClientTexts
  <1>5. fromClient' \in [Conns -> Seq(ClientTexts \cup {Close})]
    <2>1. fromClient \in [Conns -> Seq(ClientTexts \cup {Close})]
      BY DEF Inv, InputsTyped
    <2>2. Append(fromClient[c], <<c, role, sent'[c]>>) \in Seq(ClientTexts \cup {Close})
      BY <2>1, <1>4, AppendProperties
    <2> QED
      BY <2>1, <2>2, <1>2
  <1>6. InputsTyped'
    BY <1>1, <1>3, <1>5 DEF Inv, InputsTyped
  <1> QED
    BY <1>1, <1>6, OutsideOnly DEF Inv, TasksTyped

LEMMA ClientGoesInv == ASSUME Inv, NEW c \in Conns, ClientGoes(c) PROVE Inv'
  <1>1. /\ UNCHANGED <<kind, fromAgent, sent, emitted, storage, outputs>>
        /\ clientHere' = Set(clientHere, c, FALSE)
        /\ fromClient' \in {Set(fromClient, c, <<>>),
                            [fromClient EXCEPT ![c] = Append(@, Close)]}
    BY DEF ClientGoes
  <1>2. fromClient' \in [Conns -> Seq(ClientTexts \cup {Close})]
    <2>1. fromClient \in [Conns -> Seq(ClientTexts \cup {Close})]
      BY DEF Inv, InputsTyped
    <2>2. /\ Append(fromClient[c], Close) \in Seq(ClientTexts \cup {Close})
          /\ <<>> \in Seq(ClientTexts \cup {Close})
      BY <2>1, AppendProperties
    <2> QED
      BY <2>1, <2>2, <1>1 DEF Set
  <1>3. InputsTyped'
    BY <1>1, <1>2 DEF Inv, InputsTyped, Set
  <1>4. CASE UNCHANGED <<tasks, link>>
    BY <1>1, <1>3, <1>4, OutsideOnly DEF Inv, TasksTyped
  <1>5. CASE main[c] # "newline" /\ End(c)
    BY <1>1, <1>3, <1>5, QuietEnd DEF outputs
  <1> QED
    BY <1>4, <1>5 DEF ClientGoes

LEMMA AgentEmitsInv == ASSUME Inv, NEW c \in Conns, AgentEmits(c) PROVE Inv'
  <1>1. /\ UNCHANGED <<kind, tasks, link, clientHere, fromClient, sent, storage, outputs>>
        /\ emitted' = [emitted EXCEPT ![c] = @ + 1]
    BY DEF AgentEmits
  <1>2. PICK role \in {"delta", "agent", "mute"} :
               fromAgent' = [fromAgent EXCEPT ![c] = Append(@, <<c, role, emitted'[c]>>)]
    BY DEF AgentEmits
  <1>3. emitted' \in [Conns -> Nat]
    BY <1>1 DEF Inv, InputsTyped
  <1>4. <<c, role, emitted'[c]>> \in AgentEvents
    BY <1>3 DEF AgentEvents
  <1>5. fromAgent' \in [Conns -> Seq(AgentEvents)]
    <2>1. fromAgent \in [Conns -> Seq(AgentEvents)]
      BY DEF Inv, InputsTyped
    <2>2. Append(fromAgent[c], <<c, role, emitted'[c]>>) \in Seq(AgentEvents)
      BY <2>1, <1>4, AppendProperties
    <2> QED
      BY <2>1, <2>2, <1>2
  <1>6. InputsTyped'
    BY <1>1, <1>3, <1>5 DEF Inv, InputsTyped
  <1> QED
    BY <1>1, <1>6, OutsideOnly DEF Inv, TasksTyped

LEMMA AgentGoesInv == ASSUME Inv, NEW c \in Conns, AgentGoes(c) PROVE Inv'
  <1>1. UNCHANGED <<kind, tasks, inputs, storage, outputs>>
    BY DEF AgentGoes
  <1>2. InputsTyped'
    BY <1>1 DEF Inv, InputsTyped, inputs
  <1>3. link' \in [Conns -> {"up", "stuck", "closed"}]
    BY DEF AgentGoes, Set, Inv, TasksTyped
  <1> QED
    BY <1>1, <1>2, <1>3, OutsideOnly

(* A crash leaves the lines it tore to torn.                               *)
LEMMA CrashInv == ASSUME Inv, Crash PROVE Inv'
  <1>1. /\ UNCHANGED <<kind, fromClient, fromAgent, sent, emitted, skipped>>
        /\ UNCHANGED outputs /\ aborting' = {}
        /\ clientHere' = [c \in Conns |-> FALSE] /\ link' = [c \in Conns |-> "closed"]
        /\ held' = [c \in Conns |-> NoMessage] /\ carried' = [c \in Conns |-> NoMessage]
    BY DEF Crash
  <1>2. \A c \in Conns : /\ main'[c] \in {"none", "over"} /\ held'[c] = NoMessage
                         /\ forward'[c] = IF main'[c] = "none" THEN "off" ELSE "over"
    BY DEF Crash
  <1>3. TasksTyped' /\ InputsTyped'
    BY <1>1 DEF Crash, Inv, InputsTyped, TasksTyped, MainSteps, ForwardSteps
  <1>4. Tasks'
    BY <1>2 DEF Tasks, MainOK, ForwardOK
  <1> Stored /\ kind' = kind /\ skipped' = skipped
    BY <1>1 DEF Inv
  <1>5. ASSUME torn' = Unfinished, UNCHANGED <<file, damaged>>
        PROVE  Stored' /\ Recorded \subseteq Recorded'
    <2>1. Unfinished \subseteq Unfinished'
      BY <1>5 DEF Unfinished
    <2>2. file' = file /\ damaged' = damaged
      BY <1>5
    <2> QED
      BY <2>1, <2>2, NothingWritten
  <1>6. ASSUME \E m \in Beginning : CutShort(m)
        PROVE  Stored' /\ Recorded \subseteq Recorded'
    <2>1. PICK m \in Beginning : CutShort(m)
      BY <1>6
    <2>2. m \in Messages
      BY Sides DEF Beginning, Inv, Tasks, MainOK, ForwardOK
    <2> QED
      BY <2>1, <2>2, Stump
  <1>7. Stored' /\ Recorded \subseteq Recorded'
    BY <1>5, <1>6 DEF Crash
  <1>8. Told'
    BY <1>1, <1>7 DEF Inv, Told, outputs
  <1> QED
    BY <1>1, <1>3, <1>4, <1>7, <1>8 DEF Inv

-----------------------------------------------------------------------------
LEMMA InvInit == Init => Inv
  <1> SUFFICES ASSUME Init PROVE Inv
    OBVIOUS
  <1>1. kind \in Kinds /\ TasksTyped
    BY DEF Init, TasksTyped, MainSteps, ForwardSteps
  <1>2. InputsTyped
    <2>1. <<>> \in Seq(ClientTexts \cup {Close}) /\ <<>> \in Seq(AgentEvents)
      OBVIOUS
    <2> QED
      BY <2>1 DEF Init, InputsTyped
  <1>3. Tasks
    BY DEF Init, Tasks, MainOK, ForwardOK
  <1>4. Stored
    BY DEF Init, Stored, FileTyped, Lines, OpenEnd, AnswersFollowQuestions
  <1>5. Told
    BY DEF Init, Told
  <1> QED
    BY <1>1, <1>2, <1>3, <1>4, <1>5 DEF Inv

LEMMA InvNext == Inv /\ [Next]_vars => Inv'
  <1> SUFFICES ASSUME Inv, [Next]_vars PROVE Inv'
    OBVIOUS
  <1>1. ASSUME NEW c \in Conns, Serve(c) PROVE Inv'
    BY <1>1, ConnectInv, TakeMessageInv, ClientLeftInv, StoreInv, SendToAgentInv,
       CollectInv, ReplyInv, AskInv, FinalizeInv, ShellPrintsInv, ShellExitsInv DEF Serve
  <1>2. ASSUME NEW c \in Conns, Forward(c) PROVE Inv'
    BY <1>2, TakeEventInv, StoreEventInv, SendToClientInv, AgentLeftInv DEF Forward
  <1>3. ASSUME NEW c \in Conns, Outside(c) PROVE Inv'
    BY <1>3, OpenInv, ClientSendsInv, ClientGoesInv, AgentEmitsInv, AgentGoesInv DEF Outside
  <1>4. CASE UNCHANGED vars
    BY <1>4, OutsideOnly DEF vars, tasks, storage, outputs, Inv, InputsTyped, TasksTyped
  <1> QED
    BY <1>1, <1>2, <1>3, <1>4, CrashInv DEF Next

LEMMA Invariance == Spec => []Inv
  BY InvInit, InvNext, PTL DEF Spec

-----------------------------------------------------------------------------
(* Every variable has its type in every reachable state: a handler that    *)
(* stores, sends or asks has a message to do it with, and only a task      *)
(* inside an append is still to be aborted.                                *)
THEOREM ConversationsTyped == Spec => []TypeOK
  <1>1. Inv => TypeOK
    <2> SUFFICES ASSUME Inv PROVE TypeOK
      OBVIOUS
    <2>1. ASSUME NEW c \in Conns
          PROVE  /\ held[c] \in Messages \cup {NoMessage}
                 /\ main[c] \in {"line", "newline", "send", "collect", "collected", "ask",
                                 "stream", "reply"} => held[c] \in Messages
                 /\ forward[c] \in {"line", "newline", "send"} => carried[c] \in Messages
      BY Sides DEF Inv, Tasks, TasksTyped, MainOK, ForwardOK
    <2>2. \A i \in DOMAIN file : file[i] \in Entries
      BY DEF Inv, Stored, FileTyped
    <2> QED
      BY <2>1, <2>2 DEF Inv, TasksTyped, TypeOK, MainSteps, ForwardSteps
  <1> QED
    BY <1>1, Invariance, PTL

(* A message that was appended whole is loaded again by whoever reads the  *)
(* file, unless its append met another one half done or cut short, or the  *)
(* file has a message cut inside a character, which no load survives.      *)
THEOREM StoredMessagesLoad == Spec => []StoredIsLoaded
  <1>1. Inv => StoredIsLoaded
    BY DEF Inv, Stored, Lines, StoredIsLoaded, Loaded
  <1> QED
    BY <1>1, Invariance, PTL

(* In a chat a plain text reaches an agent, and a final answer with text a *)
(* client, only when the history has it or its append has failed; requests *)
(* in the gateway's own form, texts that do not parse and events without a *)
(* final text are passed on without being stored.                          *)
THEOREM HistoryFirst == Spec => []HistoryBeforeDelivery
  <1>1. Inv => HistoryBeforeDelivery
    BY DEF Inv, Told, Recorded, HistoryBeforeDelivery
  <1> QED
    BY <1>1, Invariance, PTL

(* An answer stands in the file behind its question, or the question's     *)
(* append has failed.                                                      *)
THEOREM QuestionsFirst == Spec => []AnswersFollowQuestions
  <1>1. Inv => AnswersFollowQuestions
    BY DEF Inv, Stored
  <1> QED
    BY <1>1, Invariance, PTL
=============================================================================
