--------------------------- MODULE Conversations ---------------------------
(***************************************************************************)
(* The connections through which clients and agents talk, and the JSONL    *)
(* file a conversation is kept in.  Six handlers have the one shape, take  *)
(* a message, store it, pass it on:                                        *)
(*   chat    handle_chat_stream: a client and the gateway of an agent;     *)
(*           a spawned task carries the agent's events back                *)
(*   direct  handle_direct_chat: a client and an LLM provider              *)
(*   team    handle_team_chat_stream: each message goes to the agent its   *)
(*           classification names                                          *)
(*   send    send_message: one message of one agent to another             *)
(*   proxy   handle_websocket_proxy: two spawned tasks, nothing stored     *)
(*   terminal  handle_terminal_stream: a client and a shell that Docker     *)
(*           runs in the agent's container, both directions in one loop,   *)
(*           nothing stored                                                *)
(* Connections of one kind share a file (the agent's default session, the  *)
(* team's, the pair's); those of different kinds share nothing, so that a  *)
(* behaviour has one kind of connection only.                              *)
(*                                                                         *)
(* append_conversation_message writes a line with two writes, the message  *)
(* and the newline, and nothing keeps two appends apart: the tasks run on  *)
(* several threads.  It has no await, so no task is dropped inside it.     *)
(* Each write may fail, the first after part of the message; the handler   *)
(* warns of it and goes on.                                                *)
(***************************************************************************)
EXTENDS Naturals, Sequences

CONSTANTS
    Conns,        \* connections
    Kinds,        \* the kinds of connection there are
    ClientsOf,    \* for each, the connections clients will open
    MaxSent,      \* bound, for each kind: messages a client sends
    MaxEvents,    \* bound, for each kind: events an agent sends
    MaxFaults     \* bound: crashes and failed appends

AllKinds == {"chat", "direct", "team", "send", "proxy", "terminal"}

ASSUME KindsAssumption == /\ Kinds \subseteq AllKinds
                          /\ ClientsOf \in [Kinds -> SUBSET Conns]
ASSUME MessagesAssumption == /\ MaxSent \in [Kinds -> Nat] /\ MaxEvents \in [Kinds -> Nat]
                             /\ MaxFaults \in Nat

VARIABLES
    kind,         \* the kind of all connections
    main, held,   \* where each handler stands, and the message it is at
    forward, carried,  \* the same for the task from agent to client
    clientHere,   \* whether the client is still connected
    link,         \* the connection to the agent or the provider
    fromClient, fromAgent,  \* what was sent and is not taken yet
    sent, emitted,          \* how many messages each side has sent
    aborting,     \* abort() was called while the task was inside an append
    file,         \* the file: messages, parts of messages and newlines
    torn,         \* messages a crash or an error left without their newline
    faults,
    reached,      \* history: messages agents have got
    shown,        \* history: answers clients have got
    damaged,      \* history: messages whose append met another unfinished one
    skipped       \* history: messages an error kept from being written whole

vars == <<kind, main, held, forward, carried, clientHere, link, fromClient,
          fromAgent, sent, emitted, aborting, file, torn, faults, reached,
          shown, damaged, skipped>>
tasks    == <<main, held, forward, carried, aborting>>
inputs   == <<clientHere, fromClient, fromAgent, sent, emitted>>
storage  == <<file, torn, faults, damaged, skipped>>
outputs  == <<reached, shown>>

(* A message is told by its connection, what it is, and its number.        *)
Roles == {"user",     \* a client's plain text
          "verbatim", \* a client's text that is an OpenClaw request, or no JSON
          "control",  \* any other text of a client
          "delta",    \* an event of an agent
          "agent",    \* its final event, the answer
          "mute"}     \* a final event without a text item
Messages == Conns \X Roles \X Nat
NoMessage == <<"none">>
Newline   == <<"newline">>
Close     == <<"close">>
Part      == <<"part">>     \* the beginning of a message
Broken    == <<"broken">>   \* one that ends inside a character
Entries   == Messages \cup {Newline, Part, Broken}
AnswerTo(m) == <<m[1], "agent", m[3]>>
IsAnswer(m) == m \in Messages /\ m[2] = "agent"
IsQuestion(m) == m \in Messages /\ m[2] = "user"
IsFinal(m) == m[2] \in {"agent", "mute"}

Set(f, c, v) == [f EXCEPT ![c] = v]
Pop(q, c) == [q EXCEPT ![c] = Tail(@)]

-----------------------------------------------------------------------------
(* The file.                                                               *)

Unfinished ==
    torn \cup {held[c] : c \in {d \in Conns : main[d] = "newline"}}
         \cup {carried[c] : c \in {d \in Conns : forward[d] = "newline"}}

(* load_conversation_messages skips a line that is not one message; one    *)
(* that is not UTF-8 is an error (api.rs:2422), which the direct chat      *)
(* takes for no messages (direct_llm.rs:326).                              *)
Loaded ==
    IF \E i \in DOMAIN file : file[i] = Broken THEN {}
    ELSE {file[i] : i \in {j \in DOMAIN file :
            /\ file[j] \in Messages
            /\ j > 1 => file[j - 1] = Newline
            /\ j < Len(file) => file[j + 1] = Newline}}

(* A wrong version: the file is not opened for appending.                  *)
WrittenOver(e) == <<e>>
Written(e) == Append(file, e)

(* What is written of message m joins an unfinished line, if there is one. *)
Write(m, e) ==
    /\ file' = Written(e)
    /\ damaged' = IF Unfinished = {} THEN damaged ELSE damaged \cup Unfinished \cup {m}

Strike == faults > 0 /\ faults' = faults - 1

Append1(m) ==
    /\ Write(m, m)
    /\ torn' = {}
    /\ UNCHANGED <<faults, skipped>>

(* A wrong version: write! for writeln!.                                   *)
Append2Unended == UNCHANGED storage

Append2 ==
    /\ file' = Append(file, Newline)
    /\ torn' = {}
    /\ UNCHANGED <<faults, damaged, skipped>>

(* Only part of the message gets into the file.                            *)
CutShort(m) == \E rest \in {Part, Broken} : Write(m, rest) /\ torn' = {m}

(* The directory or the file cannot be opened, or the disk is full: an     *)
(* error, which the handlers log before they go on.                        *)
AppendFails(m) ==
    /\ Strike
    /\ skipped' = skipped \cup {m}
    /\ CutShort(m) \/ UNCHANGED <<file, torn, damaged>>

NewlineFails(m) ==
    /\ Strike
    /\ torn' = torn \cup {m}
    /\ UNCHANGED <<file, damaged, skipped>>

-----------------------------------------------------------------------------
(* The end of a connection.                                                *)

(* A wrong version: the task is left to itself, as in the proxy.           *)
EndDetached(c) ==
    /\ main' = Set(main, c, "over")
    /\ held' = Set(held, c, NoMessage)
    /\ UNCHANGED <<link, forward, carried, aborting>>

(* The handler returns.  The chat's aborts the forwarding task, which ends *)
(* at its next await; the connection closes when both are gone.  Dropping  *)
(* the handle of the proxy's task leaves it running.                       *)
End(c) ==
    /\ main' = Set(main, c, "over")
    /\ held' = Set(held, c, NoMessage)
    /\ IF kind = "proxy"
       THEN /\ link' = IF forward[c] = "over" THEN Set(link, c, "closed") ELSE link
            /\ UNCHANGED <<forward, carried, aborting>>
       ELSE IF forward[c] \in {"line", "newline"}
       THEN aborting' = aborting \cup {c} /\ UNCHANGED <<link, forward, carried>>
       ELSE /\ forward' = Set(forward, c, "over")
            /\ carried' = Set(carried, c, NoMessage)
            /\ link' = Set(link, c, "closed")
            /\ UNCHANGED aborting

(* One message is done with; the connection to its agent is closed.        *)
EndExchange(c, next) ==
    /\ link' = Set(link, c, "closed")
    /\ main' = Set(main, c, next)
    /\ UNCHANGED <<held, forward, carried, aborting>>

Step(c, next) ==
    /\ main' = Set(main, c, next)
    /\ UNCHANGED <<link, held, forward, carried, aborting>>

Hold(c, m, next) ==
    /\ main' = Set(main, c, next)
    /\ held' = Set(held, c, m)
    /\ UNCHANGED <<link, forward, carried, aborting>>

-----------------------------------------------------------------------------
(* The handlers.                                                           *)

(* A direct agent without a key or an address, and a team whose greeting   *)
(* cannot be sent, end the connection at once; the message of send_message *)
(* comes with its request.                                                 *)
OpenChat(c)   == Step(c, "connect")
OpenProxy(c)  == Step(c, "connect")
OpenTerminal(c) == Step(c, "connect")
OpenDirect(c) == Step(c, "take") \/ End(c)
OpenTeam(c)   == Step(c, "take") \/ End(c)
OpenSend(c)   == Hold(c, <<c, "user", 1>>, "connect")

Open(c) ==
    /\ main[c] = "none"
    /\ c \in ClientsOf[kind]
    /\ clientHere' = Set(clientHere, c, TRUE)
    /\ \/ kind = "chat" /\ OpenChat(c)
       \/ kind = "proxy" /\ OpenProxy(c)
       \/ kind = "terminal" /\ OpenTerminal(c)
       \/ kind = "direct" /\ OpenDirect(c)
       \/ kind = "team" /\ OpenTeam(c)
       \/ kind = "send" /\ OpenSend(c)
    /\ UNCHANGED <<kind, fromClient, fromAgent, sent, emitted, storage, outputs>>

(* The agent is looked up and connected to: up to five attempts, then the  *)
(* challenge and the signed answer, each with its timeout.  Without a      *)
(* confirmation of the gateway the connection is used all the same; a chat *)
(* and the proxy spawn the task that reads from it.  A terminal has Docker *)
(* start the shell.                                                        *)
Connected(c) ==
    /\ link' = Set(link, c, "up")
    /\ main' = Set(main, c, IF held[c] = NoMessage THEN "take" ELSE "send")
    /\ forward' = IF kind \in {"chat", "proxy"} THEN Set(forward, c, "take") ELSE forward
    /\ UNCHANGED <<held, carried, aborting>>
(* A wrong version of the next: the error is answered, the return missing. *)
NotConnectedUnreturned(c) == Step(c, "reply")
NotConnected(c) == IF kind = "team" THEN Step(c, "reply") ELSE End(c)

Connect(c) ==
    /\ main[c] = "connect"
    /\ Connected(c) \/ NotConnected(c)
    /\ fromAgent' = Set(fromAgent, c, <<>>)
    /\ UNCHANGED <<kind, clientHere, fromClient, sent, emitted, storage, outputs>>

(* The client's next message.  Of a chat, a plain text is stored before it *)
(* is sent, an OpenClaw request or what does not parse is sent as it is.   *)
(* JSON of another form is dropped; a terminal's resize is Docker's        *)
(* business.                                                               *)
TakeChat(c, m) ==
    \/ m[2] = "verbatim" /\ Hold(c, m, "send")
    \/ m[2] = "user" /\ Hold(c, m, "line")
TakeDirect(c, m)   == m[2] = "user" /\ Hold(c, m, "line")
TakeProxy(c, m)    == Hold(c, m, "send")
TakeTerminal(c, m) == m[2] = "user" /\ Hold(c, m, "send")

(* What the classification leads to: an agent that is Running, or, without *)
(* an intent, an agent for it, or a Running one, an answer of the router's.*)
Routes == {"connect", "reply"}
TakeTeam(c, m) == m[2] = "user" /\ \E route \in Routes : Hold(c, m, route)

Drop(c, m) == m[2] = "control" /\ Step(c, "take")

TakeMessage(c) ==
    /\ main[c] = "take"
    /\ fromClient[c] # <<>>
    /\ LET m == Head(fromClient[c])
       IN /\ m # Close
          /\ \/ Drop(c, m)
             \/ kind = "chat" /\ TakeChat(c, m)
             \/ kind = "direct" /\ TakeDirect(c, m)
             \/ kind = "proxy" /\ TakeProxy(c, m)
             \/ kind = "terminal" /\ TakeTerminal(c, m)
             \/ kind = "team" /\ TakeTeam(c, m)
    /\ fromClient' = Pop(fromClient, c)
    /\ UNCHANGED <<kind, clientHere, fromAgent, sent, emitted, storage, outputs>>

(* A close frame, an error or the end of the stream.                       *)
ClientLeft(c) ==
    /\ main[c] = "take"
    /\ \/ fromClient[c] # <<>> /\ Head(fromClient[c]) = Close
       \/ fromClient[c] = <<>> /\ ~clientHere[c]
    /\ End(c)
    /\ UNCHANGED <<kind, inputs, storage, outputs>>

(* Where a handler goes on once a message is stored: a question of a chat  *)
(* is sent, of a direct agent asked; the other two store question and      *)
(* answer one after the other, the answer being there already.             *)
ChatStored(c)   == Step(c, "send")
DirectStored(c) == Step(c, IF IsAnswer(held[c]) THEN "take" ELSE "ask")
TeamStored(c) ==
    IF IsAnswer(held[c]) THEN Step(c, "reply") ELSE Hold(c, AnswerTo(held[c]), "line")
SendStored(c) ==
    IF IsAnswer(held[c]) THEN End(c) ELSE Hold(c, AnswerTo(held[c]), "line")

AfterStoring(c) ==
    \/ kind = "chat" /\ ChatStored(c)
    \/ kind = "direct" /\ DirectStored(c)
    \/ kind = "team" /\ TeamStored(c)
    \/ kind = "send" /\ SendStored(c)

Store(c) ==
    /\ \/ main[c] = "line" /\ Append1(held[c]) /\ Step(c, "newline")
       \/ main[c] = "line" /\ AppendFails(held[c]) /\ AfterStoring(c)
       \/ main[c] = "newline" /\ Append2 /\ AfterStoring(c)
       \/ main[c] = "newline" /\ NewlineFails(held[c]) /\ AfterStoring(c)
    /\ UNCHANGED <<kind, inputs, outputs>>

(* The agent gets the message, or, when it is gone, nobody does, and the   *)
(* handler may learn of it.  One that does not read blocks the handler.    *)
SendToAgent(c) ==
    /\ main[c] = "send"
    /\ link[c] # "stuck"
    /\ reached' = IF link[c] = "up" THEN reached \cup {held[c]} ELSE reached
    /\ \/ Step(c, IF kind \in {"team", "send"} THEN "collect" ELSE "take")
       \/ link[c] = "closed" /\ kind # "team" /\ End(c)
       \/ link[c] = "closed" /\ kind = "team" /\ EndExchange(c, "reply")
    /\ UNCHANGED <<kind, inputs, storage, shown>>

(* send_message_to_agent failed: the answer is an error.                   *)
Failed(c) == IF kind = "team" THEN EndExchange(c, "reply") ELSE End(c)

(* It collects text until the final event; other events may have some or   *)
(* none.  The deadline is an error if it has none yet; the end of the      *)
(* connection is not, in either case.  With an answer, if an empty one,    *)
(* the connection is closed, then question and answer stored.              *)
Collect(c) ==
    /\ main[c] \in {"collect", "collected"}
    /\ \/ /\ fromAgent[c] # <<>>
          /\ fromAgent' = Pop(fromAgent, c)
          /\ IF IsFinal(Head(fromAgent[c])) THEN EndExchange(c, "line")
             ELSE \E next \in {main[c], "collected"} : Step(c, next)
       \/ /\ UNCHANGED fromAgent
          /\ \/ main[c] = "collect" /\ Failed(c)
             \/ main[c] = "collected" /\ EndExchange(c, "line")
             \/ /\ fromAgent[c] = <<>> /\ link[c] = "closed"
                /\ EndExchange(c, "line") \/ Failed(c)
    /\ UNCHANGED <<kind, clientHere, fromClient, sent, emitted, storage, outputs>>

(* A team's client gets the answer, or a text of the router's own.         *)
Reply(c) ==
    /\ main[c] = "reply"
    /\ \/ /\ clientHere[c]
          /\ shown' = IF IsAnswer(held[c]) THEN shown \cup {held[c]} ELSE shown
          /\ Hold(c, NoMessage, "take")
       \/ /\ ~clientHere[c]
          /\ End(c)
          /\ UNCHANGED shown
    /\ UNCHANGED <<kind, inputs, storage, reached>>

(* The provider is asked with the history loaded from the file, and with   *)
(* the question itself only if that is empty; an error is passed to the    *)
(* client.  No timeout ends the wait for a silent one.                     *)
Ask(c) ==
    /\ main[c] = "ask"
    /\ \/ Step(c, "take") /\ UNCHANGED reached
       \/ /\ reached' = reached \cup (IF Loaded = {} THEN {held[c]} ELSE Loaded \cap {held[c]})
          /\ link' = Set(link, c, "up")
          /\ main' = Set(main, c, "stream")
          /\ UNCHANGED <<held, forward, carried, aborting>>
    /\ UNCHANGED <<kind, inputs, storage, shown>>

(* The end of the answer, of the stream or of the client: what there is of *)
(* the text is sent as final and stored, in this order.                    *)
Finalize(c) ==
    /\ main[c] = "stream"
    /\ link[c] # "stuck"
    /\ shown' = IF clientHere[c] THEN shown \cup {AnswerTo(held[c])} ELSE shown
    /\ main' = Set(main, c, "line")
    /\ held' = Set(held, c, AnswerTo(held[c]))
    /\ link' = Set(link, c, "closed")
    /\ UNCHANGED <<kind, forward, carried, aborting, inputs, storage, reached>>

(* The same loop of a terminal passes on what the shell prints, and ends   *)
(* with it; a client that is gone may show only at a later write.          *)
ShellPrints(c) ==
    /\ kind = "terminal"
    /\ main[c] = "take"
    /\ fromAgent[c] # <<>>
    /\ fromAgent' = Pop(fromAgent, c)
    /\ IF clientHere[c]
       THEN shown' = shown \cup {Head(fromAgent[c])} /\ Step(c, "take")
       ELSE UNCHANGED shown /\ (Step(c, "take") \/ End(c))
    /\ UNCHANGED <<kind, clientHere, fromClient, sent, emitted, storage, reached>>

ShellExits(c) ==
    /\ kind = "terminal"
    /\ main[c] = "take"
    /\ fromAgent[c] = <<>>
    /\ link[c] = "closed"
    /\ End(c)
    /\ UNCHANGED <<kind, inputs, storage, outputs>>

-----------------------------------------------------------------------------
(* The task from the agent to the client, of a chat and of the proxy.      *)

Carry(c, m, next) ==
    /\ carried' = Set(carried, c, m)
    /\ forward' = Set(forward, c, next)
    /\ UNCHANGED <<link, aborting>>

EndForward(c) ==
    /\ forward' = Set(forward, c, "over")
    /\ carried' = Set(carried, c, NoMessage)
    /\ aborting' = aborting \ {c}
    /\ link' = IF main[c] = "over" THEN Set(link, c, "closed") ELSE link

(* A wrong version: stored after it was sent, so never if sending fails.   *)
TakeEventUnstored(c) ==
    /\ forward[c] = "take"
    /\ fromAgent[c] # <<>>
    /\ fromAgent' = Pop(fromAgent, c)
    /\ Carry(c, Head(fromAgent[c]), "send")
    /\ UNCHANGED <<kind, main, held, clientHere, fromClient, sent, emitted,
                   storage, outputs>>

(* A chat's final event is stored before it is passed on, if it has text.  *)
TakeEvent(c) ==
    /\ forward[c] = "take"
    /\ fromAgent[c] # <<>>
    /\ fromAgent' = Pop(fromAgent, c)
    /\ LET e == Head(fromAgent[c])
       IN Carry(c, e, IF IsAnswer(e) /\ kind = "chat" THEN "line" ELSE "send")
    /\ UNCHANGED <<kind, main, held, clientHere, fromClient, sent, emitted,
                   storage, outputs>>

StoreEvent(c) ==
    /\ \/ /\ forward[c] = "line"
          /\ Append1(carried[c])
          /\ Carry(c, carried[c], "newline")
       \/ /\ forward[c] = "line"
          /\ AppendFails(carried[c])
          /\ IF c \in aborting THEN EndForward(c) ELSE Carry(c, carried[c], "send")
       \/ /\ forward[c] = "newline"
          /\ Append2 \/ NewlineFails(carried[c])
          /\ IF c \in aborting THEN EndForward(c) ELSE Carry(c, carried[c], "send")
    /\ UNCHANGED <<kind, main, held, inputs, outputs>>

SendToClient(c) ==
    /\ forward[c] = "send"
    /\ IF clientHere[c]
       THEN shown' = shown \cup {carried[c]} /\ Carry(c, NoMessage, "take")
       ELSE UNCHANGED shown /\ (Carry(c, NoMessage, "take") \/ EndForward(c))
    /\ UNCHANGED <<kind, main, held, inputs, storage, reached>>

(* The agent closed the connection; the client of a chat is not told.      *)
AgentLeft(c) ==
    /\ forward[c] = "take"
    /\ fromAgent[c] = <<>>
    /\ link[c] = "closed"
    /\ EndForward(c)
    /\ UNCHANGED <<kind, main, held, inputs, storage, outputs>>

-----------------------------------------------------------------------------
(* Clients, agents and faults.                                             *)

Opened(c) == main[c] # "none" /\ clientHere[c]

ClientSends(c) ==
    /\ Opened(c)
    /\ kind # "send"
    /\ sent[c] < MaxSent[kind]
    /\ sent' = [sent EXCEPT ![c] = @ + 1]
    /\ \E role \in CASE kind = "chat" -> {"user", "verbatim", "control"}
                     [] kind = "proxy" -> {"user"}
                     [] OTHER -> {"user", "control"} :
          fromClient' = [fromClient EXCEPT ![c] = Append(@, <<c, role, sent'[c]>>)]
    /\ UNCHANGED <<kind, tasks, link, clientHere, fromAgent, emitted, storage, outputs>>

(* With a close frame or without; what was sent may be lost.  The handler  *)
(* of send_message is dropped with its HTTP connection, at an await.       *)
ClientGoes(c) ==
    /\ Opened(c)
    /\ clientHere' = Set(clientHere, c, FALSE)
    /\ fromClient' \in {Set(fromClient, c, <<>>),
                        [fromClient EXCEPT ![c] = Append(@, Close)]}
    /\ IF kind = "send" /\ main[c] \in {"connect", "send", "collect", "collected"}
       THEN End(c)
       ELSE UNCHANGED <<tasks, link>>
    /\ UNCHANGED <<kind, fromAgent, sent, emitted, storage, outputs>>

AgentEmits(c) ==
    /\ link[c] = "up"
    /\ kind # "direct"
    /\ emitted[c] < MaxEvents[kind]
    /\ emitted' = [emitted EXCEPT ![c] = @ + 1]
    /\ \E role \in IF kind \in {"proxy", "terminal"} THEN {"delta"} ELSE {"delta", "agent", "mute"} :
          fromAgent' = [fromAgent EXCEPT ![c] = Append(@, <<c, role, emitted'[c]>>)]
    /\ UNCHANGED <<kind, tasks, link, clientHere, fromClient, sent, storage, outputs>>

(* The agent, or the shell, stops reading, or is gone.                     *)
AgentGoes(c) ==
    /\ link[c] \in {"up", "stuck"}
    /\ \E state \in {"stuck", "closed"} \ {link[c]} : link' = Set(link, c, state)
    /\ UNCHANGED <<kind, tasks, inputs, storage, outputs>>

(* What the tasks that are about to write have in hand.                    *)
Beginning ==
    {held[c] : c \in {d \in Conns : main[d] = "line"}}
         \cup {carried[c] : c \in {d \in Conns : forward[d] = "line"}}

(* The orchestrator dies, between any two writes or inside one, and starts *)
(* again.                                                                  *)
Crash ==
    /\ Strike
    /\ \/ torn' = Unfinished /\ UNCHANGED <<file, damaged>>
       \/ \E m \in Beginning : CutShort(m)
    /\ main' = [c \in Conns |-> IF main[c] = "none" THEN "none" ELSE "over"]
    /\ forward' = [c \in Conns |-> IF main[c] = "none" THEN "off" ELSE "over"]
    /\ held' = [c \in Conns |-> NoMessage]
    /\ carried' = [c \in Conns |-> NoMessage]
    /\ link' = [c \in Conns |-> "closed"]
    /\ clientHere' = [c \in Conns |-> FALSE]
    /\ aborting' = {}
    /\ UNCHANGED <<kind, fromClient, fromAgent, sent, emitted, skipped, outputs>>

-----------------------------------------------------------------------------
Init ==
    /\ kind \in Kinds
    /\ main = [c \in Conns |-> "none"] /\ held = [c \in Conns |-> NoMessage]
    /\ forward = [c \in Conns |-> "off"] /\ carried = [c \in Conns |-> NoMessage]
    /\ clientHere = [c \in Conns |-> FALSE] /\ link = [c \in Conns |-> "closed"]
    /\ fromClient = [c \in Conns |-> <<>>] /\ fromAgent = [c \in Conns |-> <<>>]
    /\ sent = [c \in Conns |-> 0] /\ emitted = [c \in Conns |-> 0]
    /\ aborting = {} /\ file = <<>> /\ torn = {} /\ faults = MaxFaults
    /\ reached = {} /\ shown = {} /\ damaged = {} /\ skipped = {}

Serve(c) ==
    \/ Connect(c) \/ TakeMessage(c) \/ ClientLeft(c) \/ Store(c) \/ SendToAgent(c)
    \/ Collect(c) \/ Reply(c) \/ Ask(c) \/ Finalize(c)
    \/ ShellPrints(c) \/ ShellExits(c)
Forward(c) == TakeEvent(c) \/ StoreEvent(c) \/ SendToClient(c) \/ AgentLeft(c)
Outside(c) ==
    Open(c) \/ ClientSends(c) \/ ClientGoes(c) \/ AgentEmits(c) \/ AgentGoes(c)

Next == (\E c \in Conns : Serve(c) \/ Forward(c) \/ Outside(c)) \/ Crash

(* tokio runs a task that can go on; nothing is asked of the other side.   *)
Fairness == \A c \in Conns : WF_vars(Serve(c)) /\ WF_vars(Forward(c))

Spec == Init /\ [][Next]_vars /\ Fairness

-----------------------------------------------------------------------------
(* Every variable has its type; a handler that stores, sends or asks has a *)
(* message to do it with, and only a forwarding task inside an append is   *)
(* still to be aborted.                                                    *)
TypeOK ==
    /\ kind \in Kinds
    /\ main \in [Conns -> {"none", "connect", "take", "line", "newline", "send",
                           "collect", "collected", "reply", "ask", "stream", "over"}]
    /\ forward \in [Conns -> {"off", "take", "line", "newline", "send", "over"}]
    /\ link \in [Conns -> {"up", "stuck", "closed"}]
    /\ \A c \in Conns :
          /\ held[c] \in Messages \cup {NoMessage}
          /\ main[c] \in {"line", "newline", "send", "collect", "collected", "ask",
                          "stream", "reply"} => held[c] \in Messages
          /\ forward[c] \in {"line", "newline", "send"} => carried[c] \in Messages
    /\ aborting \subseteq {c \in Conns : forward[c] \in {"line", "newline"}}
    /\ \A i \in DOMAIN file : file[i] \in Entries

(* What was appended whole is loaded again, whatever is appended before,   *)
(* after and by whom, and after a restart, with two exceptions.  An append *)
(* that meets another one half done or cut short (of another connection,   *)
(* of the same chat's other task, after an error that was only logged, or  *)
(* of a process that died) merges with it, and both messages are skipped.  *)
(* And one message cut inside a character makes every load of the file     *)
(* fail for ever, which the direct chat takes for an empty history.        *)
StoredIsLoaded ==
    Broken \notin {file[i] : i \in DOMAIN file} =>
        \A i \in DOMAIN file :
            file[i] \in Messages \ damaged => file[i] \in Loaded

(* Nobody sees in a chat what its history should have and has not: an      *)
(* agent has got no plain text, a client no final answer with text, that   *)
(* is not in the file, hang-ups, aborts and the crash included, unless     *)
(* storing it failed, which is only logged.  The history is not made for   *)
(* the rest: OpenClaw requests, texts that do not parse, final events      *)
(* without a text item and those before the final one pass unstored.       *)
HistoryBeforeDelivery ==
    kind = "chat" =>
        \A m \in reached \cup shown :
            IsQuestion(m) \/ IsAnswer(m) =>
                m \in skipped \/ \E i \in DOMAIN file : file[i] = m

(* An answer is stored after its question, never without it, however the   *)
(* turns of several connections meet in the file.                          *)
AnswersFollowQuestions ==
    kind \in {"direct", "team", "send"} =>
        \A i \in DOMAIN file :
            IsAnswer(file[i]) =>
                \E q \in skipped \cup {file[j] : j \in 1 .. i - 1} :
                    IsQuestion(q) /\ AnswerTo(q) = file[i]

(* When its client is gone nothing of a connection goes on running, except *)
(* what its agent keeps: a handler that it blocks by not reading, and the  *)
(* proxy's task, that nobody ends, for as long as its connection is up.    *)
Ended(c) == main[c] = "over" /\ forward[c] \in {"off", "over"}
KeptByAgent(c) ==
    link[c] = "stuck" \/ (kind = "proxy" /\ main[c] = "over" /\ link[c] = "up")
AbandonedEnds ==
    \A c \in Conns :
        (main[c] # "none" /\ ~clientHere[c]) ~> (Ended(c) \/ KeptByAgent(c))
=============================================================================
