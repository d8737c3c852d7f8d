----------------------------- MODULE MessageQueue -----------------------------
(***************************************************************************)
(* The calculator over a POSIX message queue (assignment 8, p2): processes *)
(* that run the server, and clients that open its queue, send additions    *)
(* and perhaps the command to quit, and close it.  They start at any time. *)
(* The sum itself is one addition and is left out: the server prints an    *)
(* answer or it does not.                                                  *)
(*                                                                         *)
(* A queue lives on without its name while a process has it open.  Each    *)
(* server creates at most one, so a queue is called by its server.         *)
(***************************************************************************)
EXTENDS Integers, Sequences, FiniteSets

CONSTANTS Servers, Clients,
          MaxMsg,       \* capacity of a queue; 10 in the code
          MaxSends,     \* bound: messages a client sends
          Interrupts,   \* may a signal interrupt a receive or a send?
          Kills         \* may a server be killed?

ASSUME QueueAssumption == /\ MaxMsg \in Nat \ {0}
                          /\ MaxSends \in Nat
                          /\ Interrupts \in BOOLEAN
                          /\ Kills \in BOOLEAN

NoQueue == "no queue"

ASSUME NameAssumption == NoQueue \notin Servers

VARIABLES
    named,             \* the queue that has the name, or NoQueue
    content,           \* messages in each queue
    server, opened,    \* of each server: where it is, the queue it reads
    hadError,          \* the local variable of runServer
    client, handle,    \* of each client: where it is, the queue it writes
    unsent,            \* messages each client may still send
    sent, answered     \* history of each queue: messages sent, adds printed

serverVars == <<server, opened, hadError>>
clientVars == <<client, handle, unsent>>
vars == <<named, content, serverVars, clientVars, sent, answered>>

Init == /\ named = NoQueue
        /\ content = [q \in Servers |-> << >>]
        /\ server = [s \in Servers |-> "off"]
        /\ opened = [s \in Servers |-> NoQueue]
        /\ hadError = [s \in Servers |-> FALSE]
        /\ client = [c \in Clients |-> "off"]
        /\ handle = [c \in Clients |-> NoQueue]
        /\ unsent = [c \in Clients |-> MaxSends]
        /\ sent = [q \in Servers |-> << >>]
        /\ answered = [q \in Servers |-> << >>]

-----------------------------------------------------------------------------
(* Mutated: no O_EXCL; the result of mq_open is not looked at.             *)
CreateShared(s) ==
    /\ server' = [server EXCEPT ![s] = "receive"]
    /\ named' = IF named = NoQueue THEN s ELSE named
    /\ opened' = [opened EXCEPT ![s] = named']

(* mq_open with O_CREAT and O_EXCL: it fails if the name exists, and then  *)
(* runServer returns -1.                                                   *)
Create(s) ==
    IF named = NoQueue
      THEN /\ named' = s
           /\ opened' = [opened EXCEPT ![s] = s]
           /\ server' = [server EXCEPT ![s] = "receive"]
      ELSE /\ server' = [server EXCEPT ![s] = "failed"]
           /\ UNCHANGED <<named, opened>>

StartServer(s) ==
    /\ server[s] = "off"
    /\ Create(s)
    /\ UNCHANGED <<content, hadError, clientVars, sent, answered>>

(* Mutated: CmdQuit does not end the loop; it falls through to the next    *)
(* case.                                                                   *)
HandleForever(s, m) ==
    /\ answered' = IF m.command = "add"
                     THEN [answered EXCEPT ![opened[s]] = Append(@, m)]
                     ELSE answered
    /\ UNCHANGED serverVars
HandleThrough(s, m) ==
    /\ answered' = [answered EXCEPT ![opened[s]] = Append(@, m)]
    /\ server' = IF m.command = "quit"
                   THEN [server EXCEPT ![s] = "close"] ELSE server
    /\ UNCHANGED <<opened, hadError>>

(* The switch over the command: an addition is printed, CmdQuit ends the   *)
(* loop.  The clients send no other command.                               *)
Handle(s, m) ==
    /\ \/ /\ m.command = "add"
          /\ answered' = [answered EXCEPT ![opened[s]] = Append(@, m)]
          /\ UNCHANGED server
       \/ /\ m.command = "quit"
          /\ server' = [server EXCEPT ![s] = "close"]
          /\ UNCHANGED answered
    /\ UNCHANGED <<opened, hadError>>

(* mq_receive takes the oldest message: all have the same priority.        *)
Receive(s) ==
    LET queue == content[opened[s]] IN
    /\ server[s] = "receive"
    /\ queue # << >>
    /\ content' = [content EXCEPT ![opened[s]] = Tail(@)]
    /\ Handle(s, Head(queue))
    /\ UNCHANGED <<named, clientVars, sent>>

(* An error ends the loop as well.                                         *)
ReceiveFails(s) ==
    /\ Interrupts
    /\ server[s] = "receive"
    /\ hadError' = [hadError EXCEPT ![s] = TRUE]
    /\ server' = [server EXCEPT ![s] = "close"]
    /\ UNCHANGED <<named, content, opened, clientVars, sent, answered>>

(* Mutated: after an error the queue is closed and not unlinked.           *)
CloseOnly(s) == server' = [server EXCEPT ![s] = IF hadError[s] THEN "failed"
                                                               ELSE "unlink"]

(* mq_close(server).                                                       *)
Close(s) == server' = [server EXCEPT ![s] = "unlink"]

CloseServer(s) ==
    /\ server[s] = "close"
    /\ Close(s)
    /\ UNCHANGED <<named, content, opened, hadError, clientVars, sent, answered>>

(* mq_unlink(QUEUE_NAME) takes the name off whatever queue has it, and     *)
(* fails if none has.                                                      *)
Unlink(s) ==
    /\ server[s] = "unlink"
    /\ named' = NoQueue
    /\ hadError' = [hadError EXCEPT ![s] = @ \/ named = NoQueue]
    /\ server' = [server EXCEPT ![s] = IF hadError'[s] THEN "failed" ELSE "ok"]
    /\ UNCHANGED <<content, opened, clientVars, sent, answered>>

(* The name of the queue outlives a killed server.                         *)
Kill(s) ==
    /\ Kills
    /\ server[s] \in {"receive", "close", "unlink"}
    /\ server' = [server EXCEPT ![s] = "killed"]
    /\ UNCHANGED <<named, content, opened, hadError, clientVars, sent, answered>>

-----------------------------------------------------------------------------
(* startClient fails when no queue has the name; the client exits then.    *)
startClient(c) ==
    /\ client[c] = "off"
    /\ IF named = NoQueue
         THEN /\ client' = [client EXCEPT ![c] = "failed"]
              /\ UNCHANGED handle
         ELSE /\ client' = [client EXCEPT ![c] = "open"]
              /\ handle' = [handle EXCEPT ![c] = named]
    /\ UNCHANGED <<named, content, serverVars, unsent, sent, answered>>

(* Mutated: CmdQuit is sent with a higher priority.                        *)
PutUrgent(queue, m) == IF m.command = "quit" THEN <<m>> \o queue
                                             ELSE Append(queue, m)

(* mq_send with priority 0.                                                *)
Put(queue, m) == Append(queue, m)

(* It blocks while the queue is full.  An interrupted mq_send sends        *)
(* nothing, and the client goes on with its next message.                  *)
Send(c, command) ==
    LET m == [command |-> command, from |-> c] IN
    /\ client[c] = "open"
    /\ unsent[c] > 0
    /\ unsent' = [unsent EXCEPT ![c] = @ - 1]
    /\ \/ /\ Len(content[handle[c]]) < MaxMsg
          /\ content' = [content EXCEPT ![handle[c]] = Put(@, m)]
          /\ sent' = [sent EXCEPT ![handle[c]] = Append(@, m)]
       \/ /\ Interrupts
          /\ UNCHANGED <<content, sent>>
    /\ UNCHANGED <<named, serverVars, client, handle, answered>>

sendAddTask(c)  == Send(c, "add")
sendQuitTask(c) == Send(c, "quit")

stopClient(c) ==
    /\ client[c] = "open"
    /\ client' = [client EXCEPT ![c] = "closed"]
    /\ UNCHANGED <<named, content, serverVars, handle, unsent, sent, answered>>

ServerStep(s) == Receive(s) \/ ReceiveFails(s) \/ CloseServer(s) \/ Unlink(s)
ClientStep(c) == sendAddTask(c) \/ sendQuitTask(c) \/ stopClient(c)

Next == \/ \E s \in Servers : StartServer(s) \/ ServerStep(s) \/ Kill(s)
        \/ \E c \in Clients : startClient(c) \/ ClientStep(c)

Spec == Init /\ [][Next]_vars

(* A server that can run runs.  Nobody has to start, to send or to close,  *)
(* and no signal has to come.                                              *)
FairSpec == Spec /\ \A s \in Servers :
                       WF_vars(Receive(s) \/ CloseServer(s) \/ Unlink(s))

-----------------------------------------------------------------------------
Messages == [command : {"add", "quit"}, from : Clients]
Running  == {"receive", "close", "unlink"}

TypeOK ==
    /\ named \in Servers \cup {NoQueue}
    /\ content \in [Servers -> Seq(Messages)]
    /\ \A q \in Servers : Len(content[q]) <= MaxMsg
    /\ server \in [Servers -> {"off", "ok", "failed", "killed"} \cup Running]
    /\ opened \in [Servers -> Servers \cup {NoQueue}]
    /\ \A s \in Servers : server[s] \in Running => opened[s] # NoQueue
    /\ hadError \in [Servers -> BOOLEAN]
    /\ client \in [Clients -> {"off", "open", "closed", "failed"}]
    /\ handle \in [Clients -> Servers \cup {NoQueue}]
    /\ unsent \in [Clients -> 0 .. MaxSends]
    /\ sent \in [Servers -> Seq(Messages)]
    /\ answered \in [Servers -> Seq(Messages)]

Quits(q) == {i \in 1 .. Len(sent[q]) : sent[q][i].command = "quit"}

(* Where the additions are that were sent before anyone said to quit.      *)
Due(q) == {i \in 1 .. Len(sent[q]) : /\ sent[q][i].command = "add"
                                     /\ \A j \in Quits(q) : i < j}

(* The printed answers are those to the messages at these places of what   *)
(* was sent, in this order and once each.                                  *)
AnswersTo(q, places) ==
    /\ Len(answered[q]) = Cardinality(places)
    /\ \A i \in places :
          answered[q][Cardinality({j \in places : j <= i})] = sent[q][i]

(* A server that returns 0 has answered, in order and once, the additions  *)
(* that any client sent before the first command to quit, and no others.   *)
QuitMeansDone ==
    \A s \in Servers : server[s] = "ok" => AnswersTo(opened[s], Due(opened[s]))

(* Two servers never take messages from the same queue.                    *)
OneReader == \A s, u \in Servers :
                server[s] = "receive" /\ server[u] = "receive"
                /\ opened[s] = opened[u] => s = u

(* A server that runs reads the queue it made, which has the name; and a   *)
(* name was left by nobody but a server that runs or was killed.           *)
NameOwned == /\ \A s \in Servers : server[s] \in Running =>
                                      opened[s] = s /\ named = s
             /\ named # NoQueue => server[named] \in Running \cup {"killed"}

(* A client that has a queue open has that of a server.                    *)
HandlesOpen == \A c \in Clients : client[c] = "open" => handle[c] \in Servers

(* The conjunction is inductive.                                           *)
QueueInv == TypeOK /\ NameOwned /\ HandlesOpen

(* A queue has one reader, the server that made it, and its name goes with *)
(* it, whatever is interrupted or killed.                                  *)
QueueSound == /\ QueueInv
              /\ OneReader

(* A server takes the name off its own queue, never off that of a server   *)
(* started while it was shutting down.                                     *)
OwnQueue == [][\A s \in Servers : Unlink(s) => named = opened[s]]_vars

(* A server starts unless another one runs or was killed.                  *)
FailsOnlyIfLeft ==
    [][\A s \in Servers :
          server[s] = "off" /\ server'[s] = "failed" =>
              \E u \in Servers : server[u] \in Running \cup {"killed"}]_vars

(* Once told to quit a server ends, whatever the clients go on sending.    *)
ServerEnds ==
    \A s \in Servers :
        server[s] \in Running /\ Quits(opened[s]) # {}
            ~> server[s] \notin Running

(* Every addition sent before the first command to quit is answered, but   *)
(* for an error or a signal that ends the server of the queue.             *)
AddsAnswered ==
    \A q \in Servers : \A n \in 1 .. MaxSends * Cardinality(Clients) :
        Cardinality(Due(q)) >= n ~> \/ Len(answered[q]) >= n
                                    \/ hadError[q]
                                    \/ server[q] = "killed"
=============================================================================
