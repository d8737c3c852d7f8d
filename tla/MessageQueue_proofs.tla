-------------------------- MODULE MessageQueue_proofs --------------------------
(***************************************************************************)
(* Who owns the name of the queue, for any servers and clients, any size   *)
(* of a queue, and whatever is interrupted or killed.                      *)
(***************************************************************************)
EXTENDS MessageQueue, SequenceTheorems, FiniteSetTheorems, TLAPS

USE QueueAssumption, NameAssumption

-----------------------------------------------------------------------------
LEMMA InitQueue == Init => QueueInv
<1> SUFFICES ASSUME Init PROVE QueueInv
  OBVIOUS
<1> USE DEF Init
<1>1. TypeOK
  <2>1. << >> \in Seq(Messages) /\ Len(<< >>) = 0
    OBVIOUS
  <2>2. /\ content \in [Servers -> Seq(Messages)]
        /\ sent \in [Servers -> Seq(Messages)]
        /\ answered \in [Servers -> Seq(Messages)]
        /\ \A q \in Servers : Len(content[q]) <= MaxMsg
    BY <2>1
  <2>3. unsent \in [Clients -> 0 .. MaxSends]
    OBVIOUS
  <2> QED BY <2>2, <2>3 DEF TypeOK, Running
<1>2. NameOwned
  BY DEF NameOwned, Running
<1>3. HandlesOpen
  BY DEF HandlesOpen
<1> QED BY <1>1, <1>2, <1>3 DEF QueueInv

(* The steps of servers.                                                   *)
LEMMA StartPreserves ==
  ASSUME QueueInv, NEW s \in Servers, StartServer(s)
  PROVE  QueueInv'
<1> USE DEF QueueInv, StartServer, Create, clientVars, Running
<1>1. CASE named = NoQueue
  <2>1. \A u \in Servers : server[u] \notin Running
    BY <1>1 DEF NameOwned
  <2>2. /\ named' = s
        /\ opened' = [opened EXCEPT ![s] = s]
        /\ server' = [server EXCEPT ![s] = "receive"]
        /\ UNCHANGED <<content, hadError, client, handle, unsent, sent, answered>>
    BY <1>1
  <2>3. TypeOK'
    BY <2>2 DEF TypeOK
  <2>4. NameOwned'
    BY <2>1, <2>2 DEF TypeOK, NameOwned
  <2> QED BY <2>2, <2>3, <2>4 DEF HandlesOpen
<1>2. CASE named # NoQueue
  <2>1. /\ server' = [server EXCEPT ![s] = "failed"]
        /\ server[s] = "off"
        /\ UNCHANGED <<named, opened, content, hadError, client, handle, unsent, sent,
                       answered>>
    BY <1>2
  <2>2. TypeOK'
    BY <2>1 DEF TypeOK
  <2>3. NameOwned'
    BY <2>1 DEF TypeOK, NameOwned
  <2> QED BY <2>1, <2>2, <2>3 DEF HandlesOpen
<1> QED BY <1>1, <1>2

LEMMA ReceivePreserves ==
  ASSUME QueueInv, NEW s \in Servers, Receive(s)
  PROVE  QueueInv'
<1> USE DEF QueueInv, Receive
<1> DEFINE q == opened[s]
           m == Head(content[q])
<1>1. q \in Servers /\ content[q] \in Seq(Messages) /\ content[q] # << >>
  BY DEF TypeOK, Running
<1>2. /\ m \in Messages
      /\ Tail(content[q]) \in Seq(Messages)
      /\ Len(Tail(content[q])) <= MaxMsg
  BY <1>1 DEF TypeOK
<1>3. /\ content' \in [Servers -> Seq(Messages)]
      /\ \A u \in Servers : Len(content'[u]) <= MaxMsg
  BY <1>1, <1>2 DEF TypeOK
<1>4. answered' \in [Servers -> Seq(Messages)]
  <2>1. answered' = answered \/ answered' = [answered EXCEPT ![q] = Append(@, m)]
    BY DEF Handle
  <2>2. Append(answered[q], m) \in Seq(Messages)
    BY <1>1, <1>2 DEF TypeOK
  <2> QED BY <1>1, <2>1, <2>2 DEF TypeOK
<1>5. /\ server' = server \/ server' = [server EXCEPT ![s] = "close"]
      /\ UNCHANGED <<named, opened, hadError, clientVars, sent>>
  BY DEF Handle
<1>6. server[s] = "receive"
  OBVIOUS
<1>7. TypeOK'
  BY <1>3, <1>4, <1>5, <1>6 DEF TypeOK, Running, clientVars
<1>8. NameOwned' /\ HandlesOpen'
  BY <1>5, <1>6 DEF TypeOK, NameOwned, HandlesOpen, Running, clientVars
<1> QED BY <1>7, <1>8

LEMMA EndPreserves ==
  ASSUME QueueInv, NEW s \in Servers,
         ReceiveFails(s) \/ CloseServer(s) \/ Unlink(s) \/ Kill(s)
  PROVE  QueueInv'
<1> USE DEF QueueInv, TypeOK, NameOwned, HandlesOpen, Running, clientVars
<1>1. CASE ReceiveFails(s)
  BY <1>1 DEF ReceiveFails
<1>2. CASE CloseServer(s)
  BY <1>2 DEF CloseServer, Close
<1>3. CASE Unlink(s)
  BY <1>3 DEF Unlink
<1>4. CASE Kill(s)
  BY <1>4 DEF Kill
<1> QED BY <1>1, <1>2, <1>3, <1>4

(* The steps of clients.                                                   *)
LEMMA ClientPreserves ==
  ASSUME QueueInv, NEW c \in Clients, startClient(c) \/ ClientStep(c)
  PROVE  QueueInv'
<1> USE DEF QueueInv
<1>1. CASE startClient(c)
  <2>1. /\ \/ client' = [client EXCEPT ![c] = "failed"] /\ handle' = handle
           \/ /\ named # NoQueue
              /\ client' = [client EXCEPT ![c] = "open"]
              /\ handle' = [handle EXCEPT ![c] = named]
        /\ UNCHANGED <<named, content, server, opened, hadError, unsent, sent, answered>>
    BY <1>1 DEF startClient, serverVars
  <2>2. TypeOK'
    <3>1. /\ client' \in [Clients -> {"off", "open", "closed", "failed"}]
          /\ handle' \in [Clients -> Servers \cup {NoQueue}]
      <4>1. named \in Servers \cup {NoQueue}
        BY DEF TypeOK
      <4>2. /\ client \in [Clients -> {"off", "open", "closed", "failed"}]
            /\ handle \in [Clients -> Servers \cup {NoQueue}]
        BY DEF TypeOK
      <4>3. CASE client' = [client EXCEPT ![c] = "failed"] /\ handle' = handle
        BY <4>2, <4>3
      <4>4. CASE /\ client' = [client EXCEPT ![c] = "open"]
                 /\ handle' = [handle EXCEPT ![c] = named]
        BY <4>1, <4>2, <4>4
      <4> QED BY <2>1, <4>3, <4>4
    <3> QED BY <2>1, <3>1 DEF TypeOK
  <2>3. HandlesOpen'
    BY <2>1 DEF TypeOK, HandlesOpen
  <2> QED BY <2>1, <2>2, <2>3 DEF NameOwned
<1>2. CASE stopClient(c)
  <2>1. /\ client' = [client EXCEPT ![c] = "closed"]
        /\ UNCHANGED <<named, content, server, opened, hadError, handle, unsent, sent,
                       answered>>
    BY <1>2 DEF stopClient, serverVars
  <2>2. TypeOK'
    BY <2>1 DEF TypeOK
  <2>3. HandlesOpen'
    BY <2>1 DEF TypeOK, HandlesOpen
  <2> QED BY <2>1, <2>2, <2>3 DEF NameOwned
<1>3. ASSUME NEW k \in {"add", "quit"}, Send(c, k) PROVE QueueInv'
  <2> DEFINE q == handle[c]
             m == [command |-> k, from |-> c]
  <2>1. m \in Messages /\ q \in Servers
    BY <1>3 DEF Send, Messages, HandlesOpen
  <2>2. /\ unsent' = [unsent EXCEPT ![c] = @ - 1] /\ unsent[c] > 0
        /\ UNCHANGED <<named, server, opened, hadError, client, handle, answered>>
        /\ \/ /\ Len(content[q]) < MaxMsg
              /\ content' = [content EXCEPT ![q] = Append(@, m)]
              /\ sent' = [sent EXCEPT ![q] = Append(@, m)]
           \/ UNCHANGED <<content, sent>>
    BY <1>3 DEF Send, Put, serverVars
  <2>3. /\ content[q] \in Seq(Messages) /\ Append(content[q], m) \in Seq(Messages)
        /\ Len(Append(content[q], m)) = Len(content[q]) + 1
        /\ Append(sent[q], m) \in Seq(Messages)
    BY <2>1 DEF TypeOK
  <2>4. /\ content' \in [Servers -> Seq(Messages)]
        /\ sent' \in [Servers -> Seq(Messages)]
    <3>1. CASE UNCHANGED <<content, sent>>
      BY <3>1 DEF TypeOK
    <3>2. CASE /\ content' = [content EXCEPT ![q] = Append(@, m)]
               /\ sent' = [sent EXCEPT ![q] = Append(@, m)]
      <4> HIDE DEF q, m
      <4> QED BY <2>1, <2>3, <3>2 DEF TypeOK
    <3> QED BY <2>2, <3>1, <3>2
  <2>5. \A u \in Servers : Len(content'[u]) <= MaxMsg
    <3>1. CASE UNCHANGED content
      BY <3>1 DEF TypeOK
    <3>2. CASE /\ content' = [content EXCEPT ![q] = Append(@, m)]
               /\ Len(content[q]) < MaxMsg
      <4>1. Len(content[q]) \in Nat
        BY <2>3
      <4> HIDE DEF q, m
      <4> QED BY <2>1, <2>3, <3>2, <4>1 DEF TypeOK
    <3> QED BY <2>2, <3>1, <3>2
  <2>6. unsent' \in [Clients -> 0 .. MaxSends]
    BY <2>2 DEF TypeOK
  <2>7. TypeOK'
    BY <2>2, <2>4, <2>5, <2>6 DEF TypeOK
  <2> QED BY <2>2, <2>7 DEF NameOwned, HandlesOpen
<1> QED BY <1>1, <1>2, <1>3 DEF ClientStep, sendAddTask, sendQuitTask

LEMMA NextQueue == QueueInv /\ [Next]_vars => QueueInv'
<1> SUFFICES ASSUME QueueInv, [Next]_vars PROVE QueueInv'
  OBVIOUS
<1>1. CASE Next
  BY <1>1, StartPreserves, ReceivePreserves, EndPreserves, ClientPreserves
     DEF Next, ServerStep
<1>2. CASE UNCHANGED vars
  BY <1>2 DEF vars, serverVars, clientVars, QueueInv, TypeOK, NameOwned, HandlesOpen
<1> QED BY <1>1, <1>2

(* Types, and who owns the name, whatever is interrupted or killed.        *)
THEOREM QueueSafety == Spec => []QueueInv
<1> QED BY InitQueue, NextQueue, PTL DEF Spec

(* At most one server takes messages from a queue, no queue holds more     *)
(* than it may, and a name is that of a server that runs or was killed.    *)
THEOREM QueueAlwaysSound == Spec => []QueueSound
<1>1. QueueInv => QueueSound
  BY DEF QueueInv, NameOwned, OneReader, Running, QueueSound
<1> QED BY <1>1, QueueSafety, PTL

(* A server that ends never removes the name of another one's queue.       *)
THEOREM UnlinksOwn == Spec => OwnQueue
<1>1. QueueInv /\ [Next]_vars => [\A s \in Servers : Unlink(s) => named = opened[s]]_vars
  BY DEF QueueInv, NameOwned, Running, Unlink
<1> QED BY <1>1, QueueSafety, PTL DEF Spec, OwnQueue

(* mq_open fails only where a server runs or was killed.                   *)
THEOREM StartsUnlessLeft == Spec => FailsOnlyIfLeft
<1> DEFINE Left == \A s \in Servers :
                      server[s] = "off" /\ server'[s] = "failed" =>
                         \E u \in Servers : server[u] \in Running \cup {"killed"}
<1>1. QueueInv /\ [Next]_vars => [Left]_vars
  <2> SUFFICES ASSUME QueueInv, Next, NEW s \in Servers,
                      server[s] = "off", server'[s] = "failed"
               PROVE  named \in Servers /\ server[named] \in Running \cup {"killed"}
    OBVIOUS
  <2>1. named # NoQueue
    <3>1. ASSUME NEW u \in Servers, StartServer(u) PROVE named # NoQueue
      BY <3>1 DEF StartServer, Create, QueueInv, TypeOK
    <3>2. ASSUME NEW u \in Servers, ServerStep(u) \/ Kill(u) PROVE FALSE
      BY <3>2 DEF ServerStep, Kill, Receive, Handle, ReceiveFails, CloseServer, Close,
                  Unlink, QueueInv, TypeOK, Running
    <3>3. ASSUME NEW c \in Clients, startClient(c) \/ ClientStep(c) PROVE FALSE
      BY <3>3 DEF startClient, ClientStep, sendAddTask, sendQuitTask, Send, stopClient,
                  serverVars
    <3> QED BY <3>1, <3>2, <3>3 DEF Next
  <2> QED BY <2>1 DEF QueueInv, TypeOK, NameOwned
<1> QED BY <1>1, QueueSafety, PTL DEF Spec, FailsOnlyIfLeft

-----------------------------------------------------------------------------
(* What became of the messages that were sent to a queue: the first ones   *)
(* were received, the others wait in it.                                   *)
Received(q) == Len(sent[q]) - Len(content[q])
Adds(q)     == {i \in 1 .. Received(q) : sent[q][i].command = "add"}

Delivered(q) ==
    /\ Received(q) >= 0
    /\ \A k \in 1 .. Len(content[q]) : content[q][k] = sent[q][Received(q) + k]

(* Whether the server of a queue has met the first command to quit.        *)
Told(q) ==
    /\ server[q] \in {"off", "receive"} => \A j \in Quits(q) : j > Received(q)
    /\ server[q] \in {"close", "unlink", "ok"} /\ ~hadError[q] =>
          /\ Received(q) \in Quits(q)
          /\ \A j \in Quits(q) : j >= Received(q)
    /\ server[q] = "ok" => opened[q] = q /\ ~hadError[q]

(* The answers are those to the additions received so far, in every state  *)
(* and not only when the server returns.                                   *)
QueueHistory == \A q \in Servers : /\ Delivered(q)
                                   /\ AnswersTo(q, Adds(q))
                                   /\ Told(q)

LEMMA InitHistory == Init => QueueHistory
<1> SUFFICES ASSUME Init, NEW q \in Servers
             PROVE  Delivered(q) /\ AnswersTo(q, Adds(q)) /\ Told(q)
  BY DEF QueueHistory
<1>1. /\ content[q] = << >> /\ sent[q] = << >> /\ answered[q] = << >>
      /\ server[q] = "off"
  BY DEF Init
<1>2. Received(q) = 0 /\ Adds(q) = {} /\ Quits(q) = {}
  BY <1>1 DEF Received, Adds, Quits
<1>3. AnswersTo(q, {})
  <2>1. Cardinality({}) = 0
    BY FS_EmptySet
  <2> QED BY <1>1, <2>1 DEF AnswersTo
<1>4. Delivered(q)
  BY <1>1, <1>2 DEF Delivered
<1>5. Told(q)
  BY <1>1, <1>2 DEF Told
<1> QED BY <1>2, <1>3, <1>4, <1>5

(* The places up to one of them are as many as its number among them.      *)
LEMMA Places ==
  ASSUME NEW n \in Nat, NEW S \in SUBSET (1 .. n), NEW i \in S
  PROVE  /\ IsFiniteSet(S) /\ Cardinality(S) \in Nat
         /\ Cardinality({j \in S : j <= i}) \in 1 .. Cardinality(S)
<1> DEFINE B == {j \in S : j <= i}
<1>1. IsFiniteSet(1 .. n)
  BY FS_Interval
<1>2. IsFiniteSet(S)
  BY <1>1, FS_Subset
<1>3. B \in SUBSET S /\ i \in B
  BY DEF B
<1> HIDE DEF B
<1>4. IsFiniteSet(B) /\ Cardinality(B) <= Cardinality(S)
  BY <1>2, <1>3, FS_Subset
<1>5. Cardinality(B) # 0
  BY <1>3, <1>4, FS_EmptySet
<1>6. Cardinality(B) \in Nat /\ Cardinality(S) \in Nat
  BY <1>2, <1>4, FS_CardinalityType
<1>7. Cardinality(B) \in 1 .. Cardinality(S)
  BY <1>4, <1>5, <1>6
<1> QED BY <1>2, <1>6, <1>7 DEF B

(* An answer to the next place after those that were answered.             *)
LEMMA AnswerNext ==
  ASSUME NEW q, NEW n \in Nat, NEW S \in SUBSET (1 .. n), NEW T,
         answered[q] \in Seq(Messages), AnswersTo(q, S),
         T = S \cup {n + 1},
         answered'[q] = Append(answered[q], sent'[q][n + 1]),
         \A i \in S : sent'[q][i] = sent[q][i]
  PROVE  AnswersTo(q, T)'
<1>1. IsFiniteSet(S) /\ Cardinality(S) \in Nat
  <2>1. IsFiniteSet(1 .. n)
    BY FS_Interval
  <2> QED BY <2>1, FS_Subset, FS_CardinalityType
<1>2. Cardinality(T) = Cardinality(S) + 1
  <2>1. n + 1 \notin S
    OBVIOUS
  <2> QED BY <1>1, <2>1, FS_AddElement
<1>3. /\ Len(answered'[q]) = Cardinality(T)
      /\ answered'[q][Cardinality(T)] = sent'[q][n + 1]
      /\ \A k \in 1 .. Cardinality(S) : answered'[q][k] = answered[q][k]
  BY <1>1, <1>2 DEF AnswersTo
<1>4. ASSUME NEW i \in T
      PROVE  answered'[q][Cardinality({j \in T : j <= i})] = sent'[q][i]
  <2>1. CASE i = n + 1
    <3>1. \A j \in T : j <= i
      BY <2>1
    <3>2. {j \in T : j <= i} = T
      BY <3>1
    <3> QED BY <3>2, <2>1, <1>3
  <2>2. CASE i \in S
    <3>1. {j \in T : j <= i} = {j \in S : j <= i}
      BY <2>2
    <3>2. Cardinality({j \in S : j <= i}) \in 1 .. Cardinality(S)
      BY <2>2, Places
    <3>3. answered[q][Cardinality({j \in S : j <= i})] = sent[q][i]
      BY <2>2 DEF AnswersTo
    <3> QED BY <3>1, <3>2, <3>3, <2>2, <1>3
  <2> QED BY <2>1, <2>2
<1> QED BY <1>3, <1>4 DEF AnswersTo

(* The server of a queue takes a message out of it.                        *)
LEMMA ReceiveHistory ==
  ASSUME QueueInv, QueueHistory, NEW q \in Servers, Receive(q)
  PROVE  Delivered(q)' /\ AnswersTo(q, Adds(q))' /\ Told(q)'
<1> DEFINE r == Received(q)
           m == Head(content[q])
<1>1. /\ content[q] \in Seq(Messages) /\ content[q] # << >>
      /\ sent[q] \in Seq(Messages) /\ answered[q] \in Seq(Messages)
      /\ server[q] = "receive" /\ opened[q] = q
  BY DEF Receive, QueueInv, TypeOK, NameOwned, Running
<1>2. /\ content'[q] = Tail(content[q]) /\ sent' = sent
      /\ UNCHANGED <<opened, hadError>>
  BY <1>1 DEF Receive, Handle, QueueInv, TypeOK
<1>3. \/ /\ m.command = "add" /\ answered'[q] = Append(answered[q], m)
         /\ server'[q] = "receive"
      \/ m.command = "quit" /\ answered' = answered /\ server'[q] = "close"
  <2>1. Handle(q, m)
    BY <1>1 DEF Receive
  <2>2. /\ server \in [Servers -> {"off", "ok", "failed", "killed"} \cup Running]
        /\ answered \in [Servers -> Seq(Messages)]
    BY DEF QueueInv, TypeOK
  <2> HIDE DEF m
  <2>3. CASE m.command = "add"
    <3>1. /\ answered' = [answered EXCEPT ![opened[q]] = Append(@, m)]
          /\ server' = server
      BY <2>1, <2>3 DEF Handle
    <3>2. answered'[q] = Append(answered[q], m) /\ server'[q] = "receive"
      BY <3>1, <2>2, <1>1
    <3> QED BY <3>2, <2>3
  <2>4. CASE m.command = "quit"
    BY <2>1, <2>2, <2>4, <1>1 DEF Handle
  <2> QED BY <2>1, <2>3, <2>4 DEF Handle
<1>4. /\ r \in Nat /\ Received(q)' = r + 1
      /\ r + 1 \in 1 .. Len(sent[q]) /\ m = sent[q][r + 1]
      /\ Delivered(q)'
  <2>1. /\ r \in Int /\ r >= 0 /\ Len(content[q]) \in Nat /\ Len(content[q]) > 0
        /\ r = Len(sent[q]) - Len(content[q]) /\ Len(sent[q]) \in Nat
    <3>1. Delivered(q)
      BY DEF QueueHistory
    <3>2. Len(content[q]) \in Nat /\ Len(content[q]) > 0 /\ Len(sent[q]) \in Nat
      BY <1>1
    <3> QED BY <3>1, <3>2 DEF Delivered, Received
  <2>2. \A k \in 1 .. Len(content[q]) : content[q][k] = sent[q][r + k]
    BY DEF QueueHistory, Delivered
  <2>3. /\ Len(content'[q]) = Len(content[q]) - 1
        /\ \A k \in 1 .. Len(content[q]) - 1 : content'[q][k] = content[q][k + 1]
        /\ m = content[q][1]
    BY <1>1, <1>2
  <2>4. Received(q)' = r + 1
    <3>1. Received(q)' = Len(sent[q]) - (Len(content[q]) - 1)
      BY <1>2, <2>3 DEF Received
    <3> QED BY <2>1, <3>1
  <2>5. m = sent[q][r + 1] /\ r \in Nat /\ r + 1 \in 1 .. Len(sent[q])
    <3>1. 1 \in 1 .. Len(content[q])
      BY <2>1
    <3> HIDE DEF r, m
    <3>2. m = sent[q][r + 1]
      BY <2>2, <2>3, <3>1
    <3>3. r \in Nat /\ r + 1 \in Nat /\ r + 1 <= Len(sent[q])
      BY <2>1
    <3>4. r + 1 \in 1 .. Len(sent[q])
      <4>1. \A x, y \in Int : 1 <= x /\ x <= y => x \in 1 .. y
        OBVIOUS
      <4>2. 1 <= r + 1 /\ r + 1 \in Int /\ Len(sent[q]) \in Int
        BY <3>3, <2>1
      <4> QED BY <3>3, <4>1, <4>2, Zenon
    <3> QED BY <3>2, <3>3, <3>4
  <2>6. Delivered(q)'
    <3> HIDE DEF r, m
    <3>1. ASSUME NEW k \in 1 .. Len(content'[q])
          PROVE  content'[q][k] = sent[q][r + 1 + k]
      <4>1. k + 1 \in 1 .. Len(content[q]) /\ k \in 1 .. Len(content[q]) - 1
        BY <2>1, <2>3
      <4>2. content'[q][k] = sent[q][r + (k + 1)]
        BY <4>1, <2>2, <2>3
      <4>3. r \in Nat /\ k \in Nat
        BY <2>1, <2>5
      <4>4. r + (k + 1) = r + 1 + k
        BY <4>3
      <4> QED BY <4>2, <4>4
    <3>2. \A k \in 1 .. Len(content'[q]) : content'[q][k] = sent'[q][Received(q)' + k]
      BY <3>1, <2>4, <1>2
    <3> QED BY <2>4, <2>5, <3>2 DEF Delivered
  <2> QED BY <2>4, <2>5, <2>6
<1> HIDE DEF r, m
<1>5. AnswersTo(q, Adds(q)) /\ Adds(q) \in SUBSET (1 .. r)
  BY DEF QueueHistory, Adds, r
<1>6. Quits(q)' = Quits(q) /\ \A j \in Quits(q) : j > r
  BY <1>1, <1>2 DEF Quits, QueueHistory, Told, r
<1>7. CASE m.command = "add"
  <2>1. Adds(q)' = Adds(q) \cup {r + 1}
    BY <1>2, <1>4, <1>7 DEF Adds, r
  <2>2. answered'[q] = Append(answered[q], sent'[q][r + 1]) /\ server'[q] = "receive"
    BY <1>2, <1>3, <1>4, <1>7
  <2>3. AnswersTo(q, Adds(q))'
    <3> DEFINE S == Adds(q)
    <3>1. PICK A \in SUBSET (1 .. r) : A = S
      BY <1>5
    <3>2. PICK T : T = Adds(q)'
      OBVIOUS
    <3>3. PICK n \in Nat : n = r
      BY <1>4
    <3>4. AnswersTo(q, A) /\ T = A \cup {n + 1}
      BY <3>1, <3>2, <3>3, <2>1, <1>5
    <3>5. AnswersTo(q, T)'
      BY <3>1, <3>3, <3>4, <1>1, <1>2, <2>2, AnswerNext
    <3> QED BY <3>2, <3>5 DEF AnswersTo
  <2>4. \A j \in Quits(q) : j > r + 1
    <3>1. r + 1 \notin Quits(q)
      BY <1>4, <1>7 DEF Quits
    <3>2. \A j \in Quits(q) : j \in Int
      BY DEF Quits
    <3> QED BY <1>4, <1>6, <3>1, <3>2
  <2> QED BY <1>4, <1>6, <2>2, <2>3, <2>4 DEF Told
<1>8. CASE m.command = "quit"
  <2>1. Adds(q)' = Adds(q)
    BY <1>2, <1>4, <1>8 DEF Adds, r
  <2>2. answered' = answered /\ server'[q] = "close"
    BY <1>3, <1>8
  <2>3. AnswersTo(q, Adds(q))'
    BY <1>2, <1>5, <2>1, <2>2 DEF AnswersTo
  <2>4. r + 1 \in Quits(q) /\ \A j \in Quits(q) : j >= r + 1
    <3>1. r + 1 \in Quits(q)
      BY <1>4, <1>8 DEF Quits
    <3>2. \A j \in Quits(q) : j \in Int
      BY DEF Quits
    <3> QED BY <1>4, <1>6, <3>1, <3>2
  <2> QED BY <1>4, <1>6, <2>2, <2>3, <2>4 DEF Told
<1> QED BY <1>3, <1>7, <1>8

(* A step that sends nothing to a queue and takes nothing out of it.       *)
LEMMA SameHistory ==
  ASSUME QueueHistory, NEW q \in Servers,
         content'[q] = content[q], sent'[q] = sent[q], answered'[q] = answered[q]
  PROVE  /\ Delivered(q)' /\ AnswersTo(q, Adds(q))'
         /\ Received(q)' = Received(q) /\ Quits(q)' = Quits(q)
<1>1. Delivered(q) /\ AnswersTo(q, Adds(q))
  BY DEF QueueHistory
<1>2. Received(q)' = Received(q) /\ Quits(q)' = Quits(q)
  BY DEF Received, Quits
<1>3. Delivered(q)'
  BY <1>1, <1>2 DEF Delivered
<1>4. Adds(q)' = Adds(q)
  BY <1>2 DEF Adds
<1>5. AnswersTo(q, Adds(q))'
  BY <1>1, <1>4 DEF AnswersTo
<1> QED BY <1>2, <1>3, <1>5

(* A client puts a message into the queue.                                 *)
LEMMA SendHistory ==
  ASSUME QueueInv, QueueHistory, NEW q \in Servers, NEW m \in Messages,
         content'[q] = Append(content[q], m), sent'[q] = Append(sent[q], m),
         UNCHANGED <<server, opened, hadError, answered>>
  PROVE  Delivered(q)' /\ AnswersTo(q, Adds(q))' /\ Told(q)'
<1>1. content[q] \in Seq(Messages) /\ sent[q] \in Seq(Messages)
  BY DEF QueueInv, TypeOK
<1>2. PICK C \in Nat, S \in Nat, r \in Int :
         C = Len(content[q]) /\ S = Len(sent[q]) /\ r = Received(q)
  <2>1. Len(content[q]) \in Nat /\ Len(sent[q]) \in Nat
    BY <1>1
  <2>2. Received(q) \in Int
    BY <2>1 DEF Received
  <2> QED BY <2>1, <2>2
<1>3. r = S - C /\ r \in Nat
  <2>1. r >= 0
    BY <1>2 DEF QueueHistory, Delivered
  <2>2. r = S - C
    BY <1>2 DEF Received
  <2> QED BY <2>1, <2>2
<1>4. /\ Len(content'[q]) = C + 1 /\ Len(sent'[q]) = S + 1
      /\ content'[q][C + 1] = m /\ sent'[q][S + 1] = m
      /\ \A k \in 1 .. C : content'[q][k] = content[q][k]
      /\ \A k \in 1 .. S : sent'[q][k] = sent[q][k]
  BY <1>1, <1>2
<1>5. Received(q)' = r
  BY <1>3, <1>4 DEF Received
<1>6. Delivered(q)'
  <2>1. ASSUME NEW k \in 1 .. C + 1 PROVE content'[q][k] = sent'[q][r + k]
    <3>1. CASE k = C + 1
      <4>1. r + k = S + 1
        BY <1>3, <3>1
      <4> QED BY <4>1, <3>1, <1>4
    <3>2. CASE k \in 1 .. C
      <4>1. content[q][k] = sent[q][r + k]
        BY <1>2, <3>2 DEF QueueHistory, Delivered
      <4>2. r + k \in 1 .. S
        BY <1>3, <3>2
      <4> QED BY <4>1, <4>2, <3>2, <1>4
    <3>3. k = C + 1 \/ k \in 1 .. C
      OBVIOUS
    <3> QED BY <3>1, <3>2, <3>3
  <2>2. \A k \in 1 .. Len(content'[q]) : content'[q][k] = sent'[q][Received(q)' + k]
    <3>1. 1 .. Len(content'[q]) = 1 .. C + 1
      BY <1>4
    <3> QED BY <3>1, <2>1, <1>5
  <2>3. Received(q)' >= 0
    BY <1>3, <1>5
  <2> QED BY <2>2, <2>3 DEF Delivered
<1>7. \A i \in 1 .. r : sent'[q][i] = sent[q][i]
  BY <1>3, <1>4
<1>8. Adds(q)' = Adds(q)
  BY <1>2, <1>5, <1>7 DEF Adds
<1>9. AnswersTo(q, Adds(q))'
  <2>1. AnswersTo(q, Adds(q))
    BY DEF QueueHistory
  <2>2. \A i \in Adds(q) : sent'[q][i] = sent[q][i]
    BY <1>2, <1>7 DEF Adds
  <2> QED BY <2>1, <2>2, <1>8 DEF AnswersTo
<1>10. /\ \A j \in Quits(q)' : j \in Quits(q) \/ j = S + 1
       /\ \A j \in Quits(q) : j \in Quits(q)'
  <2>1. \A j : j \in 1 .. S + 1 <=> j \in 1 .. S \/ j = S + 1
    OBVIOUS
  <2> QED BY <2>1, <1>2, <1>4 DEF Quits
<1>11. Told(q)'
  <2>1. Told(q)
    BY DEF QueueHistory
  <2>2. S + 1 > r
    BY <1>3
  <2> QED BY <2>1, <2>2, <1>2, <1>5, <1>10 DEF Told
<1> QED BY <1>6, <1>9, <1>11

LEMMA NextHistory == QueueInv /\ QueueHistory /\ [Next]_vars => QueueHistory'
<1> SUFFICES ASSUME QueueInv, QueueHistory, [Next]_vars, NEW q \in Servers
             PROVE  Delivered(q)' /\ AnswersTo(q, Adds(q))' /\ Told(q)'
  BY DEF QueueHistory
<1>0. /\ Told(q)
      /\ server \in [Servers -> {"off", "ok", "failed", "killed"} \cup Running]
      /\ opened \in [Servers -> Servers \cup {NoQueue}]
      /\ hadError \in [Servers -> BOOLEAN]
  BY DEF QueueInv, TypeOK, QueueHistory
<1>1. ASSUME NEW s \in Servers, Receive(s)
      PROVE  Delivered(q)' /\ AnswersTo(q, Adds(q))' /\ Told(q)'
  <2>1. CASE s = q
    BY <1>1, <2>1, ReceiveHistory
  <2>2. CASE s # q
    <3>1. opened[s] = s
      BY <1>1 DEF Receive, QueueInv, TypeOK, NameOwned, Running
    <3>2. /\ content'[q] = content[q] /\ sent' = sent /\ answered'[q] = answered[q]
          /\ server'[q] = server[q] /\ UNCHANGED <<opened, hadError>>
      <4>1. /\ content \in [Servers -> Seq(Messages)]
            /\ answered \in [Servers -> Seq(Messages)]
        BY DEF QueueInv, TypeOK
      <4>2. /\ content' = [content EXCEPT ![s] = Tail(@)] /\ sent' = sent
            /\ Handle(s, Head(content[s]))
        BY <1>1, <3>1 DEF Receive
      <4>3. content'[q] = content[q]
        BY <4>1, <4>2, <2>2
      <4>4. /\ answered'[q] = answered[q] /\ server'[q] = server[q]
            /\ UNCHANGED <<opened, hadError>>
        BY <4>1, <4>2, <2>2, <3>1, <1>0 DEF Handle
      <4> QED BY <4>2, <4>3, <4>4
    <3>3. /\ Delivered(q)' /\ AnswersTo(q, Adds(q))'
          /\ Received(q)' = Received(q) /\ Quits(q)' = Quits(q)
      BY <3>2, SameHistory
    <3> QED BY <3>2, <3>3, <1>0 DEF Told
  <2> QED BY <2>1, <2>2
<1>2. ASSUME UNCHANGED <<content, sent, answered>>, Told(q)' \/ UNCHANGED <<server, opened, hadError>>
      PROVE  Delivered(q)' /\ AnswersTo(q, Adds(q))' /\ Told(q)'
  <2>1. /\ Delivered(q)' /\ AnswersTo(q, Adds(q))'
        /\ Received(q)' = Received(q) /\ Quits(q)' = Quits(q)
    BY <1>2, SameHistory
  <2> QED BY <1>2, <2>1, <1>0 DEF Told
<1>3. ASSUME NEW s \in Servers,
             StartServer(s) \/ ReceiveFails(s) \/ CloseServer(s) \/ Unlink(s) \/ Kill(s)
      PROVE  UNCHANGED <<content, sent, answered>> /\ Told(q)'
  <2>1. UNCHANGED <<content, sent, answered>>
    BY <1>3 DEF StartServer, ReceiveFails, CloseServer, Unlink, Kill
  <2>2. Received(q)' = Received(q) /\ Quits(q)' = Quits(q)
    BY <2>1 DEF Received, Quits
  <2>3. CASE StartServer(s)
    BY <2>2, <2>3, <1>0 DEF Told, StartServer, Create
  <2>4. CASE ReceiveFails(s)
    BY <2>2, <2>4, <1>0 DEF Told, ReceiveFails
  <2>5. CASE CloseServer(s)
    BY <2>2, <2>5, <1>0 DEF Told, CloseServer, Close
  <2>6. CASE Unlink(s)
    <3>1. server[s] = "unlink" => opened[s] = s
      BY DEF QueueInv, NameOwned, Running
    <3> QED BY <2>2, <2>6, <3>1, <1>0 DEF Told, Unlink
  <2>7. CASE Kill(s)
    BY <2>2, <2>7, <1>0 DEF Told, Kill
  <2> QED BY <1>3, <2>1, <2>3, <2>4, <2>5, <2>6, <2>7
<1>4. ASSUME NEW c \in Clients, startClient(c) \/ stopClient(c)
      PROVE  UNCHANGED <<content, sent, answered, server, opened, hadError>>
  BY <1>4 DEF startClient, stopClient, serverVars
<1>5. ASSUME NEW c \in Clients, NEW k \in {"add", "quit"}, Send(c, k)
      PROVE  Delivered(q)' /\ AnswersTo(q, Adds(q))' /\ Told(q)'
  <2> DEFINE m == [command |-> k, from |-> c]
  <2>1. m \in Messages
    BY DEF Messages
  <2>2. UNCHANGED <<server, opened, hadError, answered>>
    BY <1>5 DEF Send, serverVars
  <2>3. \/ UNCHANGED <<content, sent>>
        \/ /\ content' = [content EXCEPT ![handle[c]] = Append(@, m)]
           /\ sent' = [sent EXCEPT ![handle[c]] = Append(@, m)]
    BY <1>5 DEF Send, Put
  <2> HIDE DEF m
  <2>4. CASE UNCHANGED <<content, sent>>
    BY <1>2, <2>2, <2>4
  <2>5. CASE /\ content' = [content EXCEPT ![handle[c]] = Append(@, m)]
             /\ sent' = [sent EXCEPT ![handle[c]] = Append(@, m)]
    <3>1. /\ content \in [Servers -> Seq(Messages)]
          /\ sent \in [Servers -> Seq(Messages)]
      BY DEF QueueInv, TypeOK
    <3>2. CASE handle[c] = q
      <4>1. content'[q] = Append(content[q], m) /\ sent'[q] = Append(sent[q], m)
        BY <2>5, <3>1, <3>2
      <4> QED BY <4>1, <2>1, <2>2, SendHistory
    <3>3. CASE handle[c] # q
      <4>1. content'[q] = content[q] /\ sent'[q] = sent[q]
        BY <2>5, <3>1, <3>3
      <4>2. /\ Delivered(q)' /\ AnswersTo(q, Adds(q))'
            /\ Received(q)' = Received(q) /\ Quits(q)' = Quits(q)
        BY <2>2, <4>1, SameHistory
      <4> QED BY <2>2, <4>2, <1>0 DEF Told
    <3> QED BY <3>2, <3>3
  <2> QED BY <2>3, <2>4, <2>5
<1>6. CASE UNCHANGED vars
  BY <1>2, <1>6 DEF vars, serverVars
<1> QED BY <1>1, <1>2, <1>3, <1>4, <1>5, <1>6
        DEF Next, ServerStep, ClientStep, sendAddTask, sendQuitTask

(* A server that returns 0 has printed the answers to the additions sent   *)
(* before the first command to quit, in the order they were sent and once  *)
(* each, and no other answers.                                             *)
THEOREM QuitAlwaysMeansDone == Spec => []QuitMeansDone
<1>1. Init => QueueInv /\ QueueHistory
  BY InitQueue, InitHistory
<1>2. QueueInv /\ QueueHistory /\ [Next]_vars => QueueInv' /\ QueueHistory'
  BY NextQueue, NextHistory
<1>3. QueueInv /\ QueueHistory => QuitMeansDone
  <2> SUFFICES ASSUME QueueInv, QueueHistory, NEW s \in Servers, server[s] = "ok"
               PROVE  AnswersTo(opened[s], Due(opened[s]))
    BY DEF QuitMeansDone
  <2>1. /\ opened[s] = s /\ AnswersTo(s, Adds(s))
        /\ Received(s) \in Quits(s)
        /\ \A j \in Quits(s) : j >= Received(s)
    BY DEF QueueHistory, Told
  <2>2. Due(s) = Adds(s)
    <3>1. Received(s) \in 1 .. Len(sent[s]) /\ Len(sent[s]) \in Nat
      BY <2>1 DEF Quits, QueueInv, TypeOK
    <3>2. sent[s][Received(s)].command = "quit"
      BY <2>1 DEF Quits
    <3>3. \A i \in 1 .. Len(sent[s]) :
             sent[s][i].command = "add" =>
                (i \in 1 .. Received(s) <=> \A j \in Quits(s) : i < j)
      <4> SUFFICES ASSUME NEW i \in 1 .. Len(sent[s]), sent[s][i].command = "add"
                   PROVE  i \in 1 .. Received(s) <=> \A j \in Quits(s) : i < j
        OBVIOUS
      <4>1. i # Received(s)
        BY <3>2
      <4>2. \A j \in Quits(s) : j \in Int
        BY DEF Quits
      <4> QED BY <4>1, <4>2, <3>1, <2>1
    <3>4. 1 .. Received(s) \subseteq 1 .. Len(sent[s])
      BY <3>1
    <3> QED BY <3>3, <3>4 DEF Due, Adds
  <2> QED BY <2>1, <2>2
<1> QED BY <1>1, <1>2, <1>3, PTL DEF Spec
=============================================================================
