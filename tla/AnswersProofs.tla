---------------------------- MODULE AnswersProofs ----------------------------
(***************************************************************************)
(* That every client reads the answers to its own requests, and that each  *)
(* is executed once: AnswersInStep and DoneOnce, for any number of clients,*)
(* threads and requests.  The invariant is the conversation itself: what a *)
(* client has yet to read, by where it and its thread are.                 *)
(***************************************************************************)
EXTENDS SessionsProofs

-----------------------------------------------------------------------------
(* The inductive invariant.                                                *)

(* What a client has yet to read of what its thread sends, or has begun to *)
(* send.                                                                   *)
Due(t, c) == stream[c] \o rest[t]

(* A client waits to be accepted, or one thread is its own, or neither.    *)
Seated ==
  /\ \A i, j \in 1..Len(backlog) : backlog[i] = backlog[j] => i = j
  /\ \A t \in Thread : ~Free(t) =>
       /\ ~Away(holder[t])
       /\ \A u \in Thread : holder[u] = holder[t] => u = t
       /\ \A i \in 1..Len(backlog) : backlog[i] # holder[t]
  /\ \A i \in 1..Len(backlog) : ~Away(backlog[i])

Linked == \A c \in Client : Present(c) <=> link[c] = "open"

(* A client that waits to be accepted was told nothing, and asked once.    *)
Newcomer(c) ==
  /\ stream[c] = <<>> /\ told[c] = "none"
  /\ \/ stage[c] = "prompt" /\ sent[c] = <<>> /\ asked[c] = Nothing
     \/ stage[c] = "first" /\ sent[c] = <<asked[c]>>

Newcomers ==
  /\ \A i \in 1..Len(backlog) : Present(backlog[i]) => Newcomer(backlog[i])
  /\ \A c \in Client : Away(c) => /\ stream[c] = <<>> /\ told[c] = "none"
                                /\ sent[c] = <<>> /\ asked[c] = Nothing

(* Before it is forwarded a request has not been executed; once its        *)
(* outcome is there it has been executed, once.                            *)
LookingUp(t) == pc[t] \in {"fill", "read", "dispatch"}

Count(t) ==
  /\ runs[t] \in {0, 1}
  /\ LookingUp(t) \/ conn[t].stage = "queued" => runs[t] = 0
  /\ conn[t].stage \in {"done", "acked", "sent"} => runs[t] = 1

Counted == \A t \in Thread :
             /\ Free(t) => runs[t] = 0
             /\ Free(t) \/ Present(holder[t]) => Count(t)

(* The stages of a conversation in step.                                   *)
AtRest(t) == pc[t] \in {"idle", "unlink"}

(* The server of the request has ended: it never serves again.             *)
Lost(t) == route[t] \in online /\ ~Serving(route[t])

Succeeded(t) == runs[t] = 1 \/ Lost(t)

Concluded(t, c) ==
  /\ AtRest(t) /\ asked[c].type \in Privileged /\ req[t] = asked[c]
  /\ told[c] = IF reply[t] = "refused" THEN "failure" ELSE reply[t]
  /\ told[c] = "success" => Succeeded(t)

AtPrompt(t, c) ==
  /\ stage[c] = "prompt" /\ sent[c] = <<>> /\ Due(t, c) = <<>> /\ AtRest(t)
  /\ told[c] = "none" \/ Concluded(t, c)

Asking(t, c) ==
  /\ stage[c] = "first" /\ sent[c] = <<asked[c]>> /\ Due(t, c) = <<>> /\ AtRest(t)
  /\ told[c] = "none"

LookedUp(t, c) ==
  /\ stage[c] = "first" /\ sent[c] = <<>> /\ Due(t, c) = <<>> /\ LookingUp(t)
  /\ told[c] = "none" /\ req[t] = asked[c]

(* What is left of an answer that begins with an INIT_ACK.                 *)
Unread(t, c, left) ==
  \/ stage[c] = "first" /\ Due(t, c) = <<"init">> \o left
  \/ stage[c] = "second" /\ Due(t, c) = left

(* The statuses that may be due once the thread is done with the request.  *)
DueStatus(t) ==
  {k \in {"refusal", "success", "failure", "garbage"} :
     /\ reply[t] = IF k = "refusal" THEN "refused" ELSE k
     /\ k = "success" => Succeeded(t)}

Forwarding(t, c) ==
  /\ sent[c] = <<>> /\ told[c] = "none"
  /\ asked[c].type \in Privileged /\ req[t] = asked[c]
  /\ \/ pc[t] = "waiting" /\ Unread(t, c, <<>>)
     \/ AtRest(t) /\ \E k \in DueStatus(t) : Unread(t, c, <<k>>)

(* What a lister is sent, its status after the paths.                      *)
ListPackets == {<<"success">>} \union {left \in Seq(Packet) : left # <<>> /\ Head(left) \in LongPacket}

BeingListed(t, c) ==
  /\ sent[c] = <<>> /\ pc[t] = "idle" /\ asked[c].type = "LIST_ALL"
  /\ \/ told[c] = "none" /\ \E left \in ListPackets : Unread(t, c, left)
     \/ stage[c] = "list" /\ Due(t, c) = <<>>

(* Refused, or sent to the storage server: it will only leave.             *)
Leaving(t, c) ==
  /\ told[c] = "none"
  /\ \/ /\ stage[c] = "first" /\ Due(t, c) \in {<<"refusal">>, <<"connect", "details">>}
        /\ sent[c] = <<>> /\ pc[t] = "idle"
     \/ stage[c] \in {"details", "direct"}

InStep(t, c) ==
  \/ AtPrompt(t, c) \/ Asking(t, c) \/ LookedUp(t, c)
  \/ Forwarding(t, c) \/ BeingListed(t, c) \/ Leaving(t, c)

Conversations ==
  \A t \in Thread : ~Free(t) /\ Present(holder[t]) /\ holder[t] \notin misread =>
    InStep(t, holder[t])

(* A thread takes a request once it has sent what it had to send.          *)
Answered == \A t \in Thread : pc[t] # "idle" => rest[t] = <<>>

AnswersInv == Seated /\ Linked /\ Newcomers /\ Counted /\ Conversations

-----------------------------------------------------------------------------
(* A thread takes no request before it has answered the one before.        *)

LEMMA AnsweredStep == SInv /\ IInv /\ Answered /\ [SessionsNext]_svars => Answered'
<1> SUFFICES ASSUME SInv, IInv, Answered, [SessionsNext]_svars PROVE Answered'
  OBVIOUS
<1> USE DEF Answered
<1>0. /\ pc \in [Thread -> Location]
      /\ rest \in [Thread -> Seq(Packet)]
  BY DEF SInv, IInv, TypeOK, SessionsTypeOK
<1>1. CASE UNCHANGED <<pc, rest>>
  BY <1>1
<1>2. ASSUME NEW t \in Thread, TakeRequest(t) \/ TakeAgain(t) PROVE Answered'
  <2>1. rest[t] = <<>> /\ rest' = rest /\ \A u \in Thread \ {t} : pc'[u] = pc[u]
    BY <1>0, <1>2 DEF TakeRequest, TakeAgain, Ready, Receive, threadSide
  <2> QED
    BY <2>1
<1>3. ASSUME NEW t \in Thread, AnswerClient(t) PROVE Answered'
  <2>1. pc' = [pc EXCEPT ![t] = "idle"] /\ \A u \in Thread \ {t} : rest'[u] = rest[u]
    BY <1>0, <1>3 DEF AnswerClient, AnswerDirectly
  <2> QED
    BY <1>0, <2>1
<1>4. ASSUME NEW t \in Thread, SendRest(t) PROVE Answered'
  <2>1. rest[t] # <<>> /\ pc' = pc /\ \A u \in Thread \ {t} : rest'[u] = rest[u]
    BY <1>0, <1>4 DEF SendRest, vars
  <2> QED
    BY <1>0, <2>1
<1>5. ASSUME NEW t \in Thread, ForwardRequest(t) PROVE Answered'
  <2>1. CASE /\ Forward(t)
             /\ rest' = [rest EXCEPT ![t] = IF pc'[t] = "waiting" THEN <<>> ELSE <<"refusal">>]
    <3>1. pc' = [pc EXCEPT ![t] = "waiting"] \/ pc' = [pc EXCEPT ![t] = "idle"]
      BY <2>1 DEF Forward
    <3> QED
      BY <1>0, <2>1, <3>1
  <2> QED
    BY <1>1, <1>5, <2>1 DEF ForwardRequest, vars
<1>6. ASSUME NEW t \in Thread,
             LookUp(t) \/ RefuseClient(t) \/ MergeAndAnswer(t) \/ UnlinkPath(t)
      PROVE  Answered'
  <2>1. rest' = rest /\ \A u \in Thread : pc'[u] = pc[u] \/ pc[u] # "idle"
    BY <1>0, <1>6 DEF LookUp, RefuseClient, MergeAndAnswer, UnlinkPath, Fill, ReadBack, ForwardFails,
                      Merge, Unlink, threadSide
  <2> QED
    BY <2>1
<1>7. ASSUME NEW t \in Thread, Accept(t) \/ EndThread(t) PROVE UNCHANGED <<pc, rest>>
  BY <1>7 DEF Accept, EndThread, vars
<1>8. ASSUME NEW c \in Client,
             Connect(c) \/ Leave(c) \/ ClientReads(c) \/ \E r \in Request : AskFor(c, r)
      PROVE  UNCHANGED <<pc, rest>>
  BY <1>8 DEF Connect, Leave, ClientReads, ReadRefusal, Exit, ReadFirst, ReadSecond, ReadList,
              ReadDetails, AskFor, threadSide, vars
<1>9. CASE ServersStep /\ Beside
  BY <1>9 DEF Beside, threadSide, ServersStep, ListenerStep, ServerStep, SSStart, SSListen, SSStop,
              SSExecute, SSSendAck, SSSendDetails, RegisterServer, RegisterUnheard, RefuseServer,
              AckServer, AckFails, threadVars
<1>10. CASE UNCHANGED svars
  BY <1>10 DEF svars, threadSide, vars
<1> QED
  BY <1>1, <1>2, <1>3, <1>4, <1>5, <1>6, <1>7, <1>8, <1>9, <1>10 DEF SessionsNext, ThreadTurn

-----------------------------------------------------------------------------
(* The packets under way.                                                  *)

LEMMA FirstOfBoth ==
  ASSUME NEW s \in Seq(Packet), NEW r \in Seq(Packet), s # <<>>
  PROVE  /\ s \o r # <<>> /\ Head(s \o r) = Head(s) /\ Tail(s) \o r = Tail(s \o r)
         /\ Tail(s) \in Seq(Packet)
  OBVIOUS

LEMMA SentOn ==
  ASSUME NEW s \in Seq(Packet), NEW r \in Seq(Packet), r # <<>>
  PROVE  Append(s, Head(r)) \o Tail(r) = s \o r
  OBVIOUS

LEMMA NothingDue ==
  ASSUME NEW s \in Seq(Packet), NEW r \in Seq(Packet)
  PROVE  s \o r = <<>> <=> s = <<>> /\ r = <<>>
  OBVIOUS

LEMMA AppendDue ==
  ASSUME NEW s \in Seq(Packet), NEW k \in Packet
  PROVE  Append(s, k) \o <<>> = Append(s \o <<>>, k) /\ s \o <<>> = s
  OBVIOUS

LEMMA AnswersLeft ==
  ASSUME NEW a \in Packet, NEW b \in Packet
  PROVE  /\ Head(<<a>>) = a /\ Tail(<<a>>) = <<>> /\ <<a>> # <<>> /\ <<a>> \in Seq(Packet)
         /\ Head(<<a, b>>) = a /\ Tail(<<a, b>>) = <<b>> /\ <<a, b>> # <<>>
         /\ Append(<<>>, a) = <<a>> /\ Append(<<a>>, b) = <<a, b>>
         /\ <<a>> \o <<>> = <<a>> /\ <<a>> \o <<b>> = <<a, b>>
<1>1. <<a>> \in Seq(Packet) /\ <<b>> \in Seq(Packet) /\ <<>> \in Seq(Packet)
  OBVIOUS
<1>2. Head(<<a>>) = a /\ Tail(<<a>>) = <<>> /\ <<a>> # <<>>
  OBVIOUS
<1>3. Head(<<a, b>>) = a /\ <<a, b>> # <<>>
  OBVIOUS
<1>4. Tail(<<a, b>>) = <<b>>
  OBVIOUS
<1>5. Append(<<>>, a) = <<a>>
  OBVIOUS
<1>6. Append(<<a>>, b) = <<a, b>>
  <2> DEFINE s == Append(<<a>>, b)  q == <<a, b>>
  <2>1. s \in Seq(Packet) /\ Len(s) = 2 /\ s[1] = a /\ s[2] = b
    BY <1>1, AppendProperties
  <2>2. q \in Seq(Packet) /\ Len(q) = 2 /\ q[1] = a /\ q[2] = b
    OBVIOUS
  <2> HIDE DEF s, q
  <2>3. s = q
    BY <2>1, <2>2, SeqEqual
  <2> QED
    BY <2>3 DEF s, q
<1>7. <<a>> \o <<>> = <<a>>
  OBVIOUS
<1>8. <<a>> \o <<b>> = <<a, b>>
  <2> DEFINE s == <<a>> \o <<b>>  q == <<a, b>>
  <2>1. s \in Seq(Packet) /\ Len(s) = 2 /\ s[1] = a /\ s[2] = b
    BY <1>1, ConcatProperties
  <2>2. q \in Seq(Packet) /\ Len(q) = 2 /\ q[1] = a /\ q[2] = b
    OBVIOUS
  <2> HIDE DEF s, q
  <2>3. s = q
    BY <2>1, <2>2, SeqEqual
  <2> QED
    BY <2>3 DEF s, q
<1> QED
  BY <1>1, <1>2, <1>3, <1>4, <1>5, <1>6, <1>7, <1>8

(* One send.                                                               *)
LEMMA SendTo ==
  ASSUME SessionsTypeOK, NEW c \in Client, NEW k \in Packet, Send(c, k)
  PROVE  /\ \A d \in Client \ {c} : stream'[d] = stream[d] /\ link'[d] = link[d]
         /\ link[c] = "open" => stream'[c] = Append(stream[c], k) /\ link'[c] = "open"
         /\ link[c] # "open" => link'[c] # "open"
  BY DEF Send, SessionsTypeOK

-----------------------------------------------------------------------------
(* What a step leaves alone.                                               *)

LEMMA SameView ==
  ASSUME NEW t \in Thread, NEW c \in Client, InStep(t, c),
         pc'[t] = pc[t], req'[t] = req[t], route'[t] = route[t], reply'[t] = reply[t],
         AtRest(t) => runs'[t] = runs[t], Lost(t) => Lost(t)',
         stage'[c] = stage[c], asked'[c] = asked[c], sent'[c] = sent[c], told'[c] = told[c],
         Due(t, c)' = Due(t, c)
  PROVE  InStep(t, c)'
<1>1. (AtRest(t)' <=> AtRest(t)) /\ (LookingUp(t)' <=> LookingUp(t))
  BY DEF AtRest, LookingUp
<1>2. \A left : Unread(t, c, left)' <=> Unread(t, c, left)
  BY <1>1 DEF Unread
<1>3. AtRest(t) => DueStatus(t) \subseteq DueStatus(t)' /\ (Concluded(t, c) => Concluded(t, c)')
  BY <1>1 DEF DueStatus, Concluded, Succeeded
<1>4. /\ AtPrompt(t, c) => AtPrompt(t, c)'
      /\ Asking(t, c) => Asking(t, c)'
      /\ LookedUp(t, c) => LookedUp(t, c)'
  BY <1>1, <1>3 DEF AtPrompt, Asking, LookedUp
<1>5. /\ Forwarding(t, c) => Forwarding(t, c)'
      /\ BeingListed(t, c) => BeingListed(t, c)'
      /\ Leaving(t, c) => Leaving(t, c)'
  BY <1>1, <1>2, <1>3 DEF Forwarding, BeingListed, Leaving
<1> QED
  BY <1>4, <1>5 DEF InStep

LEMMA SamePair ==
  ASSUME NEW t \in Thread, NEW c \in Client, InStep(t, c),
         pc'[t] = pc[t], req'[t] = req[t], route'[t] = route[t], reply'[t] = reply[t],
         rest'[t] = rest[t], AtRest(t) => runs'[t] = runs[t], Lost(t) => Lost(t)',
         stage'[c] = stage[c], asked'[c] = asked[c], sent'[c] = sent[c], told'[c] = told[c],
         stream'[c] = stream[c]
  PROVE  InStep(t, c)'
<1>1. Due(t, c)' = Due(t, c)
  BY DEF Due
<1> QED
  BY <1>1, SameView

(* A server that has ended stays out.                                      *)
LostStay == \A t \in Thread : Lost(t) /\ route'[t] = route[t] => Lost(t)'

(* A step of a thread, for its client.                                     *)
LEMMA OneConversation ==
  ASSUME SessionsTypeOK, AnswersInv, LostStay, NEW t \in Thread, NEW c \in Client, holder[t] = c,
         UNCHANGED <<backlog, holder, stage, asked, told, misread>>,
         \A d \in Client \ {c} :
           stream'[d] = stream[d] /\ link'[d] = link[d] /\ sent'[d] = sent[d],
         link'[c] = "open" <=> link[c] = "open",
         \A u \in Thread \ {t} :
           /\ pc'[u] = pc[u] /\ req'[u] = req[u] /\ route'[u] = route[u] /\ reply'[u] = reply[u]
           /\ rest'[u] = rest[u] /\ runs'[u] = runs[u] /\ conn'[u] = conn[u],
         Present(c) => Count(t)' /\ (c \notin misread => InStep(t, c)')
  PROVE  AnswersInv'
<1> USE DEF AnswersInv
<1>1. c \in Client /\ ~Free(t) /\ ~Away(c) /\ \A d \in Client : Away(d)' <=> Away(d)
  BY SessionAssumption DEF Free, Seated, Away
<1>2. /\ \A u \in Thread \ {t} : holder[u] # c
      /\ \A i \in 1..Len(backlog) : backlog[i] # c /\ backlog[i] \in Client
  <2>1. backlog \in Seq(Client)
    BY DEF SessionsTypeOK
  <2>2. \A i \in 1..Len(backlog) : backlog[i] \in Client
    BY <2>1
  <2> QED
    BY <1>1, <2>2 DEF Seated
<1>3. \A d \in Client : Present(d)' <=> Present(d)
  BY DEF Present
<1>4. Seated' /\ Linked'
  <2>1. Seated'
    BY DEF Seated, Free, Away
  <2>2. Linked'
    BY <1>3 DEF Linked
  <2> QED
    BY <2>1, <2>2
<1>5. Newcomers'
  <2>3. \A i \in 1..Len(backlog') : (Present(backlog[i]) => Newcomer(backlog[i]))'
    <3> SUFFICES ASSUME NEW i \in 1..Len(backlog), Present(backlog[i])'
                 PROVE  Newcomer(backlog[i])'
      OBVIOUS
    <3>1. PICK d \in Client \ {c} : backlog[i] = d /\ backlog'[i] = d
      BY <1>2
    <3>2. Present(backlog[i])
      BY DEF Present
    <3>3. Newcomer(backlog[i])
      BY <3>2 DEF Newcomers
    <3> QED
      BY <3>1, <3>3 DEF Newcomer
  <2>4. \A d \in Client : Away(d) => /\ d # c /\ stream[d] = <<>> /\ told[d] = "none"
                                     /\ sent[d] = <<>> /\ asked[d] = Nothing
    BY <1>1 DEF Newcomers
  <2> QED
    BY <1>1, <2>3, <2>4 DEF Newcomers
<1>6. Counted'
  <2> SUFFICES ASSUME NEW u \in Thread
               PROVE  (Free(u) => runs[u] = 0)' /\ (Free(u) \/ Present(holder[u]) => Count(u))'
    BY DEF Counted
  <2>1. CASE u = t
    BY <1>1, <1>3, <2>1 DEF Free
  <2>2. CASE u # t
    <3>1. (Free(u)' <=> Free(u)) /\ (Present(holder[u])' <=> Present(holder[u]))
      BY DEF Free, Present
    <3>2. Count(u)' <=> Count(u)
        BY <2>2 DEF Count, LookingUp
    <3> QED
      BY <2>2, <3>1, <3>2 DEF Counted
  <2> QED
    BY <2>1, <2>2
<1>7. Conversations'
  <2> SUFFICES ASSUME NEW u \in Thread, ~Free(u)', Present(holder[u])', holder'[u] \notin misread'
               PROVE  InStep(u, holder[u])'
    BY DEF Conversations
  <2>1. holder[u] \in Client /\ ~Free(u) /\ Present(holder[u]) /\ holder[u] \notin misread
    BY DEF SessionsTypeOK, Free, Present
  <2>2. CASE u = t
    BY <2>1, <2>2
  <2>3. CASE u # t
    <3>1. holder[u] # c /\ InStep(u, holder[u])
      BY <1>2, <2>1, <2>3 DEF Conversations
    <3> QED
      BY <2>1, <2>3, <3>1, SamePair DEF LostStay
  <2> QED
    BY <2>2, <2>3
<1> QED
  BY <1>4, <1>5, <1>6, <1>7

-----------------------------------------------------------------------------
(* The steps of a thread.                                                  *)

Context == SInv /\ IInv /\ Answered /\ AnswersInv

(* A thread at a request, or with something left to send, holds a client.  *)
LEMMA HeldBy ==
  ASSUME Context, NEW t \in Thread, pc[t] # "idle" \/ rest[t] # <<>>
  PROVE  holder[t] \in Client /\ ~Free(t)
  BY SessionAssumption DEF Context, SInv, Served, Free

LEMMA PairTypes ==
  ASSUME Context, NEW t \in Thread, NEW c \in Client
  PROVE  /\ stream[c] \in Seq(Packet) /\ rest[t] \in Seq(Packet)
         /\ Due(t, c) = <<>> => stream[c] = <<>> /\ rest[t] = <<>>
         /\ stream[c] = <<>> => Due(t, c) = rest[t]
         /\ rest[t] = <<>> => Due(t, c) = stream[c]
         /\ conn[t].stage # "none" => pc[t] = "waiting"
         /\ pc[t] # "idle" => rest[t] = <<>>
<1>1. stream[c] \in Seq(Packet) /\ rest[t] \in Seq(Packet)
  BY DEF Context, SInv, SessionsTypeOK
<1>2. stream[c] \o rest[t] = <<>> <=> stream[c] = <<>> /\ rest[t] = <<>>
  BY <1>1, NothingDue
<1>3. \A s \in Seq(Packet) : s \o <<>> = s /\ <<>> \o s = s
  OBVIOUS
<1>4. /\ conn[t].stage # "none" => pc[t] = "waiting"
      /\ pc[t] # "idle" => rest[t] = <<>>
  BY DEF Context, IInv, Waiting, Answered
<1> QED
  BY <1>1, <1>2, <1>3, <1>4 DEF Due

(* Which stage of the conversation it is.                                  *)
LEMMA StageOf ==
  ASSUME Context, NEW t \in Thread, NEW c \in Client, holder[t] = c, Present(c), c \notin misread
  PROVE  /\ InStep(t, c)
         /\ sent[c] # <<>> => Asking(t, c) \/ Leaving(t, c)
         /\ LookingUp(t) => LookedUp(t, c) \/ Leaving(t, c)
         /\ pc[t] = "waiting" => Forwarding(t, c) \/ Leaving(t, c)
         /\ pc[t] # "idle" /\ Leaving(t, c) => stage[c] \in {"details", "direct"}
<1>1. InStep(t, c)
  BY SessionAssumption DEF Context, AnswersInv, Conversations, Free
<1> QED
  BY <1>1 DEF InStep, AtPrompt, Asking, LookedUp, Forwarding, BeingListed, Leaving, AtRest, LookingUp

LEMMA TakeRequestKeeps ==
  ASSUME Context, LostStay, NEW t \in Thread, NEW c \in Client, holder[t] = c, TakeRequest(t)
  PROVE  AnswersInv'
<1>1. /\ sent[c] # <<>> /\ pc[t] = "idle" /\ rest[t] = <<>>
      /\ UNCHANGED <<backlog, holder, rest, stream, link, stage, asked, told, misread>>
      /\ sent' = [sent EXCEPT ![c] = Tail(@)] /\ runs' = [runs EXCEPT ![t] = 0]
      /\ Receive(t, Head(sent[c]))
  BY DEF TakeRequest, Ready, Context, SInv, SessionsTypeOK, wire, Receive
<1>2. /\ \E l \in {"fill", "read"} : pc' = [pc EXCEPT ![t] = l]
      /\ UNCHANGED <<conn, route>> /\ req'[t] = Head(sent[c])
      /\ \A u \in Thread \ {t} : req'[u] = req[u] /\ reply'[u] = reply[u]
  BY <1>1 DEF Receive, Context, IInv, TypeOK
<1>3. pc'[t] \in {"fill", "read"} /\ \A u \in Thread \ {t} : pc'[u] = pc[u]
  BY <1>2 DEF Context, IInv, TypeOK
<1>4. Count(t)'
  <2>1. conn'[t].stage = "none" /\ runs'[t] = 0
    BY <1>1, <1>2, PairTypes DEF Context, SInv, SessionsTypeOK
  <2> QED
    BY <2>1 DEF Count, LookingUp
<1>5. ASSUME Present(c), c \notin misread PROVE InStep(t, c)'
  <2>1. CASE Leaving(t, c)
    <3>1. stage[c] \in {"details", "direct"} /\ told[c] = "none"
      BY <1>1, <2>1 DEF Leaving
    <3> QED
      BY <1>1, <3>1 DEF Leaving, InStep
  <2>2. CASE Asking(t, c)
    <3>1. sent[c] = <<asked[c]>> /\ stage[c] = "first" /\ told[c] = "none" /\ Due(t, c) = <<>>
      BY <2>2 DEF Asking
    <3>2. Head(sent[c]) = asked[c] /\ Tail(sent[c]) = <<>>
      BY <3>1
    <3>3. sent'[c] = <<>> /\ Due(t, c)' = <<>> /\ LookingUp(t)'
      BY <1>1, <1>3, <3>1, <3>2 DEF Due, LookingUp, Context, SInv, SessionsTypeOK
    <3> QED
      BY <1>1, <1>2, <3>1, <3>2, <3>3 DEF LookedUp, InStep
  <2> QED
    BY <1>1, <1>5, <2>1, <2>2, StageOf
<1> QED
  BY <1>1, <1>2, <1>3, <1>4, <1>5, OneConversation DEF Context, SInv, SessionsTypeOK

LEMMA TakeAgainKeeps ==
  ASSUME Context, LostStay, NEW t \in Thread, NEW c \in Client, holder[t] = c, TakeAgain(t)
  PROVE  AnswersInv'
<1>1. /\ link[c] # "open"
      /\ UNCHANGED <<backlog, holder, rest, stream, link, stage, asked, told, misread, sent, runs>>
      /\ Receive(t, buffer[t])
  BY DEF TakeAgain, Ready, Context, SInv, SessionsTypeOK, wire, threadSide, clientSide
<1>2. /\ UNCHANGED conn
      /\ \A u \in Thread \ {t} : /\ req'[u] = req[u] /\ route'[u] = route[u]
                                /\ reply'[u] = reply[u] /\ pc'[u] = pc[u]
  BY <1>1 DEF Receive, Context, IInv, TypeOK
<1>3. ~Present(c)
  BY <1>1 DEF Context, AnswersInv, Linked
<1> QED
  BY <1>1, <1>2, <1>3, OneConversation DEF Context, SInv

LEMMA LookUpKeeps ==
  ASSUME Context, LostStay, NEW t \in Thread, NEW c \in Client, holder[t] = c, LookUp(t)
  PROVE  AnswersInv'
<1>1. /\ UNCHANGED <<backlog, holder, rest, stream, link, stage, asked, told, misread, sent, runs>>
      /\ UNCHANGED <<conn, req, reply>> /\ LookingUp(t)
      /\ \E l \in {"read", "dispatch"} : pc' = [pc EXCEPT ![t] = l]
      /\ route' = route \/ \E s : route' = [route EXCEPT ![t] = s]
  BY DEF LookUp, Fill, ReadBack, LookingUp, wire, threadSide, clientSide
<1>2. LookingUp(t)' /\ \A u \in Thread \ {t} : pc'[u] = pc[u] /\ route'[u] = route[u]
  BY <1>1 DEF LookingUp, Context, IInv, TypeOK
<1>3. c \in Client /\ ~Free(t) /\ pc[t] # "idle"
  BY <1>1, HeldBy DEF LookingUp
<1>4. ASSUME Present(c) PROVE Count(t)'
  <2>1. Count(t)
    BY <1>3, <1>4 DEF Context, AnswersInv, Counted
  <2> QED
    BY <1>1, <1>2, <2>1 DEF Count, LookingUp
<1>5. ASSUME Present(c), c \notin misread PROVE InStep(t, c)'
  <2>1. CASE Leaving(t, c)
    <3>1. stage[c] \in {"details", "direct"} /\ told[c] = "none"
      BY <1>3, <2>1 DEF Leaving
    <3> QED
      BY <1>1, <3>1 DEF Leaving, InStep
  <2>2. CASE LookedUp(t, c)
    BY <1>1, <1>2, <2>2 DEF LookedUp, Due, InStep
  <2> QED
    BY <1>1, <1>5, <2>1, <2>2, StageOf
<1> QED
  BY <1>1, <1>2, <1>4, <1>5, OneConversation DEF Context, SInv

LEMMA DirectAnswerWhole ==
  ASSUME NEW a \in Seq(Packet), a # <<>>
  PROVE  <<Head(a)>> \o Tail(a) = a
<1> DEFINE s == <<Head(a)>> \o Tail(a)
<1>1. Head(a) \in Packet /\ Tail(a) \in Seq(Packet)
  OBVIOUS
<1>2. <<Head(a)>> \in Seq(Packet) /\ Len(<<Head(a)>>) = 1 /\ <<Head(a)>>[1] = Head(a)
  BY <1>1
<1> HIDE DEF s
<1>3. /\ s \in Seq(Packet) /\ Len(s) = 1 + Len(Tail(a))
      /\ s[1] = Head(a) /\ \A i \in 2..Len(s) : s[i] = Tail(a)[i - 1]
  BY <1>1, <1>2, ConcatProperties DEF s
<1>4. /\ Len(a) = 1 + Len(Tail(a)) /\ a[1] = Head(a)
      /\ \A i \in 2..Len(a) : a[i] = Tail(a)[i - 1]
  BY <1>1
<1>5. s = a
  BY <1>1, <1>3, <1>4, SeqEqual
<1> QED
  BY <1>5 DEF s

(* An answer to a lister.                                                  *)
LEMMA ListWhole ==
  ASSUME NEW n \in Nat, NEW final
  PROVE  \E left \in ListPackets :
           <<"init">> \o FilePackets(n, final) \o <<"success">> = <<"init">> \o left
<1> DEFINE f == FilePackets(n, final)
           left == f \o <<"success">>
<1>1. /\ {"init", "path", "last", "success"} \subseteq Packet
      /\ {"path", "last"} \subseteq LongPacket
  BY DEF Packet, AckPacket, LongPacket
<1>2. f \in Seq(Packet) /\ Len(f) = n /\ \A i \in 1..n : f[i] \in {"path", "last"}
  BY <1>1 DEF FilePackets
<1>3. <<"init">> \in Seq(Packet) /\ <<"success">> \in Seq(Packet)
  BY <1>1
<1> HIDE DEF f
<1>4. <<"init">> \o f \o <<"success">> = <<"init">> \o left
  BY <1>2, <1>3, ConcatAssociative
<1>5. left \in ListPackets
  <2>1. CASE n = 0
    <3>1. f = <<>>
      BY <1>2, <2>1, EmptySeq
    <3>2. left = <<"success">>
      BY <1>3, <3>1
    <3> QED
      BY <3>2 DEF ListPackets
  <2>2. CASE n # 0
    <3>1. f # <<>> /\ Head(f) \in LongPacket
      BY <1>1, <1>2, <2>2
    <3>2. left # <<>> /\ Head(left) = Head(f) /\ left \in Seq(Packet)
      BY <1>2, <1>3, <3>1, FirstOfBoth
    <3> QED
      BY <3>1, <3>2 DEF ListPackets
  <2> QED
    BY <2>1, <2>2
<1> QED
  BY <1>4, <1>5 DEF f

(* A thread that sends a packet to a client that is there.                 *)
LEMMA AnswerClientKeeps ==
  ASSUME Context, LostStay, NEW t \in Thread, NEW c \in Client, holder[t] = c, AnswerClient(t)
  PROVE  AnswersInv'
<1>1. PICK a \in DirectAnswers(t) : Send(c, Head(a)) /\ rest' = [rest EXCEPT ![t] = Tail(a)]
  BY DEF AnswerClient
<1>2. /\ pc[t] = "dispatch" /\ LookingUp(t) /\ Send(c, Head(a)) /\ AnswerDirectly(t)
      /\ UNCHANGED <<backlog, holder, runs, stage, asked, told, misread, sent, req, route, conn>>
      /\ rest' = [rest EXCEPT ![t] = Tail(a)] /\ pc' = [pc EXCEPT ![t] = "idle"]
      /\ \A u \in Thread \ {t} : reply'[u] = reply[u]
  BY <1>1 DEF AnswerClient, AnswerDirectly, LookingUp, clientSide, Context, IInv, TypeOK
<1>3. a \in Seq(Packet) /\ a # <<>> /\ Head(a) \in Packet /\ Tail(a) \in Seq(Packet)
  BY DirectAnswerIsAnswer DEF Context, IInv
<1>4. c \in Client /\ ~Free(t)
  BY <1>2, HeldBy
<1>5. /\ \A d \in Client \ {c} : stream'[d] = stream[d] /\ link'[d] = link[d]
      /\ link[c] = "open" => stream'[c] = Append(stream[c], Head(a)) /\ link'[c] = "open"
      /\ link[c] # "open" => link'[c] # "open"
  BY <1>2, <1>4, <1>3, SendTo DEF Context, SInv
<1>6. ASSUME Present(c) PROVE Count(t)'
  <2>1. conn[t].stage = "none" /\ Count(t)
    BY <1>2, <1>4, <1>6, PairTypes, HeldBy DEF Context, AnswersInv, Counted
  <2> QED
    BY <1>2, <2>1 DEF Count, LookingUp
<1>7. ASSUME Present(c), c \notin misread PROVE InStep(t, c)'
  <2>1. CASE Leaving(t, c)
    <3>1. stage[c] \in {"details", "direct"} /\ told[c] = "none"
      BY <1>2, <2>1 DEF Leaving
    <3> QED
      BY <1>2, <3>1 DEF Leaving, InStep
  <2>2. CASE LookedUp(t, c)
    <3>1. /\ stage[c] = "first" /\ sent[c] = <<>> /\ told[c] = "none"
          /\ stream[c] = <<>> /\ rest[t] = <<>>
          /\ req[t] = asked[c]
      BY <1>4, <2>2, PairTypes DEF LookedUp
    <3>2. pc'[t] = "idle" /\ rest'[t] = Tail(a) /\ stream'[c] = <<Head(a)>>
      <4>1. link[c] = "open"
        BY <1>7 DEF Context, AnswersInv, Linked
      <4>2. stream'[c] = Append(<<>>, Head(a)) /\ Head(a) \in Packet
        BY <1>5, <1>3, <3>1, <4>1
      <4>3. stream'[c] = <<Head(a)>>
        BY <4>2, AnswersLeft
      <4>4. pc \in [Thread -> Location] /\ rest \in [Thread -> Seq(Packet)]
        BY DEF Context, SInv, IInv, TypeOK, SessionsTypeOK
      <4> QED
        BY <1>2, <4>3, <4>4
    <3>3. Due(t, c)' = a
      <4>1. <<Head(a)>> \o Tail(a) = a
        BY <1>3, DirectAnswerWhole
      <4> QED
        BY <3>2, <4>1 DEF Due
    <3>4. CASE ~Routed(t)
      BY <1>2, <3>1, <3>2, <3>3, <3>4 DEF DirectAnswers, Leaving, InStep
    <3>5. CASE Routed(t)
      <4>1. CASE req[t].type \in Access
        BY <1>2, <3>1, <3>2, <3>3, <3>5, <4>1 DEF DirectAnswers, Leaving, InStep
      <4>2. CASE req[t].type \notin Access
        <5>1. req[t].type = "LIST_ALL"
          <6>1. req[t] \in Request /\ req[t].type \in Type
            BY ServiceAssumption DEF Context, IInv, TypeOK
          <6> QED
            BY <1>2, <3>5, <4>2, <6>1 DEF AnswerDirectly, Type
        <5>2. PICK final : a = <<"init">> \o FilePackets(Cardinality(Listed(req[t])), final)
                                  \o <<"success">>
          BY <3>5, <4>2 DEF DirectAnswers
        <5>3. PICK left \in ListPackets : a = <<"init">> \o left
          BY <5>2, ListedFinite, ListWhole DEF Context, IInv
        <5>4. Unread(t, c, left)'
          BY <1>2, <3>1, <3>3, <5>3 DEF Unread
        <5> QED
          BY <1>2, <3>1, <3>2, <5>1, <5>4 DEF BeingListed, InStep
      <4> QED
        BY <4>1, <4>2
    <3> QED
      BY <3>4, <3>5
  <2> QED
    BY <1>2, <1>4, <1>7, <2>1, <2>2, StageOf
<1>8. /\ pc \in [Thread -> Location]
      /\ rest \in [Thread -> Seq(Packet)] /\ SessionsTypeOK /\ AnswersInv
  BY DEF Context, SInv, IInv, TypeOK, SessionsTypeOK
<1>9. \A u \in Thread \ {t} :
        /\ pc'[u] = pc[u] /\ req'[u] = req[u] /\ route'[u] = route[u] /\ reply'[u] = reply[u]
        /\ rest'[u] = rest[u] /\ runs'[u] = runs[u] /\ conn'[u] = conn[u]
  BY <1>2, <1>8
<1>10. /\ UNCHANGED <<backlog, holder, stage, asked, told, misread>>
       /\ \A d \in Client \ {c} :
            stream'[d] = stream[d] /\ link'[d] = link[d] /\ sent'[d] = sent[d]
       /\ link'[c] = "open" <=> link[c] = "open"
  BY <1>2, <1>5
<1> QED
  BY <1>6, <1>7, <1>8, <1>9, <1>10, OneConversation

LEMMA SendRestKeeps ==
  ASSUME Context, LostStay, NEW t \in Thread, NEW c \in Client, holder[t] = c, SendRest(t)
  PROVE  AnswersInv'
<1>1. /\ rest[t] # <<>> /\ Send(c, Head(rest[t])) /\ rest' = [rest EXCEPT ![t] = Tail(@)]
      /\ UNCHANGED <<backlog, holder, runs, stage, asked, told, misread, sent, pc, req, route,
                     conn, reply>>
  BY DEF SendRest, clientSide, vars
<1>2. c \in Client /\ rest[t] \in Seq(Packet) /\ Head(rest[t]) \in Packet
  BY <1>1, HeldBy DEF Context, SInv, SessionsTypeOK
<1>3. /\ \A d \in Client \ {c} : stream'[d] = stream[d] /\ link'[d] = link[d]
      /\ link[c] = "open" => stream'[c] = Append(stream[c], Head(rest[t])) /\ link'[c] = "open"
      /\ link[c] # "open" => link'[c] # "open"
  BY <1>1, <1>2, SendTo DEF Context, SInv
<1>4. /\ rest'[t] = Tail(rest[t]) /\ \A u \in Thread \ {t} : rest'[u] = rest[u]
  BY <1>1 DEF Context, SInv, SessionsTypeOK
<1>5. ASSUME Present(c) PROVE Count(t)'
  <2>1. Count(t)
    BY <1>1, <1>2, <1>5, HeldBy DEF Context, AnswersInv, Counted
  <2> QED
    BY <1>1, <2>1 DEF Count, LookingUp
<1>6. ASSUME Present(c), c \notin misread PROVE InStep(t, c)'
  <2>1. link[c] = "open"
    BY <1>6 DEF Context, AnswersInv, Linked
  <2>2. Append(stream[c], Head(rest[t])) \o Tail(rest[t]) = stream[c] \o rest[t]
    <3>1. stream[c] \in Seq(Packet)
      BY PairTypes
    <3> QED
      BY <1>1, <1>2, <3>1, SentOn
  <2>3. Due(t, c)' = Due(t, c)
    BY <1>3, <1>4, <2>1, <2>2 DEF Due
  <2>4. InStep(t, c)
    BY <1>6, StageOf
  <2> QED
    BY <1>1, <2>3, <2>4, SameView DEF LostStay
<1> QED
  BY <1>1, <1>2, <1>3, <1>4, <1>5, <1>6, OneConversation DEF Context, SInv

(* The client is told how its request ended, at the end of what is due.    *)
LEMMA ToldOutcome ==
  ASSUME Context, NEW t \in Thread, NEW c \in Client, NEW k \in Packet, holder[t] = c,
         pc[t] = "waiting", rest[t] = <<>>, c \notin misread, Present(c),
         stream'[c] = Append(stream[c], k), rest'[t] = rest[t],
         stage'[c] = stage[c], asked'[c] = asked[c], sent'[c] = sent[c], told'[c] = told[c],
         req'[t] = req[t], runs'[t] = runs[t], AtRest(t)', k \in DueStatus(t)'
  PROVE  InStep(t, c)'
<1>1. CASE Leaving(t, c)
  <2>1. stage[c] \in {"details", "direct"} /\ told[c] = "none"
    BY <1>1, StageOf DEF Leaving
  <2> QED
    BY <2>1 DEF Leaving, InStep
<1>2. CASE Forwarding(t, c)
  <2>1. /\ sent[c] = <<>> /\ told[c] = "none"
        /\ asked[c].type \in Privileged /\ req[t] = asked[c]
        /\ Unread(t, c, <<>>)
    BY <1>2 DEF Forwarding, AtRest
  <2>2. Due(t, c) = stream[c] /\ Due(t, c)' = Append(stream[c], k) /\ stream[c] \in Seq(Packet)
    <3>1. Append(stream[c], k) \o <<>> = Append(stream[c] \o <<>>, k) /\ stream[c] \o <<>> = stream[c]
      BY PairTypes, AppendDue
    <3> QED
      BY <3>1, PairTypes DEF Due
  <2>3. Unread(t, c, <<k>>)'
    <3>1. "init" \in Packet
      BY DEF Packet, AckPacket
    <3>2. /\ Append(<<>>, k) = <<k>> /\ Append(<<"init">>, k) = <<"init", k>>
          /\ <<"init">> \o <<>> = <<"init">> /\ <<"init">> \o <<k>> = <<"init", k>>
      BY <3>1, AnswersLeft
    <3> QED
      BY <2>1, <2>2, <3>2 DEF Unread
  <2> QED
    BY <2>1, <2>3 DEF Forwarding, InStep
<1> QED
  BY <1>1, <1>2, StageOf

LEMMA ForwardRequestKeeps ==
  ASSUME Context, LostStay, NEW t \in Thread, NEW c \in Client, holder[t] = c, ForwardRequest(t)
  PROVE  AnswersInv'
<1>1. /\ pc[t] = "dispatch" /\ LookingUp(t) /\ Routed(t) /\ req[t].type \in Privileged
      /\ UNCHANGED <<backlog, holder, runs, stage, asked, told, misread, sent>>
  BY DEF ForwardRequest, LookingUp, clientSide
<1>2. CASE link[c] \in {"broken", "reset"} /\ UNCHANGED <<vars, link, stream, rest>>
  <2>1. ~Present(c)
    BY <1>2 DEF Context, AnswersInv, Linked
  <2> QED
    BY <1>1, <1>2, <2>1, OneConversation DEF Context, SInv, vars
<1>3. CASE /\ link[c] \in {"open", "fin"} /\ Forward(t) /\ Send(c, "init")
           /\ rest' = [rest EXCEPT ![t] = IF pc'[t] = "waiting" THEN <<>> ELSE <<"refusal">>]
  <2>1. /\ pc \in [Thread -> Location]
        /\ rest \in [Thread -> Seq(Packet)] /\ conn \in [Thread -> Conn]
        /\ reply \in [Thread -> Reply] /\ SessionsTypeOK /\ AnswersInv
        /\ {"init", "refusal"} \subseteq Packet
    BY DEF Context, SInv, IInv, TypeOK, SessionsTypeOK, Packet, AckPacket
  <2>2. /\ \A d \in Client \ {c} : stream'[d] = stream[d] /\ link'[d] = link[d]
        /\ link[c] = "open" => stream'[c] = Append(stream[c], "init") /\ link'[c] = "open"
        /\ link[c] # "open" => link'[c] # "open"
    BY <1>3, <2>1, SendTo
  <2>3. /\ \/ /\ pc' = [pc EXCEPT ![t] = "waiting"] /\ UNCHANGED reply
              /\ conn' = [conn EXCEPT ![t] = [Closed EXCEPT !.stage = "queued"]]
           \/ /\ pc' = [pc EXCEPT ![t] = "idle"] /\ UNCHANGED conn
              /\ reply' = [reply EXCEPT ![t] = "refused"]
        /\ UNCHANGED <<req, route>>
    BY <1>3 DEF Forward
  <2>4. \A u \in Thread \ {t} :
          /\ pc'[u] = pc[u] /\ req'[u] = req[u] /\ route'[u] = route[u] /\ reply'[u] = reply[u]
          /\ rest'[u] = rest[u] /\ runs'[u] = runs[u] /\ conn'[u] = conn[u]
    BY <1>1, <1>3, <2>1, <2>3
  <2>5. ASSUME Present(c) PROVE Count(t)'
    <3>1. runs[t] = 0 /\ conn[t].stage = "none"
      BY <1>1, <2>5, HeldBy, PairTypes DEF Context, AnswersInv, Counted, Count, LookingUp
    <3>2. [Closed EXCEPT !.stage = "queued"].stage = "queued"
      BY DEF Closed
    <3>3. conn'[t].stage \in {"queued", "none"} /\ runs'[t] = 0
      BY <1>1, <2>1, <2>3, <3>1, <3>2
    <3> QED
      BY <3>3 DEF Count, LookingUp
  <2>6. ASSUME Present(c), c \notin misread PROVE InStep(t, c)'
    <3>1. CASE Leaving(t, c)
      <4>1. stage[c] \in {"details", "direct"} /\ told[c] = "none"
        BY <1>1, <3>1, StageOf, <2>6 DEF Leaving
      <4> QED
        BY <1>1, <4>1 DEF Leaving, InStep
    <3>2. CASE LookedUp(t, c)
      <4>1. /\ stage[c] = "first" /\ sent[c] = <<>> /\ told[c] = "none"
            /\ stream[c] = <<>> /\ rest[t] = <<>>
            /\ req[t] = asked[c]
        BY <3>2, PairTypes DEF LookedUp
      <4>2. asked[c].type \in Privileged
        BY <1>1, <4>1
      <4>3. stream'[c] = <<"init">>
        <5>1. link[c] = "open"
          BY <2>6 DEF Context, AnswersInv, Linked
        <5>2. stream'[c] = Append(<<>>, "init") /\ "init" \in Packet
          BY <2>1, <2>2, <4>1, <5>1
        <5> QED
          BY <5>2, AnswersLeft
      <4>4. CASE pc' = [pc EXCEPT ![t] = "waiting"]
        <5>1. pc'[t] = "waiting" /\ rest'[t] = <<>>
          BY <1>3, <2>1, <4>4
        <5>2. <<"init">> \o <<>> = <<"init">>
          BY <2>1, AnswersLeft
        <5>3. Unread(t, c, <<>>)'
          BY <1>1, <4>1, <4>3, <5>1, <5>2 DEF Unread, Due
        <5> QED
          BY <1>1, <2>3, <4>1, <4>2, <5>1, <5>3 DEF Forwarding, InStep
      <4>5. CASE /\ pc' = [pc EXCEPT ![t] = "idle"] /\ reply' = [reply EXCEPT ![t] = "refused"]
        <5>1. pc'[t] = "idle" /\ rest'[t] = <<"refusal">> /\ reply'[t] = "refused"
          BY <1>3, <2>1, <4>5
        <5>2. Unread(t, c, <<"refusal">>)'
          BY <1>1, <4>1, <4>3, <5>1 DEF Unread, Due
        <5>3. "refusal" \in DueStatus(t)'
          BY <5>1 DEF DueStatus
        <5> QED
          BY <1>1, <2>3, <4>1, <4>2, <5>1, <5>2, <5>3 DEF Forwarding, AtRest, InStep
      <4> QED
        BY <2>3, <4>4, <4>5
    <3> QED
      BY <1>1, <2>6, <3>1, <3>2, StageOf
  <2>7. /\ \A d \in Client \ {c} :
             stream'[d] = stream[d] /\ link'[d] = link[d] /\ sent'[d] = sent[d]
        /\ link'[c] = "open" <=> link[c] = "open"
    BY <1>1, <2>2
  <2> QED
    BY <1>1, <2>1, <2>4, <2>5, <2>6, <2>7, OneConversation
<1> QED
  BY <1>2, <1>3 DEF ForwardRequest

LEMMA RefuseClientKeeps ==
  ASSUME Context, LostStay, NEW t \in Thread, NEW c \in Client, holder[t] = c, RefuseClient(t)
  PROVE  AnswersInv'
<1>1. /\ pc[t] = "waiting" /\ conn[t].stage = "reset" /\ Send(c, "refusal")
      /\ conn' = [conn EXCEPT ![t] = Closed] /\ reply' = [reply EXCEPT ![t] = "refused"]
      /\ pc' = [pc EXCEPT ![t] = "idle"]
      /\ UNCHANGED <<backlog, holder, runs, stage, asked, told, misread, sent, req, route, rest>>
  BY DEF RefuseClient, ForwardFails, clientSide, threadSide
<1>2. /\ pc \in [Thread -> Location]
      /\ conn \in [Thread -> Conn] /\ reply \in [Thread -> Reply]
      /\ SessionsTypeOK /\ AnswersInv /\ "refusal" \in Packet
  BY DEF Context, SInv, IInv, TypeOK, SessionsTypeOK, Packet, AckPacket
<1>3. /\ \A d \in Client \ {c} : stream'[d] = stream[d] /\ link'[d] = link[d]
      /\ link[c] = "open" => stream'[c] = Append(stream[c], "refusal") /\ link'[c] = "open"
      /\ link[c] # "open" => link'[c] # "open"
  BY <1>1, <1>2, SendTo
<1>4. pc'[t] = "idle" /\ conn'[t] = Closed /\ reply'[t] = "refused"
  BY <1>1, <1>2
<1>5. ASSUME Present(c) PROVE Count(t)'
  <2>1. runs[t] \in {0, 1}
    BY <1>1, <1>5, HeldBy DEF Context, AnswersInv, Counted, Count, LookingUp
  <2> QED
    BY <1>1, <1>4, <2>1 DEF Count, Closed, LookingUp
<1>6. ASSUME Present(c), c \notin misread PROVE InStep(t, c)'
  <2>1. link[c] = "open" /\ rest[t] = <<>>
    BY <1>1, <1>6, PairTypes DEF Context, AnswersInv, Linked
  <2>2. "refusal" \in DueStatus(t)' /\ AtRest(t)'
    BY <1>4 DEF DueStatus, AtRest
  <2> QED
    BY <1>1, <1>2, <1>3, <1>6, <2>1, <2>2, ToldOutcome
<1>7. \A u \in Thread \ {t} :
        /\ pc'[u] = pc[u] /\ req'[u] = req[u] /\ route'[u] = route[u] /\ reply'[u] = reply[u]
        /\ rest'[u] = rest[u] /\ runs'[u] = runs[u] /\ conn'[u] = conn[u]
  BY <1>1, <1>2
<1>8. /\ \A d \in Client \ {c} :
           stream'[d] = stream[d] /\ link'[d] = link[d] /\ sent'[d] = sent[d]
      /\ link'[c] = "open" <=> link[c] = "open"
  BY <1>1, <1>3
<1> QED
  BY <1>1, <1>2, <1>5, <1>6, <1>7, <1>8, OneConversation

LEMMA MergeAndAnswerKeeps ==
  ASSUME Context, LostStay, NEW t \in Thread, NEW c \in Client, holder[t] = c, MergeAndAnswer(t)
  PROVE  AnswersInv'
<1>1. PICK k \in Acknowledged(t) : reply' = [reply EXCEPT ![t] = k]
  BY DEF MergeAndAnswer, Merge
<1>2. /\ pc[t] = "waiting" /\ conn[t].stage \in {"sent", "eof"} /\ Send(c, reply'[t])
      /\ conn' = [conn EXCEPT ![t] = Closed] /\ reply' = [reply EXCEPT ![t] = k]
      /\ pc' = [pc EXCEPT ![t] = IF Unlinks(req[t]) THEN "unlink" ELSE "idle"]
      /\ UNCHANGED <<backlog, holder, runs, stage, asked, told, misread, sent, req, route, rest,
                     online, state, registering>>
  BY <1>1 DEF MergeAndAnswer, Merge, clientSide, threadSide, diskVars, registryVars
<1>3. /\ pc \in [Thread -> Location]
      /\ conn \in [Thread -> Conn] /\ reply \in [Thread -> Reply]
      /\ SessionsTypeOK /\ AnswersInv
  BY DEF Context, SInv, IInv, TypeOK, SessionsTypeOK
<1>4. k \in {"success", "failure", "garbage"} /\ k \in Packet
  BY DEF Acknowledged, Context, IInv, TypeOK, Conn, Ack, Packet, AckPacket
<1>5. pc'[t] \in {"idle", "unlink"} /\ conn'[t] = Closed /\ reply'[t] = k
  BY <1>2, <1>3
<1>6. /\ \A d \in Client \ {c} : stream'[d] = stream[d] /\ link'[d] = link[d]
      /\ link[c] = "open" => stream'[c] = Append(stream[c], k) /\ link'[c] = "open"
      /\ link[c] # "open" => link'[c] # "open"
  BY <1>2, <1>3, <1>4, <1>5, SendTo
<1>7. ASSUME Present(c) PROVE runs[t] \in {0, 1} /\ Succeeded(t)'
  <2>1. Count(t)
    BY <1>2, <1>7, HeldBy DEF Context, AnswersInv, Counted
  <2>2. CASE conn[t].stage = "sent"
    BY <1>2, <2>1, <2>2 DEF Count, LookingUp, Succeeded
  <2>3. CASE conn[t].stage = "eof"
    <3>1. Lost(t)
      BY <1>2, <2>3 DEF Context, IInv, Outcomes, OutcomeOf, Lost
    <3> QED
      BY <1>2, <2>1, <3>1 DEF Count, LookingUp, Lost, Serving, Succeeded
  <2> QED
    BY <1>2, <2>2, <2>3
<1>8. ASSUME Present(c) PROVE Count(t)'
  BY <1>2, <1>5, <1>7, <1>8 DEF Count, Closed, LookingUp
<1>9. ASSUME Present(c), c \notin misread PROVE InStep(t, c)'
  <2>1. link[c] = "open" /\ rest[t] = <<>>
    BY <1>2, <1>9, PairTypes DEF Context, AnswersInv, Linked
  <2>2. k \in DueStatus(t)' /\ AtRest(t)'
    BY <1>2, <1>4, <1>5, <1>7, <1>9 DEF DueStatus, AtRest
  <2> QED
    BY <1>2, <1>4, <1>6, <1>9, <2>1, <2>2, ToldOutcome
<1>10. \A u \in Thread \ {t} :
        /\ pc'[u] = pc[u] /\ req'[u] = req[u] /\ route'[u] = route[u] /\ reply'[u] = reply[u]
        /\ rest'[u] = rest[u] /\ runs'[u] = runs[u] /\ conn'[u] = conn[u]
  BY <1>2, <1>3
<1>11. /\ \A d \in Client \ {c} :
            stream'[d] = stream[d] /\ link'[d] = link[d] /\ sent'[d] = sent[d]
       /\ link'[c] = "open" <=> link[c] = "open"
  BY <1>2, <1>6
<1> QED
  BY <1>2, <1>3, <1>8, <1>9, <1>10, <1>11, OneConversation

LEMMA UnlinkPathKeeps ==
  ASSUME Context, LostStay, NEW t \in Thread, NEW c \in Client, holder[t] = c, UnlinkPath(t)
  PROVE  AnswersInv'
<1>1. /\ pc[t] = "unlink" /\ pc' = [pc EXCEPT ![t] = "idle"]
      /\ UNCHANGED <<backlog, holder, runs, stage, asked, told, misread, sent, req, route, rest,
                     conn, reply, link, stream>>
  BY DEF UnlinkPath, Unlink, clientSide, threadSide, wire
<1>2. /\ pc \in [Thread -> Location]
      /\ SessionsTypeOK /\ AnswersInv
  BY DEF Context, SInv, IInv, TypeOK
<1>3. pc'[t] = "idle" /\ \A u \in Thread \ {t} : pc'[u] = pc[u]
  BY <1>1, <1>2
<1>4. ASSUME Present(c) PROVE Count(t)'
  <2>1. Count(t)
    BY <1>1, <1>4, HeldBy DEF Context, AnswersInv, Counted
  <2> QED
    BY <1>1, <1>3, <2>1 DEF Count, LookingUp
<1>5. ASSUME Present(c), c \notin misread PROVE InStep(t, c)'
  <2>1. AtRest(t) /\ AtRest(t)' /\ Due(t, c)' = Due(t, c)
    BY <1>1, <1>3 DEF AtRest, Due
  <2>2. \A left : Unread(t, c, left)' <=> Unread(t, c, left)
    BY <1>1, <2>1 DEF Unread
  <2>3. DueStatus(t) \subseteq DueStatus(t)' /\ (Concluded(t, c) => Concluded(t, c)')
    <3>1. Lost(t) => Lost(t)'
      BY <1>1 DEF LostStay
    <3> QED
      BY <1>1, <2>1, <3>1 DEF DueStatus, Concluded, Succeeded
  <2>4. AtPrompt(t, c) \/ Asking(t, c) \/ Forwarding(t, c) \/ Leaving(t, c)
    BY <1>1, <1>5, StageOf DEF InStep, LookedUp, LookingUp, BeingListed
  <2>5. CASE AtPrompt(t, c)
    BY <1>1, <2>1, <2>3, <2>5 DEF AtPrompt, InStep
  <2>6. CASE Asking(t, c)
    BY <1>1, <2>1, <2>6 DEF Asking, InStep
  <2>7. CASE Forwarding(t, c)
    BY <1>1, <2>1, <2>2, <2>3, <2>7 DEF Forwarding, InStep
  <2>8. CASE Leaving(t, c)
    BY <1>1, <1>3, <2>1, <2>8 DEF Leaving, InStep
  <2> QED
    BY <2>4, <2>5, <2>6, <2>7, <2>8
<1> QED
  BY <1>1, <1>2, <1>3, <1>4, <1>5, OneConversation

(* Steps that change which client a thread has.                            *)
LEMMA Reseated ==
  ASSUME Context, LostStay, NEW t \in Thread, Seated', Newcomers',
         UNCHANGED <<vars, rest, stream, stage, asked, sent, told, misread>>,
         \A d \in Client : link'[d] = "open" <=> link[d] = "open",
         \A u \in Thread \ {t} : holder'[u] = holder[u] /\ runs'[u] = runs[u],
         holder'[t] \in Client \union {NoClient}, conn[t].stage = "none",
         pc[t] = "idle", runs'[t] = 0,
         ASSUME NEW d \in Client, holder'[t] = d, Present(d), d \notin misread PROVE InStep(t, d)'
  PROVE  AnswersInv'
<1>1. Linked'
  BY DEF Context, AnswersInv, Linked, Present
<1>2. UNCHANGED <<pc, req, route, reply, conn>>
  BY DEF vars
<1>3. Counted'
  <2> SUFFICES ASSUME NEW u \in Thread
               PROVE  (Free(u) => runs[u] = 0)' /\ (Free(u) \/ Present(holder[u]) => Count(u))'
    BY DEF Counted
  <2>1. CASE u = t
    <3>1. Count(t)'
      BY <1>2 DEF Count, LookingUp
    <3> QED
      BY <2>1, <3>1
  <2>2. CASE u # t
    <3>1. (Free(u)' <=> Free(u)) /\ (Present(holder[u])' <=> Present(holder[u]))
      BY <2>2 DEF Free, Present
    <3>2. Count(u)' <=> Count(u)
      BY <1>2, <2>2 DEF Count, LookingUp
    <3> QED
      BY <2>2, <3>1, <3>2 DEF Context, AnswersInv, Counted
  <2> QED
    BY <2>1, <2>2
<1>4. Conversations'
  <2> SUFFICES ASSUME NEW u \in Thread, NEW d \in Client, holder'[u] = d, Present(d), d \notin misread
               PROVE  InStep(u, d)'
    <3> SUFFICES ASSUME NEW u \in Thread, ~Free(u)', Present(holder[u])', holder'[u] \notin misread'
                 PROVE  InStep(u, holder[u])'
      BY DEF Conversations
    <3>1. holder'[u] \in Client
      BY ZenonT(60) DEF Free, Context, SInv, SessionsTypeOK
    <3>2. PICK d \in Client : holder'[u] = d
      BY <3>1
    <3>3. Present(d) /\ d \notin misread
      BY <3>2 DEF Present
    <3>4. InStep(u, d)'
      BY <3>2, <3>3
    <3> QED
      BY <3>2, <3>4, ZenonT(60) DEF InStep, AtPrompt, Asking, LookedUp, Forwarding, BeingListed, Leaving, Concluded,
                        Unread, Due
  <2>1. CASE u = t
    BY <2>1
  <2>2. CASE u # t
    <3>1. holder[u] = d /\ runs'[u] = runs[u]
      BY <2>2
    <3>2. InStep(u, d)
      BY <3>1, StageOf
    <3>3. rest'[u] = rest[u] /\ stream'[d] = stream[d]
      OBVIOUS
    <3> QED
      BY <1>2, <3>1, <3>2, <3>3, SamePair DEF LostStay
  <2> QED
    BY <2>1, <2>2
<1> QED
  BY <1>1, <1>3, <1>4 DEF AnswersInv

LEMMA EndThreadKeeps ==
  ASSUME Context, LostStay, NEW t \in Thread, EndThread(t)
  PROVE  AnswersInv'
<1>1. /\ pc[t] = "idle" /\ holder[t] # NoClient /\ link[holder[t]] = "reset"
      /\ holder' = [holder EXCEPT ![t] = NoClient] /\ runs' = [runs EXCEPT ![t] = 0]
      /\ link' = [link EXCEPT ![holder[t]] = "closed"]
      /\ UNCHANGED <<vars, backlog, rest, stream, stage, asked, sent, told, misread>>
  BY DEF EndThread, Ready, clientSide
<1>2. /\ holder \in [Thread -> Client \union {NoClient}] /\ runs \in [Thread -> 0..2]
      /\ link \in [Client -> Link]
  BY DEF Context, SInv, SessionsTypeOK
<1>3. /\ holder'[t] = NoClient /\ runs'[t] = 0
      /\ \A u \in Thread \ {t} : holder'[u] = holder[u] /\ runs'[u] = runs[u]
      /\ \A d \in Client : link'[d] = "open" <=> link[d] = "open"
  BY <1>1, <1>2
<1>4. Seated'
  BY <1>1, <1>3 DEF Context, AnswersInv, Seated, Free, Away
<1>5. Newcomers'
  BY <1>1 DEF Context, AnswersInv, Newcomers, Newcomer, Present, Away
<1>6. conn[t].stage = "none"
  BY <1>1 DEF Context, IInv, Waiting
<1> QED
  BY <1>1, <1>3, <1>4, <1>5, <1>6, Reseated, SessionAssumption, ZenonT(60)

LEMMA AcceptKeeps ==
  ASSUME Context, LostStay, NEW t \in Thread, Accept(t)
  PROVE  AnswersInv'
<1>1. /\ backlog # <<>> /\ Free(t)
      /\ holder' = [holder EXCEPT ![t] = Head(backlog)] /\ backlog' = Tail(backlog)
      /\ UNCHANGED <<vars, rest, runs, link, stream, stage, asked, sent, told, misread>>
  BY DEF Accept, wire, clientSide
<1>2. /\ holder \in [Thread -> Client \union {NoClient}] /\ backlog \in Seq(Client)
      /\ Seated /\ Newcomers
  BY DEF Context, SInv, SessionsTypeOK, AnswersInv
<1>3. /\ backlog[1] \in Client /\ holder'[t] = backlog[1]
      /\ \A u \in Thread \ {t} : holder'[u] = holder[u]
      /\ Len(backlog) > 0 /\ Len(backlog') = Len(backlog) - 1
      /\ \A i \in 1..Len(backlog') : i + 1 \in 1..Len(backlog) /\ backlog'[i] = backlog[i + 1]
  BY <1>1, <1>2
<1>4. 1 \in 1..Len(backlog) /\ Len(backlog) \in Nat
  BY <1>2, <1>3
<1>5. /\ ~Away(backlog[1])
      /\ \A u \in Thread : ~Free(u) => holder[u] # backlog[1]
      /\ \A i \in 1..Len(backlog') : backlog'[i] # backlog[1]
  <2>1. \A i \in 1..Len(backlog) : i # 1 => backlog[i] # backlog[1]
    BY <1>2, <1>4 DEF Seated
  <2>2. \A i \in 1..Len(backlog') : i + 1 # 1
    BY <1>3
  <2> QED
    BY <1>2, <1>3, <1>4, <2>1, <2>2 DEF Seated
<1>6. Seated'
  <2>1. \A i, j \in 1..Len(backlog') : backlog'[i] = backlog'[j] => i = j
    <3> SUFFICES ASSUME NEW i \in 1..Len(backlog'), NEW j \in 1..Len(backlog'), backlog'[i] = backlog'[j]
                 PROVE  i = j
      OBVIOUS
    <3>1. i + 1 = j + 1
      BY <1>2, <1>3 DEF Seated
    <3> QED
      BY <1>3, <3>1
  <2>2. ASSUME NEW u \in Thread, ~Free(u)'
        PROVE  /\ ~Away(holder[u])'
               /\ \A v \in Thread : holder'[v] = holder'[u] => v = u
               /\ \A i \in 1..Len(backlog') : backlog'[i] # holder'[u]
    <3>1. CASE u = t
      <4>1. \A v \in Thread \ {t} : holder'[v] # backlog[1]
        BY <1>2, <1>3, <1>5, SessionAssumption DEF Free
      <4> QED
        BY <1>1, <1>3, <1>5, <3>1, <4>1 DEF Away
    <3>2. CASE u # t
      <4>1. ~Free(u) /\ holder'[u] = holder[u]
        BY <1>3, <2>2, <3>2 DEF Free
      <4>2. /\ ~Away(holder[u]) /\ \A v \in Thread : holder[v] = holder[u] => v = u
            /\ \A i \in 1..Len(backlog) : backlog[i] # holder[u]
        BY <1>2, <4>1 DEF Seated
      <4> QED
        BY <1>1, <1>3, <1>4, <3>2, <4>1, <4>2 DEF Away
    <3> QED
      BY <3>1, <3>2
  <2>3. \A i \in 1..Len(backlog') : ~Away(backlog[i])'
    BY <1>1, <1>2, <1>3 DEF Seated, Away
  <2> QED
    BY <2>1, <2>2, <2>3 DEF Seated
<1>7. Newcomers'
  <2>1. \A i \in 1..Len(backlog') : (Present(backlog[i]) => Newcomer(backlog[i]))'
    BY <1>1, <1>2, <1>3 DEF Newcomers, Newcomer, Present
  <2>2. \A c \in Client : Away(c)' => /\ stream'[c] = <<>> /\ told'[c] = "none"
                                    /\ sent'[c] = <<>> /\ asked'[c] = Nothing
    BY <1>1, <1>2 DEF Newcomers, Away
  <2> QED
    BY <2>1, <2>2 DEF Newcomers
<1>8. pc[t] = "idle" /\ rest[t] = <<>> /\ conn[t].stage = "none" /\ runs[t] = 0
  <2>1. holder[t] \notin Client
    BY <1>1, SessionAssumption DEF Free
  <2>2. pc[t] = "idle" /\ rest[t] = <<>>
    BY <2>1 DEF Context, SInv, Served
  <2>3. conn[t].stage = "none" /\ runs[t] = 0
    BY <1>1, <2>2 DEF Context, IInv, Waiting, AnswersInv, Counted
  <2> QED
    BY <2>2, <2>3
<1>9. ASSUME NEW d \in Client, holder'[t] = d, Present(d), d \notin misread PROVE InStep(t, d)'
  <2>1. backlog[1] = d
    BY <1>3, <1>9
  <2>2. Newcomer(d)
    BY <1>2, <1>4, <1>9, <2>1 DEF Newcomers
  <2>3. Due(t, d)' = <<>>
    BY <1>1, <1>8, <2>2 DEF Due, Newcomer
  <2>4. AtRest(t)'
    BY <1>1, <1>8 DEF AtRest, vars
  <2> QED
    BY <1>1, <2>2, <2>3, <2>4 DEF Newcomer, AtPrompt, Asking, InStep
<1> QED
  BY <1>1, <1>3, <1>6, <1>7, <1>8, <1>9, Reseated

-----------------------------------------------------------------------------
(* The steps of a client.                                                  *)

(* What the thread of a client does not see of another client's step.      *)
LEMMA OneClient ==
  ASSUME Context, LostStay, NEW c \in Client,
         UNCHANGED <<vars, backlog, holder, rest, runs>>,
         \A d \in Client \ {c} :
           /\ stage'[d] = stage[d] /\ asked'[d] = asked[d] /\ sent'[d] = sent[d]
           /\ told'[d] = told[d] /\ stream'[d] = stream[d] /\ link'[d] = link[d]
           /\ d \notin misread' => d \notin misread,
         ~Away(c), ~Away(c)', Present(c)' <=> link'[c] = "open", Present(c)' => Present(c),
         Present(c)' => \A i \in 1..Len(backlog) : backlog[i] = c => Newcomer(c)',
         Present(c)' /\ c \notin misread' => \A t \in Thread : holder[t] = c => InStep(t, c)'
  PROVE  AnswersInv'
<1>1. /\ UNCHANGED <<pc, req, route, reply, conn>> /\ backlog \in Seq(Client)
      /\ holder \in [Thread -> Client \union {NoClient}]
      /\ Seated /\ Linked /\ Newcomers /\ Counted
  BY DEF vars, Context, SInv, SessionsTypeOK, AnswersInv
<1>2. \A i \in 1..Len(backlog) : backlog[i] \in Client
  BY <1>1
<1>3. ASSUME NEW d \in Client \ {c}
      PROVE  /\ Away(d)' <=> Away(d)
             /\ Present(d)' <=> Present(d)
             /\ Newcomer(d)' <=> Newcomer(d)
  <2>1. /\ stage'[d] = stage[d] /\ asked'[d] = asked[d] /\ sent'[d] = sent[d]
        /\ told'[d] = told[d] /\ stream'[d] = stream[d]
    OBVIOUS
  <2> QED
    BY <2>1 DEF Away, Present, Newcomer
<1>4. Seated'
  <2>1. \A d \in Client : ~Away(d) => stage'[d] # "away"
    BY <1>3 DEF Away
  <2>2. ASSUME NEW t \in Thread, ~Free(t)
        PROVE  /\ stage'[holder[t]] # "away"
               /\ \A u \in Thread : holder[u] = holder[t] => u = t
               /\ \A i \in 1..Len(backlog) : backlog[i] # holder[t]
    <3>1. holder[t] \in Client
      BY <1>1, <2>2 DEF Free
    <3> QED
      BY <1>1, <2>1, <2>2, <3>1 DEF Seated
  <2>3. \A i \in 1..Len(backlog) : stage'[backlog[i]] # "away"
    BY <1>1, <1>2, <2>1 DEF Seated
  <2>4. \A i, j \in 1..Len(backlog) : backlog[i] = backlog[j] => i = j
    BY <1>1 DEF Seated
  <2>5. backlog' = backlog /\ holder' = holder
    OBVIOUS
  <2> QED
    BY <2>2, <2>3, <2>4, <2>5 DEF Seated, Free, Away
<1>5. Linked'
  <2>1. ASSUME NEW d \in Client PROVE Present(d)' <=> link'[d] = "open"
    <3>1. CASE d = c
      BY <3>1
    <3>2. CASE d # c
      <4>1. link'[d] = link[d] /\ (Present(d) <=> link[d] = "open")
        BY <1>1, <3>2 DEF Linked
      <4> QED
        BY <1>3, <3>2, <4>1
    <3> QED
      BY <3>1, <3>2
  <2> QED
    BY <2>1 DEF Linked
<1>6. Newcomers'
  <2>1. ASSUME NEW i \in 1..Len(backlog), Present(backlog[i])' PROVE Newcomer(backlog[i])'
    <3>1. CASE backlog[i] = c
      <4>1. Present(c)'
        BY <2>1, <3>1 DEF Present
      <4>2. Newcomer(c)'
        BY <3>1, <4>1
      <4> QED
        BY <3>1, <4>2 DEF Newcomer
    <3>2. CASE backlog[i] # c
      <4>1. PICK d \in Client \ {c} : backlog[i] = d
        BY <1>2, <3>2
      <4>2. Present(d)' /\ Present(backlog[i])
        BY <2>1, <4>1 DEF Present
      <4>3. Newcomer(d)
        BY <1>1, <4>1, <4>2 DEF Newcomers
      <4>4. Newcomer(d)'
        BY <1>3, <4>3
      <4> QED
        BY <4>1, <4>4 DEF Newcomer
    <3> QED
      BY <3>1, <3>2
  <2>2. ASSUME NEW d \in Client, Away(d)'
        PROVE  stream'[d] = <<>> /\ told'[d] = "none" /\ sent'[d] = <<>> /\ asked'[d] = Nothing
    <3>1. d # c /\ Away(d)
      BY <1>3, <2>2
    <3>2. stream[d] = <<>> /\ told[d] = "none" /\ sent[d] = <<>> /\ asked[d] = Nothing
      BY <3>1 DEF Context, AnswersInv, Newcomers
    <3> QED
      BY <3>1, <3>2
  <2> QED
    BY <2>1, <2>2 DEF Newcomers
<1>7. Counted'
  <2> SUFFICES ASSUME NEW t \in Thread
               PROVE  (Free(t) => runs[t] = 0)' /\ (Free(t) \/ Present(holder[t]) => Count(t))'
    BY DEF Counted
  <2>1. Free(t)' <=> Free(t)
    BY DEF Free
  <2>2. Count(t)' <=> Count(t)
    BY <1>1 DEF Count, LookingUp
  <2>3. Present(holder[t])' => Free(t) \/ Present(holder[t])
    BY <1>1, <1>3 DEF Present, Free
  <2> QED
    BY <2>1, <2>2, <2>3 DEF Context, AnswersInv, Counted
<1>8. Conversations'
  <2> SUFFICES ASSUME NEW t \in Thread, ~Free(t)', Present(holder[t])', holder[t] \notin misread'
               PROVE  InStep(t, holder[t])'
    BY DEF Conversations
  <2>1. PICK d \in Client : holder[t] = d /\ holder'[t] = d
    BY <1>1 DEF Free
  <2>2. Present(d)' /\ d \notin misread'
    BY <2>1 DEF Present
  <2>3. InStep(t, d)'
    <3>1. CASE d = c
      BY <2>1, <2>2, <3>1
    <3>2. CASE d # c
      <4>1. Present(d) /\ d \notin misread
        <5>1. (d \notin misread' => d \notin misread) /\ d \in Client \ {c}
          BY <3>2
        <5> QED
          BY <1>3, <2>2, <5>1
      <4>2. InStep(t, d)
        BY <2>1, <4>1, StageOf
      <4> QED
        BY <1>1, <3>2, <4>2, SamePair DEF LostStay
    <3> QED
      BY <3>1, <3>2
  <2> QED
    BY <2>1, <2>3, ZenonT(60) DEF InStep, AtPrompt, Asking, LookedUp, Forwarding, BeingListed, Leaving, Concluded,
                      Unread, Due
<1> QED
  BY <1>4, <1>5, <1>6, <1>7, <1>8 DEF AnswersInv

LEMMA ConnectKeeps ==
  ASSUME Context, LostStay, NEW c \in Client, Connect(c)
  PROVE  AnswersInv'
<1>1. /\ stage[c] = "away" /\ stage' = [stage EXCEPT ![c] = "prompt"]
      /\ link' = [link EXCEPT ![c] = "open"] /\ backlog' = Append(backlog, c)
      /\ UNCHANGED <<pc, req, route, reply, conn, holder, rest, runs, stream, asked, sent, told,
                     misread>>
  BY DEF Connect, Away, vars
<1>2. /\ backlog \in Seq(Client) /\ holder \in [Thread -> Client \union {NoClient}]
      /\ stage \in [Client -> ClientStage] /\ link \in [Client -> Link]
      /\ Seated /\ Linked /\ Newcomers /\ Counted
  BY DEF Context, SInv, SessionsTypeOK, AnswersInv
<1>3. /\ stage'[c] = "prompt" /\ link'[c] = "open"
      /\ \A d \in Client \ {c} : stage'[d] = stage[d] /\ link'[d] = link[d]
  BY <1>1, <1>2
<1>4. /\ Len(backlog') = Len(backlog) + 1 /\ Len(backlog) \in Nat /\ backlog'[Len(backlog) + 1] = c
      /\ \A i \in 1..Len(backlog) : backlog'[i] = backlog[i] /\ backlog[i] \in Client
  BY <1>1, <1>2
<1>5. /\ \A i \in 1..Len(backlog) : backlog[i] # c
      /\ \A t \in Thread : holder[t] # c
      /\ stream[c] = <<>> /\ told[c] = "none" /\ sent[c] = <<>> /\ asked[c] = Nothing
  <2>1. Away(c)
    BY <1>1 DEF Away
  <2>2. NoClient # c
    BY SessionAssumption
  <2> QED
    BY <1>2, <2>1, <2>2 DEF Seated, Newcomers, Free
<1>6. \A i \in 1..Len(backlog') : i \in 1..Len(backlog) \/ i = Len(backlog) + 1
  BY <1>4
<1>7. Seated'
  <2>1. \A i, j \in 1..Len(backlog') : backlog'[i] = backlog'[j] => i = j
    BY <1>2, <1>4, <1>5, <1>6 DEF Seated
  <2>2. ASSUME NEW t \in Thread, ~Free(t)'
        PROVE  /\ ~Away(holder[t])' /\ \A u \in Thread : holder'[u] = holder'[t] => u = t
               /\ \A i \in 1..Len(backlog') : backlog'[i] # holder'[t]
    <3>1. ~Free(t) /\ holder[t] \in Client \ {c}
      BY <1>1, <1>2, <1>5, <2>2 DEF Free
    <3>2. /\ ~Away(holder[t]) /\ \A u \in Thread : holder[u] = holder[t] => u = t
          /\ \A i \in 1..Len(backlog) : backlog[i] # holder[t]
      BY <1>2, <3>1 DEF Seated
    <3> QED
      BY <1>1, <1>3, <1>4, <1>6, <3>1, <3>2 DEF Away
  <2>3. \A i \in 1..Len(backlog') : ~Away(backlog[i])'
    <3>1. \A i \in 1..Len(backlog) : ~Away(backlog[i])
      BY <1>2 DEF Seated
    <3> QED
      BY <1>3, <1>4, <1>5, <1>6, <3>1 DEF Away
  <2> QED
    BY <2>1, <2>2, <2>3 DEF Seated
<1>8. Linked'
  BY <1>2, <1>3 DEF Linked, Present
<1>9. Newcomers'
  <2>1. \A i \in 1..Len(backlog') : (Present(backlog[i]) => Newcomer(backlog[i]))'
    <3> SUFFICES ASSUME NEW i \in 1..Len(backlog'), Present(backlog[i])' PROVE Newcomer(backlog[i])'
      OBVIOUS
    <3>1. CASE i \in 1..Len(backlog)
      <4>1. PICK d \in Client \ {c} : backlog[i] = d /\ backlog'[i] = d
        BY <1>4, <1>5, <3>1
      <4>2. Present(backlog[i])
        BY <1>3, <4>1 DEF Present
      <4>3. Newcomer(backlog[i])
        BY <1>2, <3>1, <4>2 DEF Newcomers
      <4> QED
        BY <1>1, <1>3, <4>1, <4>3 DEF Newcomer
    <3>2. CASE i = Len(backlog) + 1
      BY <1>1, <1>3, <1>4, <1>5, <3>2 DEF Newcomer
    <3> QED
      BY <1>6, <3>1, <3>2
  <2>2. \A d \in Client : Away(d)' => /\ stream'[d] = <<>> /\ told'[d] = "none"
                                    /\ sent'[d] = <<>> /\ asked'[d] = Nothing
    BY <1>1, <1>2, <1>3 DEF Newcomers, Away
  <2> QED
    BY <2>1, <2>2 DEF Newcomers
<1>10. Counted'
  <2> SUFFICES ASSUME NEW t \in Thread
               PROVE  (Free(t) => runs[t] = 0)' /\ (Free(t) \/ Present(holder[t]) => Count(t))'
    BY DEF Counted
  <2>1. (Free(t)' <=> Free(t)) /\ (Count(t)' <=> Count(t))
    BY <1>1 DEF Free, Count, LookingUp
  <2>2. Present(holder[t])' => Free(t) \/ Present(holder[t])
    BY <1>1, <1>2, <1>3, <1>5 DEF Present, Free
  <2> QED
    BY <1>1, <1>2, <2>1, <2>2 DEF Counted
<1>11. Conversations'
  <2> SUFFICES ASSUME NEW t \in Thread, ~Free(t)', Present(holder[t])', holder[t] \notin misread'
               PROVE  InStep(t, holder[t])'
    BY <1>1 DEF Conversations
  <2>1. PICK d \in Client \ {c} : holder[t] = d /\ holder'[t] = d
    BY <1>1, <1>2, <1>5 DEF Free
  <2>2. Present(d) /\ d \notin misread
    BY <1>1, <1>3, <2>1 DEF Present
  <2>3. InStep(t, d)
    BY <2>1, <2>2, StageOf
  <2>4. InStep(t, d)'
    BY <1>1, <1>3, <2>3, SamePair DEF LostStay
  <2> QED
    BY <2>1, <2>4 DEF InStep, AtPrompt, Asking, LookedUp, Forwarding, BeingListed, Leaving, Concluded,
                      Unread, Due
<1> QED
  BY <1>7, <1>8, <1>9, <1>10, <1>11 DEF AnswersInv

LEMMA AskForKeeps ==
  ASSUME Context, LostStay, NEW c \in Client, NEW r \in Request, AskFor(c, r)
  PROVE  AnswersInv'
<1>1. /\ stage[c] = "prompt" /\ asked' = [asked EXCEPT ![c] = r]
      /\ sent' = [sent EXCEPT ![c] = Append(@, r)] /\ told' = [told EXCEPT ![c] = "none"]
      /\ stage' = [stage EXCEPT ![c] = "first"]
      /\ UNCHANGED <<vars, backlog, holder, rest, runs, link, stream, misread>>
  BY DEF AskFor, threadSide, wire
<1>2. /\ stage \in [Client -> ClientStage] /\ asked \in [Client -> Request]
      /\ sent \in [Client -> Seq(Request)]
      /\ told \in [Client -> {"none", "success", "failure", "garbage"}]
      /\ Linked /\ Newcomers
  BY DEF Context, SInv, SessionsTypeOK, AnswersInv
<1>3. /\ stage'[c] = "first" /\ asked'[c] = r /\ sent'[c] = Append(sent[c], r) /\ told'[c] = "none"
      /\ \A d \in Client \ {c} : /\ stage'[d] = stage[d] /\ asked'[d] = asked[d]
                                /\ sent'[d] = sent[d] /\ told'[d] = told[d]
  BY <1>1, <1>2
<1>4. sent[c] = <<>> => sent'[c] = <<asked'[c]>>
  BY <1>3
<1>5. ~Away(c) /\ ~Away(c)' /\ Present(c) /\ Present(c)' /\ link'[c] = "open"
  BY <1>1, <1>2, <1>3 DEF Away, Present, Linked
<1>6. \A i \in 1..Len(backlog) : backlog[i] = c => Newcomer(c)'
  <2> SUFFICES ASSUME NEW i \in 1..Len(backlog), backlog[i] = c PROVE Newcomer(c)'
    OBVIOUS
  <2>1. Newcomer(c)
    BY <1>2, <1>5 DEF Newcomers
  <2> QED
    BY <1>1, <1>3, <1>4, <2>1 DEF Newcomer
<1>7. c \notin misread => \A t \in Thread : holder[t] = c => InStep(t, c)'
  <2> SUFFICES ASSUME NEW t \in Thread, holder[t] = c, c \notin misread PROVE InStep(t, c)'
    OBVIOUS
  <2>1. AtPrompt(t, c)
    BY <1>1, <1>5, StageOf DEF InStep, AtPrompt, Asking, LookedUp, Forwarding, BeingListed, Leaving,
                               Unread
  <2>2. AtRest(t)' /\ Due(t, c)' = Due(t, c)
    BY <1>1, <2>1 DEF AtPrompt, AtRest, Due, vars
  <2> QED
    BY <1>3, <1>4, <2>1, <2>2 DEF AtPrompt, Asking, InStep
<1>8. \A d \in Client \ {c} :
        /\ stage'[d] = stage[d] /\ asked'[d] = asked[d] /\ sent'[d] = sent[d]
        /\ told'[d] = told[d] /\ stream'[d] = stream[d] /\ link'[d] = link[d]
        /\ d \notin misread' => d \notin misread
  BY <1>1, <1>3
<1> QED
  BY <1>1, <1>5, <1>6, <1>7, <1>8, OneClient

LEMMA ExitKeeps ==
  ASSUME Context, LostStay, NEW c \in Client, NEW unread, stage[c] \notin {"away", "gone"},
         Exit(c, unread)
  PROVE  AnswersInv'
<1>1. /\ stage' = [stage EXCEPT ![c] = "gone"]
      /\ link' = [link EXCEPT ![c] = IF unread = <<>> THEN "fin" ELSE "reset"]
      /\ stream' = [stream EXCEPT ![c] = <<>>] /\ asked' = [asked EXCEPT ![c] = Nothing]
      /\ told' = [told EXCEPT ![c] = "none"] /\ misread' = misread \ {c}
      /\ UNCHANGED <<vars, backlog, holder, rest, runs, sent>>
  BY DEF Exit, threadSide
<1>2. /\ stage \in [Client -> ClientStage] /\ asked \in [Client -> Request]
      /\ told \in [Client -> {"none", "success", "failure", "garbage"}]
      /\ link \in [Client -> Link] /\ stream \in [Client -> Seq(Packet)]
  BY DEF Context, SInv, SessionsTypeOK
<1>3. /\ stage'[c] = "gone" /\ link'[c] # "open"
      /\ \A d \in Client \ {c} :
           /\ stage'[d] = stage[d] /\ asked'[d] = asked[d] /\ sent'[d] = sent[d]
           /\ told'[d] = told[d] /\ stream'[d] = stream[d] /\ link'[d] = link[d]
           /\ d \notin misread' => d \notin misread
  BY <1>1, <1>2
<1>4. ~Away(c) /\ ~Away(c)' /\ ~Present(c)'
  BY <1>3 DEF Away, Present
<1> QED
  BY <1>1, <1>3, <1>4, OneClient

(* What a client that receives packets is owed then.                       *)
LEMMA Reads ==
  ASSUME Context, LostStay, NEW c \in Client, stage[c] \notin {"away", "gone"}, stream[c] # <<>>,
         UNCHANGED <<vars, backlog, holder, rest, runs, link, asked, sent>>,
         NEW st \in ClientStage \ {"away", "gone"}, stage' = [stage EXCEPT ![c] = st],
         told' = told \/ \E k : told' = [told EXCEPT ![c] = k],
         \E left : stream' = [stream EXCEPT ![c] = left],
         misread \subseteq misread',
         c \notin misread' => \A t \in Thread : holder[t] = c => InStep(t, c)'
  PROVE  AnswersInv'
<1>1. /\ stage \in [Client -> ClientStage] /\ stream \in [Client -> Seq(Packet)]
      /\ told \in [Client -> {"none", "success", "failure", "garbage"}]
      /\ Linked /\ Newcomers
  BY DEF Context, SInv, SessionsTypeOK, AnswersInv
<1>2. \A d \in Client \ {c} :
        /\ stage'[d] = stage[d] /\ asked'[d] = asked[d] /\ sent'[d] = sent[d]
        /\ told'[d] = told[d] /\ stream'[d] = stream[d] /\ link'[d] = link[d]
        /\ d \notin misread' => d \notin misread
  BY <1>1
<1>3. stage'[c] = st /\ link' = link
  BY <1>1
<1>4. ~Away(c) /\ ~Away(c)' /\ Present(c) /\ Present(c)' /\ link'[c] = "open"
  BY <1>1, <1>3 DEF Away, Present, Linked
<1>5. \A i \in 1..Len(backlog) : backlog[i] # c
  BY <1>1, <1>4 DEF Newcomers, Newcomer
<1> QED
  BY <1>2, <1>4, <1>5, OneClient

(* The packets a client finds are the first of those that are due.         *)
LEMMA Finds ==
  ASSUME Context, NEW t \in Thread, NEW c \in Client, holder[t] = c, c \notin misread, Present(c),
         stream[c] # <<>>
  PROVE  /\ InStep(t, c) /\ Due(t, c) # <<>> /\ Head(stream[c]) = Head(Due(t, c))
         /\ stream'[c] = Tail(stream[c]) /\ rest'[t] = rest[t] => Due(t, c)' = Tail(Due(t, c))
<1>1. stream[c] \in Seq(Packet) /\ rest[t] \in Seq(Packet)
  BY PairTypes
<1>2. /\ stream[c] \o rest[t] # <<>> /\ Head(stream[c] \o rest[t]) = Head(stream[c])
      /\ Tail(stream[c]) \o rest[t] = Tail(stream[c] \o rest[t])
  BY <1>1, FirstOfBoth
<1>3. InStep(t, c)
  BY StageOf
<1> QED
  BY <1>2, <1>3 DEF Due

LEMMA AfterFirst ==
  ASSUME NEW left \in Seq(Packet)
  PROVE  Head(<<"init">> \o left) = "init" /\ Tail(<<"init">> \o left) = left
<1> DEFINE s == <<"init">> \o left
<1>1. "init" \in Packet /\ <<"init">> \in Seq(Packet) /\ Len(<<"init">>) = 1
  BY DEF Packet, AckPacket
<1>2. /\ s \in Seq(Packet) /\ Len(s) = 1 + Len(left) /\ s[1] = "init"
      /\ \A i \in 2..Len(s) : s[i] = left[i - 1]
  BY <1>1, ConcatProperties
<1> HIDE DEF s
<1>3. Tail(s) \in Seq(Packet) /\ Len(Tail(s)) = Len(left) /\ Head(s) = s[1] /\ Len(left) \in Nat
  BY <1>2
<1>4. \A i \in 1..Len(Tail(s)) : Tail(s)[i] = s[i + 1] /\ i + 1 \in 2..Len(s)
  BY <1>2, <1>3
<1>5. \A i \in 1..Len(Tail(s)) : Tail(s)[i] = left[i]
  BY <1>2, <1>3, <1>4
<1>6. Tail(s) = left
  BY <1>3, <1>5, SeqEqual
<1> QED
  BY <1>2, <1>3, <1>6 DEF s

LEMMA ReadFirstKeeps ==
  ASSUME Context, LostStay, NEW c \in Client, ReadFirst(c)
  PROVE  AnswersInv'
<1> DEFINE p == Head(stream[c])
           st == CASE p = "init" -> "second" [] p = "connect" -> "details"
                   [] p \in LongPacket -> "astray" [] OTHER -> "prompt"
<1>1. /\ stage[c] = "first" /\ stream[c] # <<>> /\ p \notin Refusals
      /\ stage' = [stage EXCEPT ![c] = st]
      /\ \E left : stream' = [stream EXCEPT ![c] = left]
      /\ p \notin LongPacket => stream' = [stream EXCEPT ![c] = Tail(@)]
      /\ UNCHANGED <<vars, backlog, holder, rest, runs, link, asked, sent, told, misread>>
  BY DEF ReadFirst, threadSide
<1>2. /\ st \in ClientStage \ {"away", "gone"}
      /\ (p = "init" => st = "second") /\ (p = "connect" => st = "details")
  BY DEF ClientStage, LongPacket
<1>3. stage \in [Client -> ClientStage] /\ stream \in [Client -> Seq(Packet)]
  BY DEF Context, SInv, SessionsTypeOK
<1>4. /\ stage'[c] = st /\ Present(c)
      /\ p \notin LongPacket => stream'[c] = Tail(stream[c])
  BY <1>1, <1>3 DEF Present
<1>5. ASSUME NEW t \in Thread, holder[t] = c, c \notin misread PROVE InStep(t, c)'
  <2>1. /\ InStep(t, c) /\ Due(t, c) # <<>> /\ p = Head(Due(t, c))
        /\ p \notin LongPacket => Due(t, c)' = Tail(Due(t, c))
    BY <1>1, <1>4, <1>5, Finds
  <2>2. UNCHANGED <<pc, req, route, reply, asked, sent, told, runs, state, online, registering>>
    BY <1>1 DEF vars
  <2>3. AtRest(t)' <=> AtRest(t)
    BY <2>2 DEF AtRest
  <2>4. ASSUME NEW left \in Seq(Packet), Unread(t, c, left) PROVE Unread(t, c, left)'
    <3>1. Due(t, c) = <<"init">> \o left
      BY <1>1, <2>4 DEF Unread
    <3>2. p = "init" /\ Due(t, c)' = left
      BY <2>1, <3>1, AfterFirst DEF LongPacket
    <3> QED
      BY <1>2, <1>4, <3>2 DEF Unread
  <2>5. CASE Forwarding(t, c)
    <3>1. DueStatus(t)' = DueStatus(t)
      BY <2>2 DEF DueStatus, Succeeded, Lost, Serving
    <3>2. \A k \in DueStatus(t) : <<k>> \in Seq(Packet)
      BY DEF DueStatus, Packet, AckPacket
    <3>3. <<>> \in Seq(Packet)
      OBVIOUS
    <3> QED
      BY <2>2, <2>3, <2>4, <2>5, <3>1, <3>2, <3>3 DEF Forwarding, InStep
  <2>6. CASE BeingListed(t, c)
    <3>1. ListPackets \subseteq Seq(Packet)
      <4>1. "success" \in Packet
        BY DEF Packet, AckPacket
      <4>2. <<"success">> \in Seq(Packet)
        BY <4>1
      <4>3. ASSUME NEW l \in ListPackets PROVE l \in Seq(Packet)
        BY <4>2, <4>3, Zenon DEF ListPackets
      <4> QED
        BY <4>3, Zenon
    <3>2. PICK left \in ListPackets : told[c] = "none" /\ Unread(t, c, left)
      BY <1>1, <2>6 DEF BeingListed
    <3>3. Unread(t, c, left)'
      BY <2>4, <3>1, <3>2
    <3> QED
      BY <2>2, <2>6, <3>2, <3>3 DEF BeingListed, InStep
  <2>7. CASE Leaving(t, c)
    <3>1. told[c] = "none" /\ Due(t, c) \in {<<"refusal">>, <<"connect", "details">>}
      BY <1>1, <2>7 DEF Leaving
    <3>2. p = "connect"
      BY <1>1, <2>1, <3>1 DEF Refusals
    <3> QED
      BY <1>2, <1>4, <2>2, <3>1, <3>2 DEF Leaving, InStep
  <2> QED
    BY <1>1, <2>1, <2>5, <2>6, <2>7 DEF InStep, AtPrompt, Asking, LookedUp
<1> HIDE DEF st
<1> QED
  BY <1>1, <1>2, <1>5, Reads

LEMMA ReadSecondKeeps ==
  ASSUME Context, LostStay, NEW c \in Client, ReadSecond(c)
  PROVE  AnswersInv'
<1> DEFINE p == Head(stream[c])
<1>1. /\ stage[c] = "second" /\ stream[c] # <<>>
      /\ misread' = IF p \in LongPacket THEN misread \union {c} ELSE misread
      /\ UNCHANGED <<vars, backlog, holder, rest, runs, link, asked, sent>>
  BY DEF ReadSecond, threadSide
<1>2. PICK status \in Status(p) : told' = [told EXCEPT ![c] = status]
  BY DEF ReadSecond
<1> DEFINE lister == asked[c].type = "LIST_ALL"
           st == CASE lister -> "list"
                   [] ~lister /\ p \in LongPacket -> "astray" [] OTHER -> "prompt"
           left == CASE p = "path" -> <<"shifted">> \o Tail(stream[c])
                     [] p \in LongPacket \ {"path"} -> <<"left">> \o Tail(stream[c])
                     [] OTHER -> Tail(stream[c])
<1>3. stage' = [stage EXCEPT ![c] = st] /\ st \in ClientStage \ {"away", "gone"}
  BY DEF ReadSecond, ClientStage
<1>4. stream' = [stream EXCEPT ![c] = left]
  BY DEF ReadSecond
<1>5. /\ stage \in [Client -> ClientStage] /\ stream \in [Client -> Seq(Packet)]
      /\ told \in [Client -> {"none", "success", "failure", "garbage"}]
  BY DEF Context, SInv, SessionsTypeOK
<1>6. stage'[c] = st /\ stream'[c] = left /\ told'[c] = status /\ Present(c)
  BY <1>1, <1>2, <1>3, <1>4, <1>5 DEF Present
<1>7. ASSUME NEW t \in Thread, holder[t] = c, c \notin misread' PROVE InStep(t, c)'
  <2>1. c \notin misread /\ p \notin LongPacket /\ stream'[c] = Tail(stream[c])
    BY <1>1, <1>6, <1>7 DEF LongPacket
  <2>2. /\ InStep(t, c) /\ Due(t, c) # <<>> /\ p = Head(Due(t, c))
        /\ Due(t, c)' = Tail(Due(t, c))
    BY <1>1, <1>6, <1>7, <2>1, Finds
  <2>3. UNCHANGED <<pc, req, route, reply, asked, sent, runs, state, online, registering>>
    BY <1>1 DEF vars
  <2>4. \A left1 : Unread(t, c, left1) => Due(t, c) = left1
    BY <1>1 DEF Unread
  <2>6. CASE Forwarding(t, c)
    <3>1. /\ sent[c] = <<>> /\ asked[c].type \in Privileged
          /\ req[t] = asked[c] /\ AtRest(t)
      BY <2>2, <2>4, <2>6 DEF Forwarding
    <3>2. PICK k \in DueStatus(t) : Due(t, c) = <<k>>
      BY <2>2, <2>4, <2>6 DEF Forwarding
    <3>3. k = p /\ Due(t, c)' = <<>>
      BY <2>2, <3>2
    <3>4. stage'[c] = "prompt"
      BY <1>6, <2>1, <3>1 DEF Privileged
    <3>5. /\ k \in {"refusal", "success", "failure", "garbage"}
          /\ reply[t] = IF k = "refusal" THEN "refused" ELSE k
          /\ k = "success" => Succeeded(t)
      BY DEF DueStatus
    <3>6. told'[c] = (IF reply[t] = "refused" THEN "failure" ELSE reply[t])
          /\ (told'[c] = "success" => Succeeded(t))
      BY <1>6, <2>1, <3>3, <3>5 DEF Status, Refusals
    <3>7. AtRest(t)'
      BY <2>3, <3>1 DEF AtRest
    <3>8. Concluded(t, c)'
      BY <2>3, <3>1, <3>6, <3>7 DEF Concluded, Succeeded, Lost, Serving
    <3> QED
      BY <2>3, <3>1, <3>3, <3>4, <3>7, <3>8 DEF AtPrompt, InStep
  <2>7. CASE BeingListed(t, c)
    <3>1. sent[c] = <<>> /\ pc[t] = "idle" /\ asked[c].type = "LIST_ALL"
      BY <2>7 DEF BeingListed
    <3>2. PICK left1 \in ListPackets : Due(t, c) = left1
      BY <1>1, <2>4, <2>7 DEF BeingListed
    <3>3. Due(t, c)' = <<>>
      <4>1. Due(t, c) = <<"success">>
        BY <2>1, <2>2, <3>2 DEF ListPackets
      <4> HIDE DEF p, Due
      <4>2. Tail(<<"success">>) = <<>>
        OBVIOUS
      <4> QED
        BY <2>2, <4>1, <4>2
    <3>4. stage'[c] = "list"
      BY <1>6, <3>1
    <3> QED
      BY <2>3, <3>1, <3>3, <3>4 DEF BeingListed, InStep
  <2> QED
    BY <1>1, <2>2, <2>6, <2>7 DEF InStep, AtPrompt, Asking, LookedUp, Leaving
<1>8. misread \subseteq misread'
  BY <1>1
<1>9. /\ told' = told \/ \E k : told' = [told EXCEPT ![c] = k]
      /\ \E l : stream' = [stream EXCEPT ![c] = l]
  BY <1>2, <1>4
<1> HIDE DEF st, left
<1> QED
  BY <1>1, <1>3, <1>7, <1>8, <1>9, Reads

LEMMA ReadListKeeps ==
  ASSUME Context, LostStay, NEW c \in Client, ReadList(c)
  PROVE  AnswersInv'
<1>1. /\ stage[c] = "list" /\ stream[c] # <<>>
      /\ UNCHANGED <<vars, backlog, holder, rest, runs, link, asked, sent, told, misread>>
  BY DEF ReadList, threadSide
<1>2. /\ \E left : stream' = [stream EXCEPT ![c] = left]
      /\ \E st \in {"list", "prompt", "astray"} : stage' = [stage EXCEPT ![c] = st]
  BY DEF ReadList
<1>3. {"list", "prompt", "astray"} \subseteq ClientStage \ {"away", "gone"}
  BY DEF ClientStage
<1>4. Present(c)
  BY <1>1 DEF Present
<1>5. ASSUME NEW t \in Thread, holder[t] = c, c \notin misread PROVE FALSE
  <2>1. InStep(t, c) /\ Due(t, c) # <<>>
    BY <1>1, <1>4, <1>5, Finds
  <2> QED
    BY <1>1, <2>1 DEF InStep, AtPrompt, Asking, LookedUp, Forwarding, BeingListed, Leaving, Unread
<1> QED
  BY <1>1, <1>2, <1>3, <1>5, Reads

LEMMA ReadDetailsKeeps ==
  ASSUME Context, LostStay, NEW c \in Client, ReadDetails(c)
  PROVE  AnswersInv'
<1>1. /\ stage[c] = "details" /\ stream[c] # <<>> /\ stage' = [stage EXCEPT ![c] = "direct"]
      /\ UNCHANGED <<vars, backlog, holder, rest, runs, link, asked, sent, told, misread>>
  BY DEF ReadDetails, threadSide
<1>2. /\ \E left : stream' = [stream EXCEPT ![c] = left]
      /\ "direct" \in ClientStage \ {"away", "gone"}
  BY DEF ReadDetails, ClientStage
<1>3. Present(c) /\ stage'[c] = "direct"
  BY <1>1 DEF Present, Context, SInv, SessionsTypeOK
<1>4. ASSUME NEW t \in Thread, holder[t] = c, c \notin misread PROVE InStep(t, c)'
  <2>1. InStep(t, c)
    BY <1>3, <1>4, StageOf
  <2>2. told[c] = "none"
    BY <1>1, <2>1 DEF InStep, AtPrompt, Asking, LookedUp, Forwarding, BeingListed, Leaving, Unread
  <2> QED
    BY <1>1, <1>3, <2>2 DEF Leaving, InStep
<1> QED
  BY <1>1, <1>2, <1>4, Reads

LEMMA ClientStepKeeps ==
  ASSUME Context, LostStay, NEW c \in Client,
         Connect(c) \/ Leave(c) \/ ClientReads(c) \/ \E r \in Request : AskFor(c, r)
  PROVE  AnswersInv'
<1>1. CASE Leave(c)
  BY <1>1, ExitKeeps DEF Leave
<1>2. CASE ReadRefusal(c)
  BY <1>2, ExitKeeps DEF ReadRefusal
<1> QED
  BY <1>1, <1>2, ConnectKeeps, AskForKeeps, ReadFirstKeeps, ReadSecondKeeps, ReadListKeeps,
     ReadDetailsKeeps DEF ClientReads

-----------------------------------------------------------------------------
(* The steps beside: an execution is counted.                              *)

(* How a connection to a storage server moves.                             *)
Moves(t) ==
  \/ conn'[t] = conn[t]
  \/ conn[t].stage = "queued" /\ conn'[t].stage = "done"
  \/ conn[t].stage = "done" /\ conn'[t].stage = "acked"
  \/ conn[t].stage = "acked" /\ conn'[t].stage \in {"sent", "eof"}
  \/ conn[t].stage = "queued" /\ conn'[t].stage \in {"eof", "reset"}
  \/ conn[t].stage = "done" /\ conn'[t].stage = "eof"

LEMMA ServersMove ==
  ASSUME Context, ServersStep
  PROVE  UNCHANGED <<pc, req, route, reply>> /\ \A t \in Thread : Moves(t)
<1>0. conn \in [Thread -> Conn] /\ queue \in [Server -> Seq(Thread)]
  BY DEF Context, IInv, TypeOK
<1>1. ASSUME NEW s \in Server, SSStop(s) PROVE \A t \in Thread : Moves(t)
  <2>1. PICK e \in {"reset", "eof"} :
          conn' = [t \in Thread |-> IF t \notin Range(queue[s]) THEN conn[t]
                                    ELSE IF t = Head(queue[s]) THEN CutOff(conn[t], e)
                                    ELSE CutOff(conn[t], "reset")]
    BY <1>1 DEF SSStop
  <2>2. ASSUME NEW t \in Thread PROVE \/ conn'[t] = conn[t]
                                      \/ \E h \in {"reset", "eof"} : conn'[t] = CutOff(conn[t], h)
    BY <2>1
  <2>3. ASSUME NEW t \in Thread, NEW h \in {"reset", "eof"}, conn'[t] = CutOff(conn[t], h)
        PROVE  Moves(t)
    BY <2>3 DEF CutOff, Closed, Moves
  <2> QED
    BY <2>2, <2>3 DEF Moves
<1>2. ASSUME NEW s \in Server, SSExecute(s) \/ SSSendAck(s) \/ SSSendDetails(s)
      PROVE  \A t \in Thread : Moves(t)
  <2> DEFINE t == Head(queue[s])
  <2>1. t \in Thread
    BY <1>0, <1>2 DEF SSExecute, SSSendAck, SSSendDetails
  <2>2. \A u \in Thread \ {t} : conn'[u] = conn[u]
    BY <1>0, <1>2, <2>1 DEF SSExecute, SSSendAck, SSSendDetails
  <2>3. \A d, r : Executed(d, r).stage = "done"
    BY DEF Executed, Outcome
  <2>4. \/ conn[t].stage = "queued" /\ conn'[t].stage = "done"
        \/ conn[t].stage = "done" /\ conn'[t].stage = "acked"
        \/ conn[t].stage = "acked" /\ conn'[t].stage = "sent"
    BY <1>0, <1>2, <2>1, <2>3 DEF SSExecute, SSSendAck, SSSendDetails, Conn
  <2> QED
    BY <2>1, <2>2, <2>4 DEF Moves
<1>3. conn' = conn => \A t \in Thread : Moves(t)
  BY DEF Moves
<1>4. UNCHANGED <<pc, req, route, reply>>
  BY DEF ServersStep, ListenerStep, ServerStep, SSStart, SSListen, SSStop, SSExecute, SSSendAck,
         SSSendDetails, RegisterServer, RegisterUnheard, RefuseServer, AckServer, AckFails,
         threadVars
<1> QED
  BY <1>1, <1>2, <1>3, <1>4
  DEF ServersStep, ListenerStep, ServerStep, SSStart, SSListen, RegisterServer, RegisterUnheard,
      RefuseServer, AckServer, AckFails, threadVars

LEMMA BesideKeeps ==
  ASSUME Context, LostStay, ServersStep, Beside
  PROVE  AnswersInv'
<1>1. /\ UNCHANGED <<pc, req, route, reply>> /\ \A t \in Thread : Moves(t)
      /\ UNCHANGED <<backlog, holder, rest, link, stream, stage, asked, sent, told, misread>>
  BY ServersMove DEF Beside, threadSide, wire, clientSide
<1>2. /\ Seated /\ Linked /\ Newcomers /\ Counted
      /\ holder \in [Thread -> Client \union {NoClient}] /\ runs \in [Thread -> 0..2]
  BY DEF Context, SInv, SessionsTypeOK, AnswersInv
<1>3. ASSUME NEW t \in Thread
      PROVE  runs'[t] = IF conn[t].stage = "queued" /\ conn'[t].stage = "done" /\ runs[t] < 2
                        THEN runs[t] + 1 ELSE runs[t]
  BY DEF Beside
<1>4. ASSUME NEW t \in Thread, pc[t] # "waiting"
      PROVE  conn[t].stage = "none" /\ conn'[t] = conn[t] /\ runs'[t] = runs[t]
  <2>1. conn[t].stage = "none"
    BY <1>4 DEF Context, IInv, Waiting
  <2> QED
    BY <1>1, <1>3, <2>1 DEF Moves
<1>5. Seated' /\ Linked' /\ Newcomers'
  BY <1>1, <1>2 DEF Seated, Linked, Newcomers, Newcomer, Free, Away, Present
<1>6. Counted'
  <2> SUFFICES ASSUME NEW t \in Thread
               PROVE  (Free(t) => runs[t] = 0)' /\ (Free(t) \/ Present(holder[t]) => Count(t))'
    BY DEF Counted
  <2>1. (Free(t)' <=> Free(t)) /\ (Present(holder[t])' <=> Present(holder[t]))
    BY <1>1 DEF Free, Present
  <2>2. CASE pc[t] # "waiting"
    <3>1. Count(t)' <=> Count(t)
      BY <1>1, <1>4, <2>2 DEF Count, LookingUp
    <3> QED
      BY <1>2, <1>4, <2>1, <2>2, <3>1 DEF Counted
  <2>3. CASE pc[t] = "waiting"
    <3>1. ~Free(t)
      BY <2>3, HeldBy
    <3>2. ASSUME Count(t) PROVE Count(t)'
      <4>1. runs[t] \in {0, 1} /\ (conn[t].stage = "queued" => runs[t] = 0)
        BY <3>2 DEF Count, LookingUp
      <4>2. conn[t].stage = "queued" /\ conn'[t].stage = "done" => runs'[t] = 1
        BY <1>3, <4>1
      <4>3. ~(conn[t].stage = "queued" /\ conn'[t].stage = "done") => runs'[t] = runs[t]
        BY <1>3
      <4>4. pc'[t] = "waiting"
        BY <1>1, <2>3
      <4>5. Moves(t)
        BY <1>1
      <4> QED
        BY <3>2, <4>2, <4>3, <4>4, <4>5 DEF Count, LookingUp, Moves
    <3> QED
      BY <1>2, <2>1, <3>1, <3>2 DEF Counted
  <2> QED
    BY <2>2, <2>3
<1>7. Conversations'
  <2> SUFFICES ASSUME NEW t \in Thread, ~Free(t)', Present(holder[t])', holder[t] \notin misread'
               PROVE  InStep(t, holder[t])'
    BY <1>1 DEF Conversations
  <2>1. PICK d \in Client : holder[t] = d /\ holder'[t] = d
    BY <1>1, <1>2 DEF Free
  <2>2. Present(d) /\ d \notin misread
    BY <1>1, <2>1 DEF Present
  <2>3. InStep(t, d)
    BY <2>1, <2>2, StageOf
  <2>4. AtRest(t) => runs'[t] = runs[t]
    BY <1>4 DEF AtRest
  <2>5. InStep(t, d)'
    BY <1>1, <2>3, <2>4, SamePair DEF LostStay
  <2> QED
    BY <2>1, <2>5 DEF InStep, AtPrompt, Asking, LookedUp, Forwarding, BeingListed, Leaving, Concluded,
                      Unread, Due
<1> QED
  BY <1>5, <1>6, <1>7 DEF AnswersInv

-----------------------------------------------------------------------------
(* The invariant.                                                          *)

LEMMA AnswersInit == SessionsInit => Answered /\ AnswersInv
<1> SUFFICES ASSUME SessionsInit PROVE Answered /\ AnswersInv
  OBVIOUS
<1>1. Seated /\ Newcomers
  BY DEF SessionsInit, Seated, Newcomers, Free
<1>2. Linked
  BY DEF SessionsInit, Linked, Present
<1>3. Counted
  BY DEF SessionsInit, Init, Counted, Count, LookingUp, Closed
<1>4. Conversations
  BY DEF SessionsInit, Conversations, Free
<1>5. Answered
  BY DEF SessionsInit, Init, Answered
<1> QED
  BY <1>1, <1>2, <1>3, <1>4, <1>5 DEF AnswersInv

LEMMA AnswersStep == Context /\ [SessionsNext]_svars => AnswersInv'
<1> SUFFICES ASSUME Context, [SessionsNext]_svars PROVE AnswersInv'
  OBVIOUS
<1>0. LostStay
  <2>1. [Next]_vars
    BY SessionsStep, SInvReceipts DEF Context
  <2>2. online \subseteq online' /\ StayOut /\ online \subseteq Server
    BY <2>1, ProcessStep DEF ProcessesKept, Context, IInv, TypeOK
  <2> SUFFICES ASSUME NEW t \in Thread, Lost(t), route'[t] = route[t] PROVE Lost(t)'
    BY DEF LostStay
  <2>3. PICK s \in Server : route[t] = s
    BY <2>2 DEF Lost
  <2>4. s \in online' /\ ~Serving(s)'
    BY <2>2, <2>3 DEF Lost, StayOut
  <2> QED
    BY <2>3, <2>4 DEF Lost, Serving
<1>1. CASE ServersStep /\ Beside
  BY <1>0, <1>1, BesideKeeps
<1>2. ASSUME NEW c \in Client,
             Connect(c) \/ Leave(c) \/ ClientReads(c) \/ \E r \in Request : AskFor(c, r)
      PROVE  AnswersInv'
  BY <1>0, <1>2, ClientStepKeeps
<1>3. ASSUME NEW t \in Thread, Accept(t) \/ EndThread(t) PROVE AnswersInv'
  BY <1>0, <1>3, AcceptKeeps, EndThreadKeeps
<1>4. ASSUME NEW t \in Thread,
             \/ TakeRequest(t) \/ TakeAgain(t) \/ LookUp(t) \/ AnswerClient(t) \/ SendRest(t)
             \/ ForwardRequest(t) \/ RefuseClient(t) \/ MergeAndAnswer(t) \/ UnlinkPath(t)
      PROVE  AnswersInv'
  <2>1. holder[t] \in Client
    <3>1. CASE TakeRequest(t) \/ TakeAgain(t)
      BY <3>1 DEF TakeRequest, TakeAgain, Ready, Context, SInv, SessionsTypeOK
    <3>2. CASE \/ LookUp(t) \/ AnswerClient(t) \/ SendRest(t) \/ ForwardRequest(t) \/ RefuseClient(t)
               \/ MergeAndAnswer(t) \/ UnlinkPath(t)
      <4>1. pc[t] # "idle" \/ rest[t] # <<>>
        BY <3>2 DEF LookUp, Fill, ReadBack, AnswerClient, SendRest, ForwardRequest, RefuseClient,
                    MergeAndAnswer, UnlinkPath, AnswerDirectly, ForwardFails, Merge, Unlink
      <4> QED
        BY <4>1, HeldBy
    <3> QED
      BY <1>4, <3>1, <3>2
  <2>2. PICK c \in Client : holder[t] = c
    BY <2>1
  <2> QED
    BY <1>0, <1>4, <2>2, TakeRequestKeeps, TakeAgainKeeps, LookUpKeeps, AnswerClientKeeps, SendRestKeeps,
       ForwardRequestKeeps, RefuseClientKeeps, MergeAndAnswerKeeps, UnlinkPathKeeps
<1>5. CASE UNCHANGED svars
  <2>1. /\ UNCHANGED <<pc, req, route, reply, conn, backlog, holder, rest, runs, link, stream>>
        /\ UNCHANGED <<stage, asked, sent, told, misread>>
    BY <1>5 DEF svars, vars, threadSide, wire, clientSide
  <2>2. Seated' /\ Linked' /\ Newcomers' /\ Counted'
    BY <2>1 DEF Context, AnswersInv, Seated, Linked, Newcomers, Newcomer, Counted, Count, LookingUp,
                Free, Away, Present
  <2>3. Conversations'
    <3> SUFFICES ASSUME NEW t \in Thread, ~Free(t)', Present(holder[t])', holder[t] \notin misread'
                 PROVE  InStep(t, holder[t])'
      BY <2>1 DEF Conversations
    <3>1. holder \in [Thread -> Client \union {NoClient}]
      BY DEF Context, SInv, SessionsTypeOK
    <3>2. PICK d \in Client : holder[t] = d /\ holder'[t] = d
      BY <2>1, <3>1 DEF Free
    <3>3. Present(d) /\ d \notin misread
      BY <2>1, <3>2 DEF Present
    <3>4. InStep(t, d)
      BY <3>2, <3>3, StageOf
    <3>5. InStep(t, d)'
      BY <1>0, <2>1, <3>4, SamePair DEF LostStay
    <3> QED
      BY <3>2, <3>5 DEF InStep, AtPrompt, Asking, LookedUp, Forwarding, BeingListed, Leaving, Concluded,
                        Unread, Due
  <2> QED
    BY <2>2, <2>3 DEF AnswersInv
<1> QED
  BY <1>1, <1>2, <1>3, <1>4, <1>5 DEF SessionsNext, ThreadTurn

LEMMA ConversationsHold == SessionsSpec => []Context
<1>1. SessionsSpec => []IInv
  BY SessionsImplementNaming, NamingInvariant, PTL
<1>2. SInv /\ IInv /\ Answered /\ AnswersInv => Context
  BY DEF Context
<1>3. SInv /\ IInv /\ Answered /\ AnswersInv /\ [SessionsNext]_svars => Answered' /\ AnswersInv'
  BY AnsweredStep, AnswersStep DEF Context
<1> QED
  BY <1>1, <1>2, <1>3, SessionsInvariant, AnswersInit, PTL DEF SessionsSpec

(* A client that is back at its prompt after a request that was forwarded  *)
(* was told how this request ended, and nothing of the answer is under way *)
(* (client.c:163-215 against nm_helper.c:283-302), for any clients and     *)
(* threads; but one that was given paths to list before may read late.     *)
THEOREM SessionsAnswersInStep == SessionsSpec => []AnswersInStep
<1>1. Context => AnswersInStep
  <2> SUFFICES ASSUME Context, NEW t \in Thread, NEW c \in Client, c \notin misread, Forwarded(t, c)
               PROVE  /\ stream[c] = <<>> /\ rest[t] = <<>> /\ pc[t] \in {"idle", "unlink"}
                      /\ req[t] = asked[c]
                      /\ told[c] = IF reply[t] = "refused" THEN "failure" ELSE reply[t]
    BY DEF AnswersInStep
  <2>1. holder[t] = c /\ stage[c] = "prompt" /\ told[c] # "none"
    BY DEF Forwarded
  <2>2. Present(c)
    BY <2>1 DEF Present
  <2>3. InStep(t, c)
    BY <2>1, <2>2, StageOf
  <2>4. Due(t, c) = <<>> /\ Concluded(t, c)
    BY <2>1, <2>3 DEF InStep, AtPrompt, Asking, LookedUp, Forwarding, BeingListed, Leaving, Unread
  <2> QED
    BY <2>4, PairTypes DEF Concluded, AtRest
<1> QED
  BY <1>1, ConversationsHold, PTL

(* While its client is there a request is executed at most once; and if    *)
(* the client, in step, was told SUCCESS, then once, unless the storage    *)
(* server has ended: what it did not acknowledge may read as a success     *)
(* (nm_helper.c:120, 148).  All this although the loop of a thread         *)
(* (nm.c:42-71) serves its buffer whatever recv returned.                  *)
THEOREM SessionsDoneOnce == SessionsSpec => []DoneOnce
<1>1. Context => DoneOnce
  <2> SUFFICES ASSUME Context, NEW t \in Thread, NEW c \in Client, holder[t] = c, Present(c)
               PROVE  /\ runs[t] <= 1
                      /\ (c \notin misread /\ told[c] = "success" /\ asked[c].type \in Privileged)
                           => runs[t] = 1 \/ (route[t] \in online /\ ~Serving(route[t]))
    BY DEF DoneOnce
  <2>1. runs[t] <= 1
    BY DEF Context, AnswersInv, Counted, Count, LookingUp
  <2>2. ASSUME c \notin misread, told[c] = "success", asked[c].type \in Privileged
        PROVE  Succeeded(t)
    <3>1. InStep(t, c)
      BY <2>2, StageOf
    <3>2. ~BeingListed(t, c)
      BY <2>2 DEF BeingListed, Privileged
    <3> QED
      BY <2>2, <3>1, <3>2 DEF InStep, AtPrompt, Concluded, Asking, LookedUp, Forwarding, Leaving
  <2> QED
    BY <2>1, <2>2 DEF Succeeded, Lost
<1> QED
  BY <1>1, ConversationsHold, PTL
=============================================================================
