--------------------------- MODULE SessionsProofs ---------------------------
(***************************************************************************)
(* The clients and their connections add nothing to what the naming server *)
(* may do: every behaviour of Sessions is one of NamingServer, and so what *)
(* is proved of the latter holds with the clients there.  And the process  *)
(* is ended by nobody who stays.                                           *)
(***************************************************************************)
EXTENDS Sessions, NamingProofs, FiniteSetTheorems

-----------------------------------------------------------------------------
(* Refinement.                                                             *)

(* A thread only ever looks up what a client sent or what was on a stack.  *)
Receipts ==
  /\ backlog \in Seq(Client)
  /\ holder \in [Thread -> Client \union {NoClient}]
  /\ buffer \in [Thread -> Request]
  /\ stacks \subseteq Request
  /\ sent \in [Client -> Seq(Request)]

LEMMA ReceiptsInit == SessionsInit => Receipts
  BY SessionAssumption DEF SessionsInit, Receipts

LEMMA ReceiptsStep == Receipts /\ [SessionsNext]_svars => Receipts'
<1> SUFFICES ASSUME Receipts, [SessionsNext]_svars PROVE Receipts'
  OBVIOUS
<1> USE DEF Receipts
<1>1. ASSUME UNCHANGED threadSide, sent' = sent PROVE Receipts'
  BY <1>1 DEF threadSide
<1>2. ASSUME UNCHANGED <<backlog, holder, buffer, stacks, sent>> PROVE Receipts'
  BY <1>2
<1>3. ASSUME NEW t \in Thread, Accept(t) PROVE Receipts'
  <2>1. stacks \union {Nothing} \subseteq Request
    BY SessionAssumption
  <2>2. buffer' \in [Thread -> Request]
    BY <1>3, <2>1 DEF Accept
  <2>3. Head(backlog) \in Client /\ Tail(backlog) \in Seq(Client)
    BY <1>3 DEF Accept
  <2> QED
    BY <1>3, <2>2, <2>3 DEF Accept, clientSide
<1>4. ASSUME NEW t \in Thread, TakeRequest(t) PROVE Receipts'
  <2>1. sent[holder[t]] # <<>> /\ holder[t] \in Client
    BY <1>4 DEF TakeRequest, Ready
  <2>2. Head(sent[holder[t]]) \in Request /\ Tail(sent[holder[t]]) \in Seq(Request)
    BY <2>1
  <2> QED
    BY <1>4, <2>1, <2>2 DEF TakeRequest
<1>5. ASSUME NEW t \in Thread, EndThread(t) PROVE Receipts'
  <2>1. buffer[t] \in Request
    OBVIOUS
  <2> QED
    BY <1>5, <2>1, SessionAssumption DEF EndThread, clientSide
<1>6. ASSUME NEW t \in Thread,
             \/ TakeAgain(t) \/ LookUp(t) \/ AnswerClient(t) \/ SendRest(t)
             \/ ForwardRequest(t) \/ RefuseClient(t) \/ MergeAndAnswer(t) \/ UnlinkPath(t)
      PROVE  Receipts'
  BY <1>2, <1>6 DEF TakeAgain, LookUp, AnswerClient, SendRest, ForwardRequest, RefuseClient,
                    MergeAndAnswer, UnlinkPath, threadSide, clientSide
<1>7. ASSUME NEW c \in Client, Connect(c) PROVE Receipts'
  BY <1>7 DEF Connect
<1>8. ASSUME NEW c \in Client, NEW r \in Request, AskFor(c, r) PROVE Receipts'
  <2>1. Append(sent[c], r) \in Seq(Request)
    OBVIOUS
  <2> QED
    BY <1>8, <2>1 DEF AskFor, threadSide
<1>9. ASSUME NEW c \in Client, Leave(c) \/ ClientReads(c) PROVE Receipts'
  BY <1>1, <1>9 DEF Leave, ClientReads, ReadRefusal, Exit, ReadFirst, ReadSecond, ReadList,
                    ReadDetails
<1>10. CASE Beside
  BY <1>1, <1>10 DEF Beside, clientSide
<1>11. CASE UNCHANGED svars
  BY <1>1, <1>11 DEF svars, clientSide
<1> QED
  BY <1>3, <1>4, <1>5, <1>6, <1>7, <1>8, <1>9, <1>10, <1>11 DEF SessionsNext, ThreadTurn

LEMMA SessionsStep == Receipts /\ [SessionsNext]_svars => [Next]_vars
<1> SUFFICES ASSUME Receipts, [SessionsNext]_svars PROVE [Next]_vars
  OBVIOUS
<1>1. CASE ServersStep
  BY <1>1 DEF Next
<1>2. ASSUME NEW t \in Thread, NEW r \in Request, Receive(t, r) PROVE Next
  BY <1>2 DEF Next
<1>3. ASSUME NEW t \in Thread, TakeRequest(t) PROVE Next
  <2>1. holder[t] \in Client /\ sent[holder[t]] \in Seq(Request) /\ sent[holder[t]] # <<>>
    BY <1>3 DEF TakeRequest, Ready, Receipts
  <2>2. Head(sent[holder[t]]) \in Request
    BY <2>1
  <2> QED
    BY <1>2, <1>3, <2>2 DEF TakeRequest
<1>4. ASSUME NEW t \in Thread, TakeAgain(t) PROVE Next
  <2>1. buffer[t] \in Request
    BY DEF Receipts
  <2> QED
    BY <1>2, <1>4, <2>1 DEF TakeAgain
<1>5. ASSUME NEW t \in Thread, Accept(t) \/ EndThread(t) \/ SendRest(t) PROVE UNCHANGED vars
  BY <1>5 DEF Accept, EndThread, SendRest
<1>6. ASSUME NEW t \in Thread,
             LookUp(t) \/ AnswerClient(t) \/ RefuseClient(t) \/ MergeAndAnswer(t) \/ UnlinkPath(t)
      PROVE  Next
  BY <1>6 DEF LookUp, AnswerClient, RefuseClient, MergeAndAnswer, UnlinkPath, ThreadStep, Next
<1>7. ASSUME NEW t \in Thread, ForwardRequest(t) PROVE [Next]_vars
  BY <1>7 DEF ForwardRequest, ThreadStep, Next
<1>8. ASSUME NEW c \in Client, Connect(c) \/ Leave(c) \/ ClientReads(c) PROVE UNCHANGED vars
  BY <1>8 DEF Connect, Leave, ClientReads, ReadRefusal, Exit, ReadFirst, ReadSecond, ReadList,
              ReadDetails
<1>9. ASSUME NEW c \in Client, NEW r \in Request, AskFor(c, r) PROVE UNCHANGED vars
  BY <1>9 DEF AskFor
<1>10. CASE UNCHANGED svars
  BY <1>10 DEF svars
<1> QED
  BY <1>1, <1>3, <1>4, <1>5, <1>6, <1>7, <1>8, <1>9, <1>10 DEF SessionsNext, ThreadTurn

(* The naming server with its clients does only what NamingServer allows:  *)
(* requests that nobody sent, or that are served again for a client that   *)
(* left (nm.c:42-47), are among the choices of Receive.                    *)
THEOREM SessionsImplementNaming == SessionsSpec => Spec
<1>1. SessionsInit => Init
  BY DEF SessionsInit
<1> QED
  BY <1>1, ReceiptsInit, ReceiptsStep, SessionsStep, PTL DEF SessionsSpec, Spec

(* With clients coming, asking and leaving, no route leads to a server     *)
(* that has not registered.                                                *)
THEOREM SessionsRoutesOnline == SessionsSpec => []RoutesOnline
  BY SessionsImplementNaming, NamingRoutesOnline, PTL

(* With clients coming, asking and leaving, as long as there is a slot for *)
(* one of them at a time, a running server is only asked for what it       *)
(* announced.                                                              *)
THEOREM SessionsRoutesKnown == ASSUME Alone PROVE SessionsSpec => []RoutesKnown
  BY SessionsImplementNaming, NamingRoutesKnown, PTL

-----------------------------------------------------------------------------
(* Who ends the naming server.                                             *)

(* A thread at a request, or with an answer to send, holds a client.       *)
Served == \A t \in Thread : pc[t] # "idle" \/ rest[t] # <<>> => holder[t] \in Client

(* A connection that is not what it was has been closed by its client.     *)
Departed == \A c \in Client : link[c] \in {"fin", "broken", "reset"} => stage[c] = "gone"

SInv == SessionsTypeOK /\ Served /\ Departed /\ EndedByLeaver

LEMMA SessionsInitInv == SessionsInit => SInv
<1> SUFFICES ASSUME SessionsInit PROVE SInv
  OBVIOUS
<1>1. SessionsTypeOK
  BY SessionAssumption DEF SessionsInit, SessionsTypeOK, Link, ClientStage
<1>2. Served
  BY DEF SessionsInit, Init, Served
<1>3. Departed /\ EndedByLeaver
  BY DEF SessionsInit, Departed, EndedByLeaver
<1> QED
  BY <1>1, <1>2, <1>3 DEF SInv

(* What one send can do.                                                   *)
LEMMA SendEffect ==
  ASSUME SessionsTypeOK, Departed, NEW c \in Client, NEW packet \in Packet, Send(c, packet)
  PROVE  /\ nmUp' \in BOOLEAN /\ link' \in [Client -> Link]
         /\ stream' \in [Client -> Seq(Packet)]
         /\ \A d \in Client : link'[d] \in {"fin", "broken", "reset"} =>
              link[d] \in {"fin", "broken", "reset"}
         /\ nmUp' = nmUp \/ stage[c] = "gone"
<1> USE DEF SessionsTypeOK
<1>1. CASE link[c] = "open" /\ UNCHANGED <<nmUp, link>>
           /\ stream' = [stream EXCEPT ![c] = Append(@, packet)]
  <2>1. Append(stream[c], packet) \in Seq(Packet)
    OBVIOUS
  <2> QED
    BY <1>1, <2>1
<1>2. CASE link[c] \in {"fin", "reset"} /\ link' = [link EXCEPT ![c] = "broken"]
           /\ UNCHANGED <<nmUp, stream>>
  BY <1>2 DEF Link
<1>3. CASE link[c] \in {"broken", "reset"} /\ nmUp' = FALSE /\ UNCHANGED <<link, stream>>
  BY <1>3 DEF Departed
<1> QED
  BY <1>1, <1>2, <1>3 DEF Send

LEMMA ListedFinite ==
  ASSUME TypeOK, NEW r
  PROVE  Cardinality(Listed(r)) \in Nat
<1>1. IsFiniteSet(online \X Text)
  BY FS_Subset, FS_Product, SessionAssumption DEF TypeOK
<1>2. Listed(r) \subseteq online \X Text
  BY DEF Listed, TypeOK
<1> QED
  BY <1>1, <1>2, FS_Subset, FS_CardinalityType

LEMMA DirectAnswerIsAnswer ==
  ASSUME TypeOK, NEW t, NEW answer \in DirectAnswers(t)
  PROVE  /\ answer \in Seq(Packet) /\ answer # <<>> /\ Head(answer) \in Packet
         /\ Tail(answer) \in Seq(Packet)
<1>1. {"refusal", "connect", "details", "init", "path", "last", "success"} \subseteq Packet
  BY DEF Packet, AckPacket, LongPacket
<1>2. ASSUME answer = <<"refusal">> PROVE answer \in Seq(Packet) /\ answer # <<>>
  BY <1>1, <1>2
<1>3. ASSUME answer = <<"connect", "details">> PROVE answer \in Seq(Packet) /\ answer # <<>>
  BY <1>1, <1>3
<1>4. ASSUME NEW final,
             answer = <<"init">> \o FilePackets(Cardinality(Listed(req[t])), final)
                        \o <<"success">>
      PROVE  answer \in Seq(Packet) /\ answer # <<>>
  <2>1. Cardinality(Listed(req[t])) \in Nat
    BY ListedFinite
  <2>2. ASSUME NEW n \in Nat PROVE FilePackets(n, final) \in Seq(Packet)
    BY <1>1 DEF FilePackets
  <2>3. PICK some \in Seq(Packet) : answer = <<"init">> \o some \o <<"success">>
    BY <1>4, <2>1, <2>2
  <2>4. <<"init">> \in Seq(Packet) /\ <<"success">> \in Seq(Packet)
    BY <1>1
  <2>5. answer \in Seq(Packet) /\ Len(answer) = Len(some) + 2
    BY <2>3, <2>4
  <2> QED
    BY <2>5
<1>5. answer \in Seq(Packet) /\ answer # <<>>
  <2>1. \/ answer = <<"refusal">> \/ answer = <<"connect", "details">>
        \/ \E final : answer = <<"init">> \o FilePackets(Cardinality(Listed(req[t])), final)
                                 \o <<"success">>
    BY DEF DirectAnswers
  <2> QED
    BY <1>2, <1>3, <1>4, <2>1
<1> QED
  BY <1>5

(* A thread's step that sends: what it needs for the invariant.            *)
LEMMA SendKeeps ==
  ASSUME SInv, NEW t \in Thread, NEW packet \in Packet, Send(holder[t], packet),
         holder[t] \in Client, UNCHANGED <<backlog, holder, buffer, stacks, runs, clientSide>>,
         rest' \in [Thread -> Seq(Packet)],
         \A u \in Thread : pc'[u] # "idle" \/ rest'[u] # <<>> =>
           u = t \/ pc[u] # "idle" \/ rest[u] # <<>>
  PROVE  (SessionsTypeOK /\ Served /\ Departed /\ EndedByLeaver)'
<1> USE DEF SInv, clientSide
<1>1. /\ nmUp' \in BOOLEAN /\ link' \in [Client -> Link]
      /\ stream' \in [Client -> Seq(Packet)]
      /\ \A d \in Client : link'[d] \in {"fin", "broken", "reset"} =>
           link[d] \in {"fin", "broken", "reset"}
      /\ nmUp' = nmUp \/ stage[holder[t]] = "gone"
  BY SendEffect
<1>2. SessionsTypeOK'
  BY <1>1 DEF SessionsTypeOK
<1>3. Served'
  BY DEF Served
<1>4. Departed'
  BY <1>1 DEF Departed
<1>5. EndedByLeaver'
  <2>1. CASE nmUp' = nmUp
    BY <2>1 DEF EndedByLeaver, Free, Present
  <2>2. CASE stage[holder[t]] = "gone"
    BY <2>2, SessionAssumption DEF EndedByLeaver, Free, Present
  <2> QED
    BY <1>1, <2>1, <2>2
<1> QED
  BY <1>2, <1>3, <1>4, <1>5

(* What a lister leaves unread are packets.                                *)
LEMMA UnreadPackets ==
  ASSUME NEW packets \in Seq(Packet), packets # <<>>, NEW after \in AfterRecv(packets)
  PROVE  after.unread \in Seq(Packet)
<1>1. Tail(packets) \in Seq(Packet)
  OBVIOUS
<1>2. \A p \in {"shifted", "left"} : \A q \in Seq(Packet) : <<p>> \o q \in Seq(Packet)
  BY DEF Packet, LongPacket
<1>3. <<"left">> \in Seq(Packet)
  BY DEF Packet, LongPacket
<1>4. CASE after.unread = Tail(packets) \/ after.unread = <<"left">>
  BY <1>1, <1>3, <1>4
<1>5. ASSUME Tail(packets) # <<>>,
             after.unread \in {Tail(Tail(packets)), <<"shifted">> \o Tail(Tail(packets))}
      PROVE  after.unread \in Seq(Packet)
  <2>1. Tail(Tail(packets)) \in Seq(Packet)
    BY <1>1, <1>5
  <2> QED
    BY <1>2, <1>5, <2>1
<1>6. \/ after.unread = Tail(packets) \/ after.unread = <<"left">>
      \/ /\ Tail(packets) # <<>>
         /\ after.unread \in {Tail(Tail(packets)), <<"shifted">> \o Tail(Tail(packets))}
  BY DEF AfterRecv
<1> QED
  BY <1>4, <1>5, <1>6

(* The steps of a client program.                                          *)
LEMMA ClientKeeps ==
  ASSUME SInv, NEW c \in Client,
         Connect(c) \/ Leave(c) \/ ClientReads(c) \/ \E r \in Request : AskFor(c, r)
  PROVE  (SessionsTypeOK /\ Served /\ Departed /\ EndedByLeaver)'
<1> USE DEF SInv, SessionsTypeOK
<1>1. nmUp /\ nmUp' = nmUp /\ UNCHANGED <<pc, rest, holder>>
  BY DEF Connect, Leave, ClientReads, ReadRefusal, Exit, ReadFirst, ReadSecond, ReadList,
         ReadDetails, AskFor, wire, threadSide, vars
<1>2. Served' /\ EndedByLeaver'
  BY <1>1 DEF Served, EndedByLeaver
<1>3. CASE Connect(c)
  BY <1>2, <1>3 DEF Connect, Departed, Link, ClientStage
<1>4. ASSUME NEW r \in Request, AskFor(c, r) PROVE SessionsTypeOK' /\ Departed'
  <2>1. Append(sent[c], r) \in Seq(Request) /\ asks + 1 \in 0..MaxAsks
    BY <1>4, SessionAssumption DEF AskFor
  <2> QED
    BY <1>4, <2>1 DEF AskFor, Departed, ClientStage, threadSide, wire
<1>5. ASSUME NEW unread, Exit(c, unread) PROVE SessionsTypeOK' /\ Departed'
  <2>1. link' \in [Client -> Link] /\ \A d \in Client \ {c} : link'[d] = link[d]
    BY <1>5 DEF Exit, Link
  <2>2. stage' \in [Client -> ClientStage] /\ stage' = [stage EXCEPT ![c] = "gone"]
    BY <1>5 DEF Exit, ClientStage
  <2>3. Nothing \in Request /\ <<>> \in Seq(Packet)
    BY SessionAssumption
  <2> QED
    BY <1>5, <2>1, <2>2, <2>3 DEF Exit, Departed, threadSide
<1>6. CASE ReadFirst(c) \/ ReadSecond(c) \/ ReadList(c) \/ ReadDetails(c)
  <2>1. stream[c] # <<>> /\ stage[c] # "gone"
    BY <1>6 DEF ReadFirst, ReadSecond, ReadList, ReadDetails
  <2>2. Head(stream[c]) \in Packet /\ Tail(stream[c]) \in Seq(Packet)
    BY <2>1
  <2>3. /\ <<>> \in Seq(Packet) /\ <<"left">> \in Seq(Packet)
        /\ \A p \in {"shifted", "left"} : \A q \in Seq(Packet) : <<p>> \o q \in Seq(Packet)
    BY DEF Packet, LongPacket
  <2>4. stream' \in [Client -> Seq(Packet)]
    <3>1. \A after \in AfterRecv(stream[c]) : after.unread \in Seq(Packet)
      BY <2>1, <2>2, <2>3, UnreadPackets
    <3>2. PICK left \in Seq(Packet) : stream' = [stream EXCEPT ![c] = left]
      <4>1. CASE ReadFirst(c)
        BY <2>2, <2>3, <4>1 DEF ReadFirst
      <4>2. CASE ReadSecond(c)
        BY <2>2, <2>3, <4>2 DEF ReadSecond
      <4>3. CASE ReadList(c)
        BY <3>1, <4>3 DEF ReadList
      <4>4. CASE ReadDetails(c)
        BY <2>3, <4>4 DEF ReadDetails
      <4> QED
        BY <1>6, <4>1, <4>2, <4>3, <4>4
    <3> QED
      BY <3>2
  <2>5. PICK st \in ClientStage : stage' = [stage EXCEPT ![c] = st]
    BY <1>6 DEF ReadFirst, ReadSecond, ReadList, ReadDetails, ClientStage
  <2>6. told' \in [Client -> {"none", "success", "failure", "garbage"}] /\ misread' \subseteq Client
    BY <1>6 DEF ReadFirst, ReadSecond, ReadList, ReadDetails, Status
  <2>7. UNCHANGED <<backlog, holder, buffer, stacks, rest, runs, nmUp, link, asked, sent, asks>>
    BY <1>6 DEF ReadFirst, ReadSecond, ReadList, ReadDetails, threadSide
  <2>8. Departed'
    BY <2>1, <2>5, <2>7 DEF Departed
  <2> QED
    BY <1>2, <2>4, <2>5, <2>6, <2>7, <2>8
<1> QED
  BY <1>2, <1>3, <1>4, <1>5, <1>6 DEF Leave, ClientReads, ReadRefusal

LEMMA SInvReceipts == SInv => Receipts
  BY DEF SInv, SessionsTypeOK, Receipts

LEMMA SInvStep == SInv /\ Receipts' /\ IInv /\ IInv' /\ [SessionsNext]_svars => SInv'
<1> SUFFICES ASSUME SInv, Receipts', IInv, IInv', [SessionsNext]_svars PROVE SInv'
  OBVIOUS
<1>2. TypeOK /\ TypeOK'
  BY DEF IInv
<1> SUFFICES (SessionsTypeOK /\ Served /\ Departed /\ EndedByLeaver)'
  BY DEF SInv
<1>3. ASSUME NEW c \in Client,
             Connect(c) \/ Leave(c) \/ ClientReads(c) \/ \E r \in Request : AskFor(c, r)
      PROVE  (SessionsTypeOK /\ Served /\ Departed /\ EndedByLeaver)'
  BY <1>3, ClientKeeps
<1>4. CASE UNCHANGED svars
  BY <1>4 DEF svars, vars, threadSide, wire, clientSide, SInv, SessionsTypeOK, Served, Departed,
              EndedByLeaver, Free, Present
<1>5. CASE ServersStep /\ Beside
  <2>1. runs' \in [Thread -> 0..2]
    <3> SUFFICES ASSUME NEW t \in Thread, runs[t] < 2 PROVE runs[t] + 1 \in 0..2
      BY <1>5 DEF Beside, SInv, SessionsTypeOK
    <3>1. runs[t] \in 0..2
      BY DEF SInv, SessionsTypeOK
    <3> QED
      BY <3>1
  <2>2. pc' = pc
    BY <1>5 DEF ServersStep, ListenerStep, ServerStep, SSStart, SSListen, SSStop, SSExecute,
                SSSendAck, SSSendDetails, RegisterServer, RegisterUnheard, RefuseServer,
                AckServer, AckFails, threadVars
  <2>3. nmUp /\ UNCHANGED <<threadSide, wire, clientSide>>
    BY <1>5 DEF Beside
  <2> QED
    BY <2>1, <2>2, <2>3
    DEF threadSide, wire, clientSide, SInv, SessionsTypeOK, Served, Departed, EndedByLeaver
<1>6. ASSUME NEW t \in Thread, Accept(t) PROVE (SessionsTypeOK /\ Served /\ Departed /\ EndedByLeaver)'
  <2>1. nmUp /\ UNCHANGED <<pc, stacks, rest, runs, nmUp, link, stream, clientSide>>
        /\ backlog # <<>> /\ holder' = [holder EXCEPT ![t] = Head(backlog)]
    BY <1>6 DEF Accept, wire, vars
  <2>2. Head(backlog) \in Client
    BY <2>1 DEF SInv, SessionsTypeOK
  <2> QED
    BY <2>1, <2>2
    DEF Receipts, clientSide, SInv, SessionsTypeOK, Served, Departed, EndedByLeaver
<1>7. ASSUME NEW t \in Thread, TakeRequest(t) \/ TakeAgain(t)
      PROVE  (SessionsTypeOK /\ Served /\ Departed /\ EndedByLeaver)'
  <2>1. holder[t] \in Client /\ nmUp
    BY <1>7 DEF TakeRequest, TakeAgain, Ready, SInv, SessionsTypeOK
  <2>2. /\ UNCHANGED <<backlog, holder, stacks, rest, nmUp, link, stream, stage, asked, told, misread,
                     asks>>
        /\ runs' \in [Thread -> 0..2]
    <3>1. CASE TakeRequest(t)
      BY <3>1 DEF TakeRequest, wire, SInv, SessionsTypeOK
    <3>2. CASE TakeAgain(t)
      BY <3>2 DEF TakeAgain, threadSide, wire, clientSide, SInv, SessionsTypeOK
    <3> QED
      BY <1>7, <3>1, <3>2
  <2>3. \A u \in Thread \ {t} : pc'[u] = pc[u]
    BY <1>2, <1>7 DEF TakeRequest, TakeAgain, Receive, TypeOK
  <2>4. Served'
    BY <2>1, <2>2, <2>3 DEF SInv, Served
  <2> QED
    BY <2>1, <2>2, <2>4 DEF Receipts, SInv, SessionsTypeOK, Departed, EndedByLeaver
<1>8. ASSUME NEW t \in Thread, EndThread(t)
      PROVE  (SessionsTypeOK /\ Served /\ Departed /\ EndedByLeaver)'
  <2>1. nmUp /\ holder[t] \in Client /\ link[holder[t]] = "reset" /\ pc[t] = "idle" /\ rest[t] = <<>>
    BY <1>8 DEF EndThread, Ready, SInv, SessionsTypeOK
  <2>2. UNCHANGED <<pc, backlog, rest, nmUp, stream, clientSide>>
        /\ holder' = [holder EXCEPT ![t] = NoClient]
    BY <1>8 DEF EndThread, vars
  <2>3. link' \in [Client -> Link] /\ runs' \in [Thread -> 0..2]
        /\ \A d \in Client : link'[d] = link[d] \/ link'[d] = "closed"
    BY <1>8, <2>1 DEF EndThread, SInv, SessionsTypeOK, Link
  <2>4. Served'
    BY <2>1, <2>2 DEF Served, SInv, SessionsTypeOK
  <2>5. Departed' /\ EndedByLeaver'
    BY <2>1, <2>2, <2>3 DEF Departed, EndedByLeaver, SInv, clientSide
  <2> QED
    BY <2>2, <2>3, <2>4, <2>5 DEF Receipts, SInv, SessionsTypeOK, clientSide
<1>9. ASSUME NEW t \in Thread, AnswerClient(t)
      PROVE  (SessionsTypeOK /\ Served /\ Departed /\ EndedByLeaver)'
  <2>1. pc[t] = "dispatch" /\ pc' = [pc EXCEPT ![t] = "idle"]
    BY <1>9 DEF AnswerClient, AnswerDirectly
  <2>2. holder[t] \in Client
    BY <2>1 DEF SInv, Served
  <2>3. PICK answer \in DirectAnswers(t) :
          Send(holder[t], Head(answer)) /\ rest' = [rest EXCEPT ![t] = Tail(answer)]
    BY <1>9 DEF AnswerClient
  <2>4. rest \in [Thread -> Seq(Packet)]
    BY DEF SInv, SessionsTypeOK
  <2>5. Head(answer) \in Packet /\ Tail(answer) \in Seq(Packet)
    BY <1>2, DirectAnswerIsAnswer
  <2>6. rest' \in [Thread -> Seq(Packet)]
        /\ \A u \in Thread : pc'[u] # "idle" \/ rest'[u] # <<>> =>
             u = t \/ pc[u] # "idle" \/ rest[u] # <<>>
    BY <1>2, <2>1, <2>3, <2>4, <2>5 DEF TypeOK
  <2> QED
    BY <1>9, <2>2, <2>3, <2>5, <2>6, SendKeeps DEF AnswerClient
<1>10. ASSUME NEW t \in Thread, SendRest(t)
      PROVE  (SessionsTypeOK /\ Served /\ Departed /\ EndedByLeaver)'
  <2>1. rest[t] # <<>> /\ rest' = [rest EXCEPT ![t] = Tail(@)] /\ pc' = pc
        /\ rest \in [Thread -> Seq(Packet)]
    BY <1>10 DEF SendRest, vars, SInv, SessionsTypeOK
  <2>2. holder[t] \in Client
    BY <2>1 DEF SInv, Served
  <2>3. Head(rest[t]) \in Packet /\ Tail(rest[t]) \in Seq(Packet)
    BY <2>1
  <2>4. rest' \in [Thread -> Seq(Packet)] /\ \A u \in Thread \ {t} : rest'[u] = rest[u]
    BY <2>1, <2>3
  <2> QED
    BY <1>10, <2>1, <2>2, <2>3, <2>4, SendKeeps DEF SendRest
<1>11. ASSUME NEW t \in Thread, ForwardRequest(t)
      PROVE  (SessionsTypeOK /\ Served /\ Departed /\ EndedByLeaver)'
  <2>1. pc[t] = "dispatch" /\ nmUp
    BY <1>11 DEF ForwardRequest
  <2>2. holder[t] \in Client
    BY <2>1 DEF SInv, Served
  <2>3. UNCHANGED <<backlog, holder, buffer, stacks, runs, clientSide>>
    BY <1>11 DEF ForwardRequest
  <2>4. CASE Forward(t) /\ Send(holder[t], "init")
             /\ rest' = [rest EXCEPT ![t] = IF pc'[t] = "waiting" THEN <<>> ELSE <<"refusal">>]
    <3>1. "init" \in Packet /\ "refusal" \in Packet
      BY DEF Packet, AckPacket
    <3>2. rest' \in [Thread -> Seq(Packet)] /\ \A u \in Thread \ {t} : rest'[u] = rest[u]
      <4>1. <<>> \in Seq(Packet) /\ <<"refusal">> \in Seq(Packet)
        BY <3>1
      <4> QED
        BY <2>4, <4>1 DEF SInv, SessionsTypeOK
    <3>3. \A u \in Thread \ {t} : pc'[u] = pc[u]
      BY <1>2, <2>4 DEF Forward, TypeOK
    <3> QED
      BY <2>2, <2>3, <2>4, <3>1, <3>2, <3>3, SendKeeps
  <2>5. CASE link[holder[t]] \in {"broken", "reset"} /\ nmUp' = FALSE
             /\ UNCHANGED <<vars, link, stream, rest>>
    <3>1. stage[holder[t]] = "gone" /\ holder[t] # NoClient
      BY <2>2, <2>5, SessionAssumption DEF SInv, Departed
    <3>2. EndedByLeaver'
      BY <2>3, <3>1 DEF EndedByLeaver, Free, Present, clientSide
    <3> QED
      BY <2>3, <2>5, <3>2 DEF SInv, SessionsTypeOK, Served, Departed, clientSide, vars
  <2> QED
    BY <1>11, <2>4, <2>5 DEF ForwardRequest
<1>12. ASSUME NEW t \in Thread, RefuseClient(t) \/ MergeAndAnswer(t)
      PROVE  (SessionsTypeOK /\ Served /\ Departed /\ EndedByLeaver)'
  <2>1. pc[t] = "waiting" /\ \A u \in Thread \ {t} : pc'[u] = pc[u]
    BY <1>2, <1>12 DEF RefuseClient, MergeAndAnswer, ForwardFails, Merge, TypeOK
  <2>2. holder[t] \in Client
    BY <2>1 DEF SInv, Served
  <2>3. reply'[t] \in {"success", "failure", "garbage"} \/ RefuseClient(t)
    BY <1>2, <1>12 DEF MergeAndAnswer, Merge, Acknowledged, TypeOK, Conn, Ack
  <2>4. PICK packet \in Packet : Send(holder[t], packet)
    BY <1>12, <2>3 DEF RefuseClient, MergeAndAnswer, Packet, AckPacket
  <2>5. UNCHANGED <<backlog, holder, buffer, stacks, rest, runs, clientSide>>
    BY <1>12 DEF RefuseClient, MergeAndAnswer, threadSide
  <2>6. rest' \in [Thread -> Seq(Packet)]
    BY <2>5 DEF SInv, SessionsTypeOK
  <2> QED
    BY <2>1, <2>2, <2>4, <2>5, <2>6, SendKeeps
<1>13. ASSUME NEW t \in Thread, LookUp(t) \/ UnlinkPath(t)
      PROVE  (SessionsTypeOK /\ Served /\ Departed /\ EndedByLeaver)'
  <2>1. nmUp /\ UNCHANGED <<threadSide, runs, wire, clientSide>>
    BY <1>13 DEF LookUp, UnlinkPath
  <2>2. \A u \in Thread : pc'[u] # "idle" => pc[u] # "idle"
    BY <1>2, <1>13 DEF LookUp, Fill, ReadBack, UnlinkPath, Unlink, TypeOK
  <2> QED
    BY <2>1, <2>2
    DEF threadSide, wire, clientSide, SInv, SessionsTypeOK, Served, Departed, EndedByLeaver
<1> QED
  BY <1>3, <1>4, <1>5, <1>6, <1>7, <1>8, <1>9, <1>10, <1>11, <1>12, <1>13
  DEF SessionsNext, ThreadTurn

(* Types, and who ends the process, for any clients and any requests.      *)
THEOREM SessionsInvariant == SessionsSpec => []SInv
<1>1. SessionsSpec => []IInv
  BY SessionsImplementNaming, NamingInvariant, PTL
<1> QED
  BY <1>1, SessionsInitInv, SInvStep, ReceiptsInit, ReceiptsStep, PTL DEF SessionsSpec

(* The naming server is never ended by what a storage server does, nor by  *)
(* what a client that stays asks for: only by one that left.               *)
THEOREM SessionsEndedByLeaver == SessionsSpec => []EndedByLeaver
<1>1. SInv => EndedByLeaver
  BY DEF SInv
<1> QED
  BY <1>1, SessionsInvariant, PTL

(* Requests, packets, connections and stages keep their types for any      *)
(* clients and threads (nm.c:35-82, client.c:99-328).                      *)
THEOREM SessionsType == SessionsSpec => []SessionsTypeOK
<1>1. SInv => SessionsTypeOK
  BY DEF SInv
<1> QED
  BY <1>1, SessionsInvariant, PTL
=============================================================================
