------------------------------ MODULE Sessions ------------------------------
(***************************************************************************)
(* The naming server together with its clients: src/Clients/client.c, the  *)
(* accept loop and the life of a thread in nm.c, and the packets between   *)
(* them.  Every step of NamingServer is taken by a thread for the client   *)
(* that holds its slot, and what the thread sends meets a connection that  *)
(* the client may have closed.                                             *)
(*                                                                         *)
(* recv returns 0, and not an error, once a client has closed; the thread  *)
(* then serves the request in its buffer again.  What the kernel does with *)
(* the answer depends on how the client closed.  The first send to a       *)
(* connection the peer has finished is accepted and answered by a reset,   *)
(* the next one raises SIGPIPE, which ends the naming server.  A client    *)
(* that closes with data unread resets the connection at once: the next    *)
(* recv or send fails, and only this recv ends the thread.                 *)
(***************************************************************************)
EXTENDS NamingServer

CONSTANTS
  Client,     \* the client programs, each run once
  NoClient,   \* -1 in client_fds
  LastID,     \* MAX_SERVERS - 1
  MaxAsks     \* bound: the requests that all the clients send

(* A buffer of zeros: a CREATE_DIR of the empty path.                      *)
Nothing == [type |-> "CREATE_DIR", arg |-> NoText]

ASSUME SessionAssumption ==
  /\ NoClient \notin Client
  /\ Nothing \in Request
  /\ MaxAsks \in Nat
  /\ IsFiniteSet(Text) /\ IsFiniteSet(Server)

VARIABLES
  nmUp,      \* the naming server's process
  backlog,   \* connections that wait to be accepted
  holder,    \* client_fds: the client of each thread
  buffer,    \* clientRequest, as the thread received it last
  stacks,    \* the requests that ended threads left on their stacks
  rest,      \* what a thread has yet to send of the answer it began
  runs,      \* how often the request in the buffer was executed (2: or more)
  link,      \* each client's connection, seen from the naming server
  stage,     \* where the client program is
  asked,     \* the request it sent last
  sent,      \* what the client sent and its thread has not received
  stream,    \* what was sent to the client and not received by it
  told,      \* the status of its request, as the client received it
  misread,   \* the clients that took the beginning of a path for a status
  asks       \* the requests sent so far

threadSide == <<backlog, holder, buffer, stacks, rest>>
wire == <<nmUp, link, stream>>
clientSide == <<stage, asked, sent, told, misread, asks>>
svars == <<vars, threadSide, runs, wire, clientSide>>

(* "broken": the client is gone and its kernel has reset the connection    *)
(* after a send; "reset": it was reset and the thread has not seen it yet. *)
Link == {"none", "open", "fin", "broken", "reset", "closed"}

(* "first", "second": waiting for an acknowledgment; "list": in the loop   *)
(* that receives paths; "astray": past that loop with bytes of paths       *)
(* unread, where the model follows it no further.                          *)
ClientStage == {"away", "prompt", "first", "second", "list", "astray",
                "details", "direct", "gone"}

(* An AckPacket has 408 bytes.  "refusal" is the FAILURE_ACK of the error  *)
(* path, "failure" one that came from a storage server, "garbage" one that *)
(* came from the naming server's stack.                                    *)
AckPacket == {"init", "connect", "success", "failure", "garbage", "refusal"}

(* The others are longer.  "path": a FilePacket, of 1026 bytes; "last":    *)
(* one with lastChunk set; "shifted": the 618 bytes of a "path" that are   *)
(* left once the client took its beginning for the status; "left": what is *)
(* left of ServerDetails or of packets that are out of frame.              *)
LongPacket == {"path", "last", "shifted", "details", "left"}
Packet == AckPacket \union LongPacket

SessionsTypeOK ==
  /\ nmUp \in BOOLEAN
  /\ backlog \in Seq(Client)
  /\ holder \in [Thread -> Client \union {NoClient}]
  /\ buffer \in [Thread -> Request]
  /\ stacks \subseteq Request
  /\ rest \in [Thread -> Seq(Packet)]
  /\ runs \in [Thread -> 0..2]
  /\ link \in [Client -> Link]
  /\ stage \in [Client -> ClientStage]
  /\ asked \in [Client -> Request]
  /\ sent \in [Client -> Seq(Request)]
  /\ stream \in [Client -> Seq(Packet)]
  /\ told \in [Client -> {"none", "success", "failure", "garbage"}]
  /\ misread \subseteq Client
  /\ asks \in 0..MaxAsks

SessionsInit ==
  /\ Init
  /\ nmUp = TRUE
  /\ backlog = <<>>
  /\ holder = [t \in Thread |-> NoClient]
  /\ buffer = [t \in Thread |-> Nothing]
  /\ stacks = {}
  /\ rest = [t \in Thread |-> <<>>]
  /\ runs = [t \in Thread |-> 0]
  /\ link = [c \in Client |-> "none"]
  /\ stage = [c \in Client |-> "away"]
  /\ asked = [c \in Client |-> Nothing]
  /\ sent = [c \in Client |-> <<>>]
  /\ stream = [c \in Client |-> <<>>]
  /\ told = [c \in Client |-> "none"]
  /\ misread = {}
  /\ asks = 0

-----------------------------------------------------------------------------
(* The client program.                                                     *)

(* connect; the naming server listens once it has been opened.  (The       *)
(* programs are alike: it is the next one that is started.)                *)
Away(c) == stage[c] = "away"

Connect(c) ==
  /\ nmUp /\ open
  /\ Away(c) /\ c = CHOOSE d \in Client : Away(d)
  /\ stage' = [stage EXCEPT ![c] = "prompt"]
  /\ link' = [link EXCEPT ![c] = "open"]
  /\ backlog' = Append(backlog, c)
  /\ UNCHANGED <<vars, holder, buffer, stacks, rest, runs, nmUp, stream, asked, sent,
                 told, misread, asks>>

AskFor(c, r) ==
  /\ nmUp /\ stage[c] = "prompt" /\ asks < MaxAsks
  /\ asked' = [asked EXCEPT ![c] = r]
  /\ sent' = [sent EXCEPT ![c] = Append(@, r)]
  /\ told' = [told EXCEPT ![c] = "none"]
  /\ stage' = [stage EXCEPT ![c] = "first"]
  /\ asks' = asks + 1
  /\ UNCHANGED <<vars, threadSide, runs, wire, misread>>

(* The program ends and its socket is closed: with data unread the         *)
(* connection is reset.                                                    *)
Exit(c, unread) ==
  /\ stage' = [stage EXCEPT ![c] = "gone"]
  /\ link' = [link EXCEPT ![c] = IF unread = <<>> THEN "fin" ELSE "reset"]
  /\ stream' = [stream EXCEPT ![c] = <<>>]
  /\ asked' = [asked EXCEPT ![c] = Nothing]
  /\ told' = [told EXCEPT ![c] = "none"]
  /\ misread' = misread \ {c}
  /\ UNCHANGED <<vars, threadSide, runs, nmUp, sent, asks>>

(* It quits at its prompt, is done with the storage server, or is killed   *)
(* wherever it is.                                                         *)
Leave(c) ==
  /\ nmUp /\ stage[c] \notin {"away", "gone"}
  /\ Exit(c, stream[c])

Refusals == {"refusal", "failure"}

(* The first acknowledgment is a FAILURE_ACK: the program exits.           *)
ReadRefusal(c) ==
  /\ nmUp /\ stage[c] = "first" /\ stream[c] # <<>>
  /\ Head(stream[c]) \in Refusals
  /\ Exit(c, Tail(stream[c]))

(* (What it makes of bytes out of frame is left out: to take them for a    *)
(* refusal and exit is to leave.)                                          *)
ReadFirst(c) ==
  /\ nmUp /\ stage[c] = "first" /\ stream[c] # <<>>
  /\ Head(stream[c]) \notin Refusals
  /\ stage' = [stage EXCEPT ![c] = CASE Head(stream[c]) = "init" -> "second"
                                     [] Head(stream[c]) = "connect" -> "details"
                                     [] Head(stream[c]) \in LongPacket -> "astray"
                                     [] OTHER -> "prompt"]
  /\ stream' = [stream EXCEPT ![c] = IF Head(@) \in LongPacket THEN <<"left">> \o Tail(@)
                                     ELSE Tail(@)]
  /\ UNCHANGED <<vars, threadSide, runs, nmUp, link, asked, sent, told, misread, asks>>

(* Slips: the packet itself is kept, or all that is no failure of the      *)
(* storage server counts as success.                                       *)
RawStatus(packet) == {packet}
SuccessUnlessFailed(packet) == {IF packet = "failure" THEN "failure" ELSE "success"}

(* What a packet read as an acknowledgment says.  In the place of the      *)
(* ack, a FilePacket has four bytes of its path or, past the end of a      *)
(* short one, bytes nobody wrote: these may read as anything.              *)
Status(packet) == CASE packet \in Refusals -> {"failure"}
                    [] packet = "success" -> {"success"}
                    [] packet \in LongPacket -> {"success", "failure", "garbage"}
                    [] OTHER -> {"garbage"}

(* The status of the request.  A lister receives it before the paths, but  *)
(* the naming server sends it after them: if there are paths, the first    *)
(* bytes of the first are the status, and what follows is out of frame.    *)
ReadSecond(c) ==
  LET packet == Head(stream[c])
      lister == asked[c].type = "LIST_ALL"
  IN /\ nmUp /\ stage[c] = "second" /\ stream[c] # <<>>
     /\ \E status \in Status(packet) : told' = [told EXCEPT ![c] = status]
     /\ misread' = IF packet \in LongPacket THEN misread \union {c} ELSE misread
     /\ stage' = [stage EXCEPT ![c] = CASE lister -> "list"
                                        [] ~lister /\ packet \in LongPacket -> "astray"
                                        [] OTHER -> "prompt"]
     /\ stream' = [stream EXCEPT ![c] =
                     CASE packet = "path" -> <<"shifted">> \o Tail(@)
                       [] packet \in LongPacket \ {"path"} -> <<"left">> \o Tail(@)
                       [] OTHER -> Tail(@)]
     /\ UNCHANGED <<vars, threadSide, runs, nmUp, link, asked, sent, asks>>

(* What one recv of up to 1026 bytes leaves of a stream, and the lastChunk *)
(* that the client holds after it.  If the head of the stream came alone,  *)
(* only a whole packet writes lastChunk.  After 618 bytes the recv takes   *)
(* what has come of the next packet: a whole acknowledgment, of which the  *)
(* last byte falls on lastChunk, or the first 408 bytes of a FilePacket,   *)
(* whose byte there nobody wrote.                                          *)
AfterRecv(packets) ==
  LET head == Head(packets)
      unread == CASE head = "shifted" /\ packets[2] \in AckPacket -> Tail(Tail(packets))
                  [] head = "shifted" /\ packets[2] \in {"path", "last"} ->
                       <<"shifted">> \o Tail(Tail(packets))
                  [] OTHER -> <<"left">>
      alone == [unread : {Tail(packets)}, last : {head = "last"}]
      more == [unread : {unread}, last : BOOLEAN]
  IN CASE head \in {"path", "last"} -> alone
       [] head \in {"details", "left"} -> more
       [] OTHER -> IF Tail(packets) = <<>> THEN alone ELSE alone \union more

(* One recv of the loop of a lister, which lastChunk ends.                 *)
ReadList(c) ==
  /\ nmUp /\ stage[c] = "list" /\ stream[c] # <<>>
  /\ \E after \in AfterRecv(stream[c]) :
        /\ stream' = [stream EXCEPT ![c] = after.unread]
        /\ stage' = [stage EXCEPT ![c] =
                       CASE ~after.last -> "list"
                         [] after.last /\ Range(after.unread) \intersect LongPacket # {} -> "astray"
                         [] OTHER -> "prompt"]
  /\ UNCHANGED <<vars, threadSide, runs, nmUp, link, asked, sent, told, misread, asks>>

(* The details of a server fill many segments, and one recv takes what has *)
(* come.  Then the client turns to the storage server.                     *)
ReadDetails(c) ==
  /\ nmUp /\ stage[c] = "details" /\ stream[c] # <<>>
  /\ \E unread \in {<<>>, <<"left">>} : stream' = [stream EXCEPT ![c] = unread]
  /\ stage' = [stage EXCEPT ![c] = "direct"]
  /\ UNCHANGED <<vars, threadSide, runs, nmUp, link, asked, sent, told, misread, asks>>

-----------------------------------------------------------------------------
(* A thread of the naming server and its client.                           *)

(* A connection is accepted into the first free slot (by any order of      *)
(* them); while there is none the loop spins.  clientRequest is on the new *)
(* thread's stack, uninitialised: zeros, or what an ended thread had there. *)
Free(t) == holder[t] = NoClient

Accept(t) ==
  /\ nmUp /\ open /\ backlog # <<>>
  /\ Free(t) /\ t = CHOOSE u \in Thread : Free(u)
  /\ holder' = [holder EXCEPT ![t] = Head(backlog)]
  /\ backlog' = Tail(backlog)
  /\ \E r \in stacks \union {Nothing} : buffer' = [buffer EXCEPT ![t] = r]
  /\ UNCHANGED <<vars, stacks, rest, runs, wire, clientSide>>

Ready(t) == nmUp /\ holder[t] # NoClient /\ rest[t] = <<>>

TakeRequest(t) ==
  LET c == holder[t]
  IN /\ Ready(t) /\ sent[c] # <<>>
     /\ Receive(t, Head(sent[c]))
     /\ buffer' = [buffer EXCEPT ![t] = Head(sent[c])]
     /\ runs' = [runs EXCEPT ![t] = 0]
     /\ sent' = [sent EXCEPT ![c] = Tail(@)]
     /\ UNCHANGED <<backlog, holder, stacks, rest, wire, stage, asked, told, misread, asks>>

(* A slip: a recv that does not wait.                                      *)
TakeAgainAtOnce(t) ==
  /\ Ready(t) /\ sent[holder[t]] = <<>>
  /\ Receive(t, buffer[t])
  /\ UNCHANGED <<threadSide, runs, wire, clientSide>>

(* recv returns 0: the request in the buffer is served again.              *)
TakeAgain(t) ==
  LET c == holder[t]
  IN /\ Ready(t) /\ sent[c] = <<>> /\ link[c] \in {"fin", "broken"}
     /\ Receive(t, buffer[t])
     /\ UNCHANGED <<threadSide, runs, wire, clientSide>>

(* recv fails: the thread ends and frees its slot.                         *)
EndThread(t) ==
  LET c == holder[t]
  IN /\ Ready(t) /\ pc[t] = "idle" /\ sent[c] = <<>> /\ link[c] = "reset"
     /\ holder' = [holder EXCEPT ![t] = NoClient]
     /\ stacks' = stacks \union ({buffer[t]} \ {Nothing})
     /\ buffer' = [buffer EXCEPT ![t] = Nothing]
     /\ runs' = [runs EXCEPT ![t] = 0]
     /\ link' = [link EXCEPT ![c] = "closed"]
     /\ UNCHANGED <<vars, backlog, rest, nmUp, stream, clientSide>>

(* The rest of findStorageServer.                                          *)
LookUp(t) ==
  /\ nmUp
  /\ Fill(t) \/ ReadBack(t)
  /\ UNCHANGED <<threadSide, runs, wire, clientSide>>

(* One send.  If it fails before the error path is reached, the refusal    *)
(* that the error path sends next meets a connection known to be gone.     *)
Send(c, packet) ==
  \/ /\ link[c] = "open"
     /\ stream' = [stream EXCEPT ![c] = Append(@, packet)]
     /\ UNCHANGED <<nmUp, link>>
  \/ /\ link[c] = "fin" \/ (link[c] = "reset" /\ packet = "refusal")
     /\ link' = [link EXCEPT ![c] = "broken"]
     /\ UNCHANGED <<nmUp, stream>>
  \/ /\ link[c] = "broken" \/ (link[c] = "reset" /\ packet # "refusal")
     /\ nmUp' = FALSE
     /\ UNCHANGED <<link, stream>>

(* The FilePackets for a lister: one for each path of a registered server  *)
(* that the argument is a prefix of.  (The empty one is.)                  *)
Lists(r, p) == r.arg = NoText \/ IsPrefix(r.arg, p)

Listed(r) == UNION {{s} \X {p \in paths[s] : Lists(r, p)} : s \in online}

(* lastChunk is set in the one for the final path, in the order of the     *)
(* list, of the server MAX_SERVERS - 1.                                    *)
FinalListed(r) ==
  IF LastID \in online /\ paths[LastID] # {}
  THEN {Lists(r, p) : p \in paths[LastID]} ELSE {FALSE}

FilePackets(n, final) == [i \in 1..n |-> IF final /\ i = n THEN "last" ELSE "path"]

(* What AnswerDirectly sends; "offline" cannot happen (RoutesOnline).      *)
DirectAnswers(t) ==
  CASE ~Routed(t) -> {<<"refusal">>}
    [] Routed(t) /\ req[t].type \in Access -> {<<"connect", "details">>}
    [] OTHER -> {<<"init">> \o FilePackets(Cardinality(Listed(req[t])), final) \o <<"success">> :
                   final \in FinalListed(req[t])}

AnswerClient(t) ==
  /\ nmUp /\ AnswerDirectly(t)
  /\ \E answer \in DirectAnswers(t) :
        /\ Send(holder[t], Head(answer))
        /\ rest' = [rest EXCEPT ![t] = Tail(answer)]
  /\ UNCHANGED <<backlog, holder, buffer, stacks, runs, clientSide>>

SendRest(t) ==
  /\ nmUp /\ rest[t] # <<>>
  /\ Send(holder[t], Head(rest[t]))
  /\ rest' = [rest EXCEPT ![t] = Tail(@)]
  /\ UNCHANGED <<vars, backlog, holder, buffer, stacks, runs, clientSide>>

(* The INIT_ACK, and then the request to the storage server.  If it cannot *)
(* be sent, the refusal that follows ends the process.                     *)
ForwardRequest(t) ==
  LET c == holder[t]
  IN /\ nmUp /\ pc[t] = "dispatch" /\ Routed(t) /\ req[t].type \in Privileged
     /\ \/ /\ link[c] \in {"open", "fin"}
           /\ Forward(t)
           /\ Send(c, "init")
           /\ rest' = [rest EXCEPT ![t] = IF pc'[t] = "waiting" THEN <<>> ELSE <<"refusal">>]
        \/ /\ link[c] \in {"broken", "reset"}
           /\ nmUp' = FALSE
           /\ UNCHANGED <<vars, link, stream, rest>>
     /\ UNCHANGED <<backlog, holder, buffer, stacks, runs, clientSide>>

(* Slips: the process exits, or the client is not told.                    *)
ExitOnFailure(t) ==
  /\ nmUp /\ ForwardFails(t)
  /\ nmUp' = FALSE
  /\ UNCHANGED <<link, stream, threadSide, runs, clientSide>>

FailSilently(t) ==
  /\ nmUp /\ ForwardFails(t)
  /\ UNCHANGED <<wire, threadSide, runs, clientSide>>

RefuseClient(t) ==
  /\ nmUp /\ ForwardFails(t)
  /\ Send(holder[t], "refusal")
  /\ UNCHANGED <<threadSide, runs, clientSide>>

MergeAndAnswer(t) ==
  /\ nmUp /\ Merge(t)
  /\ Send(holder[t], reply'[t])
  /\ UNCHANGED <<threadSide, runs, clientSide>>

UnlinkPath(t) ==
  /\ nmUp /\ Unlink(t)
  /\ UNCHANGED <<threadSide, runs, wire, clientSide>>

(* Steps of the storage servers and of their listener; an execution is     *)
(* counted.                                                                *)
Beside ==
  /\ nmUp
  /\ runs' = [t \in Thread |->
                IF conn[t].stage = "queued" /\ conn'[t].stage = "done" /\ runs[t] < 2
                THEN runs[t] + 1 ELSE runs[t]]
  /\ UNCHANGED <<threadSide, wire, clientSide>>

-----------------------------------------------------------------------------
ClientReads(c) == ReadRefusal(c) \/ ReadFirst(c) \/ ReadSecond(c) \/ ReadList(c) \/ ReadDetails(c)

ThreadTurn(t) ==
  \/ TakeRequest(t) \/ TakeAgain(t) \/ LookUp(t) \/ EndThread(t)
  \/ AnswerClient(t) \/ SendRest(t) \/ ForwardRequest(t) \/ RefuseClient(t)
  \/ MergeAndAnswer(t) \/ UnlinkPath(t)

SessionsNext ==
  \/ ServersStep /\ Beside
  \/ \E t \in Thread : Accept(t) \/ ThreadTurn(t)
  \/ \E c \in Client : \/ Connect(c) \/ Leave(c) \/ ClientReads(c)
                       \/ \E r \in Request : AskFor(c, r)

SessionsSpec == SessionsInit /\ [][SessionsNext]_svars

(* Storage servers that run, the accept loop and the threads keep running. *)
(* Nobody has to connect, to ask, to read or to leave, or to register.     *)
SessionsFairSpec ==
  /\ SessionsSpec
  /\ \A s \in Server : WF_svars((SSListen(s) \/ ServerStep(s)) /\ Beside)
  /\ WF_svars(\E t \in Thread : Accept(t))
  /\ \A t \in Thread : WF_svars(ThreadTurn(t))

-----------------------------------------------------------------------------
Present(c) == stage[c] \notin {"away", "gone"}

Forwarded(t, c) == /\ holder[t] = c /\ stage[c] = "prompt" /\ told[c] # "none"
                   /\ asked[c].type \in Privileged

(* A client that is back at its prompt after a request that was forwarded  *)
(* was told how this request ended: nothing of the answer, or of another,  *)
(* is under way (client.c:163-215 against nm_helper.c:283-302), unless it  *)
(* was given paths to list before.                                         *)
AnswersInStep ==
  \A t \in Thread : \A c \in Client :
    c \notin misread /\ Forwarded(t, c) =>
      /\ stream[c] = <<>> /\ rest[t] = <<>> /\ pc[t] \in {"idle", "unlink"}
      /\ req[t] = asked[c]
      /\ told[c] = IF reply[t] = "refused" THEN "failure" ELSE reply[t]

(* While its client is there a request is executed at most once, and if    *)
(* the client, in step, was told SUCCESS, once, or the storage server has  *)
(* ended (nm_helper.c:120, 148: what it did not acknowledge may read as a  *)
(* success); although the loop of the thread (nm.c:42-71) serves its       *)
(* buffer whatever recv returned.                                          *)
DoneOnce ==
  \A t \in Thread : \A c \in Client :
    holder[t] = c /\ Present(c) /\ sent[c] = <<>> =>
      /\ runs[t] <= 1
      /\ (c \notin misread /\ told[c] = "success" /\ asked[c].type \in Privileged)
           => runs[t] = 1 \/ (route[t] \in online /\ ~Serving(route[t]))

(* "Print the Job Status on stdout to inform the user" (client.c:220): the *)
(* status a client is told is that of the request it sent.                 *)
StatusIsOwn ==
  \A t \in Thread : \A c \in Client :
    Forwarded(t, c) =>
      /\ req[t] = asked[c]
      /\ told[c] = IF reply[t] = "refused" THEN "failure" ELSE reply[t]

(* Whatever storage servers do, and whatever a client that stays asks, the *)
(* naming server keeps running: only a client that left can end it.        *)
EndedByLeaver == ~nmUp => \E t \in Thread : ~Free(t) /\ ~Present(holder[t])

Waits(c) == stage[c] \in {"first", "second"} /\ stream[c] = <<>>

(* A client that waits for an acknowledgment is sent one, or the naming    *)
(* server ends, or it waits to be accepted while every slot is held by a   *)
(* client that is still there (nm.c:254-267): a slot whose client has gone *)
(* does not stay taken.                                                    *)
EveryClientAnswered ==
  \A c \in Client :
    Waits(c) ~> \/ ~Waits(c)
                \/ ~nmUp
                \/ c \in Range(backlog) /\ \A t \in Thread : ~Free(t) /\ Present(holder[t])

(* "After completion, the client socket is closed, and the thread slot is  *)
(* marked as available" (nm.c:30).                                         *)
SlotFreed ==
  \A t \in Thread : \A c \in Client :
    holder[t] = c /\ stage[c] = "gone" ~> holder[t] # c
=============================================================================
