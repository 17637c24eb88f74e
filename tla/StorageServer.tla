---------------------------- MODULE StorageServer ----------------------------
(***************************************************************************)
(* One storage server: nmThread executes what the naming server forwards   *)
(* and lists the disk again, clientThread serves one client at a time      *)
(* (src/StorageServers/server.c:26-244, client_request_helper.c).  Both    *)
(* work under serverDetails_mutex, except that clientThread looks the path *)
(* up in the shared list of paths before it takes the mutex.               *)
(*                                                                         *)
(* The reader-writer locks are taken by clientThread alone, while it holds *)
(* the mutex: none is ever waited for, and RWLock models them.  Directories *)
(* are left to NamingServer; here a disk is a set of files with content.   *)
(***************************************************************************)
EXTENDS Naturals, Sequences, FiniteSets, SequencesExt

CONSTANTS
  Client,       \* client processes: each asks a storage server once
  File,
  Absent,       \* no such file, and what an unused entry holds
  InitFile,     \* the files at the start, a sequence in the order of readdir
  Ask,          \* what clients ask: [op, file]
  Forwarded,    \* what the naming server forwards: [type, arg]
  Old,          \* the one chunk each file holds at the start
  LoopsOn,      \* whether the uninitialised bytesRead may be > 0
  Mortal,       \* clients that may end at any moment
  MaxChunks,    \* bound: the chunks of one write
  MaxForwards   \* bound: the requests of the naming server

Op == {"READ_FILE", "WRITE_FILE", "GET_FILE_INFO"}

ASSUME StorageAssumption ==
  /\ IsFiniteSet(File) /\ Client # {}
  /\ InitFile \in Seq(File)
  /\ \A m, n \in 1..Len(InitFile) : InitFile[m] = InitFile[n] => m = n
  /\ Ask \subseteq [op : Op, file : File] /\ Ask # {}
  /\ Forwarded \subseteq [type : {"CREATE_FILE", "DELETE_FILE"}, arg : File] /\ Forwarded # {}
  /\ LoopsOn \subseteq BOOLEAN /\ LoopsOn # {}
  /\ Mortal \subseteq Client
  /\ MaxChunks \in Nat \ {0} /\ MaxForwards \in Nat
  /\ Old \notin Client
  /\ Absent \notin File \union Client \union Ask
  /\ Absent \notin Seq(Client \union {Old})

VARIABLES
  up,         \* the process runs
  content,    \* the chunks of each file, by who wrote them, or Absent
  entries,    \* serverDetails.accessible_paths; what is beyond numPaths stays
  numPaths,   \* serverDetails.num_paths
  mutex,      \* value of serverDetails_mutex
  nm,         \* nmThread: [pc, req, unlisted (files readdir has still to give)]
  forwards,   \* how many requests it has taken
  clt,        \* clientThread: [pc, client, i (loop variable), ack, by (who sent
              \* what clientRequest holds), stripped (its path lost the slash)]
  backlog,    \* its connections that were not accepted
  asked,      \* what each client asked
  stage,      \* where each client is
  wire,       \* the chunks on the way to the server, by their lastChunk
  sent,       \* how many chunks each client sent
  got,        \* the chunks each client was sent
  told,       \* the acknowledgment each client was sent
  served      \* how often each client's request was executed (2: or more)

diskVars == <<content, entries, numPaths>>
clientVars == <<asked, stage, wire, sent, got, told, served>>
vars == <<up, content, entries, numPaths, mutex, nm, forwards, clt, backlog,
          asked, stage, wire, sent, got, told, served>>

Chunk == Client \union {Old}
Present == {f \in File : content[f] # Absent}

(* A client: "sending" the chunks of a write, "waiting" for the answer,     *)
(* "stopped" by ctrl-Z or "gone" before that, or at its end, having printed *)
(* "Success!" or "Error!".                                                  *)
Stage == {"new", "sending", "waiting", "stopped", "gone", "success", "error"}

NmPc == {"accept", "wait", "execute", "list", "reply"}
CltPc == {"accept", "check", "compare", "refuse", "wait", "open", "truncate", "transfer",
          "post", "ack"}

TypeOK ==
  /\ up \in BOOLEAN
  /\ content \in [File -> {Absent} \union Seq(Chunk)]
  /\ entries \in [1..Cardinality(File) -> File \union {Absent}]
  /\ numPaths \in 0..Cardinality(File)
  /\ mutex \in {0, 1}
  /\ nm \in [pc : NmPc, req : Forwarded, unlisted : SUBSET File, ack : {"success", "failure"}]
  /\ forwards \in 0..MaxForwards
  /\ clt \in [pc : CltPc, client : Client, i : Nat, ack : {"success", "failure"},
              by : Client \union {Absent}, stripped : BOOLEAN]
  /\ backlog \in Seq(Client)
  /\ asked \in [Client -> Ask \union {Absent}]
  /\ stage \in [Client -> Stage]
  /\ wire \in [Client -> Seq(BOOLEAN)]
  /\ sent \in [Client -> 0..MaxChunks]
  /\ got \in [Client -> Seq(Chunk)]
  /\ told \in [Client -> {"none", "success", "failure"}]
  /\ served \in [Client -> 0..2]

Init ==
  /\ up = TRUE
  /\ content = [f \in File |-> IF f \in Range(InitFile) THEN <<Old>> ELSE Absent]
  /\ entries = [n \in 1..Cardinality(File) |->
                  IF n <= Len(InitFile) THEN InitFile[n] ELSE Absent]
  /\ numPaths = Len(InitFile)
  /\ mutex = 1
  /\ nm = [pc |-> "accept", req |-> CHOOSE r \in Forwarded : TRUE, unlisted |-> {},
           ack |-> "success"]
  /\ forwards = 0
  /\ clt = [pc |-> "accept", client |-> CHOOSE c \in Client : TRUE, i |-> 1, ack |-> "success",
            by |-> Absent, stripped |-> FALSE]
  /\ backlog = <<>>
  /\ asked = [c \in Client |-> Absent]
  /\ stage = [c \in Client |-> "new"]
  /\ wire = [c \in Client |-> <<>>]
  /\ sent = [c \in Client |-> 0]
  /\ got = [c \in Client |-> <<>>]
  /\ told = [c \in Client |-> "none"]
  /\ served = [c \in Client |-> 0]

-----------------------------------------------------------------------------
(* Clients (src/Clients/client.c:226-322, req_helper.c).                   *)

Connect(c, a) ==
  /\ up /\ stage[c] = "new"
  /\ stage' = [stage EXCEPT ![c] = IF a.op = "WRITE_FILE" THEN "sending" ELSE "waiting"]
  /\ asked' = [asked EXCEPT ![c] = a]
  /\ backlog' = Append(backlog, c)
  /\ UNCHANGED <<up, diskVars, mutex, nm, forwards, clt, wire, sent, got, told, served>>

(* A client is killed between its connect and its send.                    *)
HangUp(c) ==
  /\ up /\ c \in Mortal /\ stage[c] = "new"
  /\ stage' = [stage EXCEPT ![c] = "gone"]
  /\ backlog' = Append(backlog, c)
  /\ UNCHANGED <<up, diskVars, mutex, nm, forwards, clt, asked, wire, sent, got, told, served>>

(* send_file_data_to_ss.  (To a client that was refused the connection is  *)
(* closed.)                                                                *)
SendChunk(c) ==
  /\ stage[c] = "sending" /\ told[c] = "none"
  /\ \E last \in BOOLEAN :
        /\ sent[c] + 1 = MaxChunks => last
        /\ wire' = [wire EXCEPT ![c] = Append(@, last)]
        /\ stage' = [stage EXCEPT ![c] = IF last THEN "waiting" ELSE @]
  /\ sent' = [sent EXCEPT ![c] = @ + 1]
  /\ UNCHANGED <<up, diskVars, mutex, nm, forwards, clt, backlog, asked, got, told, served>>

(* A slip: all that is no failure counts as success.                       *)
ShowUnlessRefused(c) ==
  /\ stage[c] \in {"sending", "waiting"}
  /\ told[c] # "none" \/ ~up
  /\ stage' = [stage EXCEPT ![c] = IF told[c] = "failure" THEN "error" ELSE "success"]
  /\ UNCHANGED <<up, diskVars, mutex, nm, forwards, clt, backlog, asked, wire, sent, got, told,
                 served>>

(* The recv of a file's information takes what there is, and that may be   *)
(* the information and the acknowledgment behind it.                       *)
TakesAckToo(c) == told[c] = "success" /\ asked[c].op = "GET_FILE_INFO"

(* What the client prints at its end.  If no acknowledgment comes recv     *)
(* returns 0, and ack holds what the naming server sent, which is no       *)
(* success.                                                                *)
Show(c) ==
  /\ stage[c] \in {"sending", "waiting"}
  /\ told[c] # "none" \/ ~up
  /\ \E word \in {"success", "error"} :
        /\ word = "success" => told[c] = "success"
        /\ word = "error" => told[c] # "success" \/ TakesAckToo(c)
        /\ stage' = [stage EXCEPT ![c] = word]
  /\ UNCHANGED <<up, diskVars, mutex, nm, forwards, clt, backlog, asked, wire, sent, got, told,
                 served>>

(* The client process ends, and its end of the connection with it, or is   *)
(* suspended, and keeps the connection.                                    *)
Leave(c) ==
  /\ c \in Mortal /\ stage[c] \in {"sending", "waiting", "stopped"} /\ told[c] = "none"
  /\ \E last \in {"gone", "stopped"} \ {stage[c]} : stage' = [stage EXCEPT ![c] = last]
  /\ UNCHANGED <<up, diskVars, mutex, nm, forwards, clt, backlog, asked, wire, sent, got, told,
                 served>>

-----------------------------------------------------------------------------
(* clientThread: the client it serves, what is in clientRequest and its    *)
(* file.                                                                   *)
cur == clt.client
request == asked[clt.by]
path == IF clt.by = Absent THEN Absent ELSE request.file

CltAt(pc) == up /\ clt.pc = pc
CltGoto(pc) == clt' = [clt EXCEPT !.pc = pc]

(* accept and recv.  From a client that sent nothing recv returns 0, and   *)
(* clientRequest is what it was: the previous request, which is no path    *)
(* that can be found once the slash was taken off it (server.c:196-198).   *)
Accept ==
  /\ CltAt("accept") /\ backlog # <<>>
  /\ LET c == Head(backlog)
     IN clt' = [pc |-> "check", client |-> c, i |-> 1, ack |-> "success", stripped |-> FALSE,
                by |-> CASE asked[c] # Absent -> c
                         [] asked[c] = Absent /\ clt.stripped -> Absent
                         [] OTHER -> clt.by]
  /\ backlog' = Tail(backlog)
  /\ UNCHANGED <<up, diskVars, mutex, nm, forwards, clientVars>>

(* The search of the list, without the mutex: the loop's condition...      *)
Check ==
  /\ CltAt("check")
  /\ CltGoto(IF clt.i <= numPaths THEN "compare" ELSE "refuse")
  /\ UNCHANGED <<up, diskVars, mutex, nm, forwards, backlog, clientVars>>

(* A slip: the slash is taken off a copy of the path.                      *)
CompareCopy ==
  /\ CltAt("compare")
  /\ IF entries[clt.i] = path
     THEN /\ clt' = [clt EXCEPT !.pc = "wait"]
          /\ served' = [served EXCEPT ![clt.by] = IF @ < 2 THEN @ + 1 ELSE @]
     ELSE /\ clt' = [clt EXCEPT !.pc = "check", !.i = @ + 1]
          /\ UNCHANGED served
  /\ UNCHANGED <<up, diskVars, mutex, nm, forwards, backlog, asked, stage, wire, sent, got, told>>

(* ...and its comparison.  (An entry is compared at once: strcmp against a *)
(* strcpy of the other thread is left out.)                                *)
Compare ==
  /\ CltAt("compare")
  /\ IF entries[clt.i] = path
     THEN /\ clt' = [clt EXCEPT !.pc = "wait", !.stripped = TRUE]
          /\ served' = [served EXCEPT ![clt.by] = IF @ < 2 THEN @ + 1 ELSE @]
     ELSE /\ clt' = [clt EXCEPT !.pc = "check", !.i = @ + 1]
          /\ UNCHANGED served
  /\ UNCHANGED <<up, diskVars, mutex, nm, forwards, backlog, asked, stage, wire, sent, got, told>>

Refuse ==
  /\ CltAt("refuse")
  /\ told' = [told EXCEPT ![cur] = "failure"]
  /\ CltGoto("accept")
  /\ UNCHANGED <<up, diskVars, mutex, nm, forwards, backlog, asked, stage, wire, sent, got, served>>

(* A slip: the mutex is not waited for.                                    *)
CltEnters ==
  /\ CltAt("wait")
  /\ mutex' = 0
  /\ CltGoto("open")
  /\ UNCHANGED <<up, diskVars, nm, forwards, backlog, clientVars>>

CltTakeMutex ==
  /\ CltAt("wait") /\ mutex = 1
  /\ mutex' = 0
  /\ CltGoto("open")
  /\ UNCHANGED <<up, diskVars, nm, forwards, backlog, clientVars>>

(* A slip: an error on the way out skips the sem_post.                     *)
OpenOrAck ==
  /\ CltAt("open")
  /\ clt' = IF content[path] = Absent THEN [clt EXCEPT !.pc = "ack", !.ack = "failure"]
            ELSE [clt EXCEPT !.pc = CASE request.op = "READ_FILE" -> "transfer"
                                      [] request.op = "WRITE_FILE" -> "truncate"
                                      [] OTHER -> "post"]
  /\ UNCHANGED <<up, diskVars, mutex, nm, forwards, backlog, clientVars>>

(* The fopen for reading, which a write does first too, or the stat of     *)
(* sendFileInformation.                                                    *)
Open ==
  /\ CltAt("open")
  /\ clt' = IF content[path] = Absent THEN [clt EXCEPT !.pc = "post", !.ack = "failure"]
            ELSE [clt EXCEPT !.pc = CASE request.op = "READ_FILE" -> "transfer"
                                      [] request.op = "WRITE_FILE" -> "truncate"
                                      [] OTHER -> "post"]
  /\ UNCHANGED <<up, diskVars, mutex, nm, forwards, backlog, clientVars>>

(* fopen(path, "w"), then "a".                                             *)
Truncate ==
  /\ CltAt("truncate")
  /\ content' = [content EXCEPT ![path] = <<>>]
  /\ CltGoto("transfer")
  /\ UNCHANGED <<up, entries, numPaths, mutex, nm, forwards, backlog, clientVars>>

(* read_file_in_ss: one packet after the other until feof.                 *)
ReadChunk ==
  /\ CltAt("transfer") /\ request.op = "READ_FILE"
  /\ IF content[path] # Absent /\ Len(got[cur]) < Len(content[path])
     THEN got' = [got EXCEPT ![cur] = Append(@, content[path][Len(@) + 1])] /\ UNCHANGED clt
     ELSE CltGoto("post") /\ UNCHANGED got
  /\ UNCHANGED <<up, diskVars, mutex, nm, forwards, backlog, asked, stage, wire, sent, told, served>>

(* What a write leaves in the file: an unlinked file that is still open    *)
(* takes the chunk with it.                                                *)
Appended == IF content[path] = Absent THEN content ELSE [content EXCEPT ![path] = Append(@, cur)]

(* write_file_in_ss: the loop ends with the last chunk, or when bytesRead, *)
(* which nothing ever sets, happens to be 0.                               *)
WriteChunk ==
  /\ CltAt("transfer") /\ request.op = "WRITE_FILE" /\ wire[cur] # <<>>
  /\ content' = Appended
  /\ wire' = [wire EXCEPT ![cur] = Tail(@)]
  /\ \E more \in LoopsOn :
        IF wire[cur][1] \/ ~more THEN CltGoto("post") ELSE UNCHANGED clt
  /\ UNCHANGED <<up, entries, numPaths, mutex, nm, forwards, backlog, asked, stage, sent, got, told, served>>

(* The client has gone: recv returns 0, which is no error, and the packet  *)
(* is what it was.  That is no last chunk, except that without any chunk   *)
(* before it is uninitialised.  The chunk is appended again and again; its *)
(* copies beyond MaxChunks are not counted.                                *)
WriteAgain ==
  /\ CltAt("transfer") /\ request.op = "WRITE_FILE" /\ wire[cur] = <<>> /\ stage[cur] = "gone"
  /\ content' = IF content[path] # Absent /\ Len(content[path]) > MaxChunks THEN content ELSE Appended
  /\ \E last \in (IF sent[cur] = 0 THEN BOOLEAN ELSE {FALSE}), more \in LoopsOn :
        IF last \/ ~more THEN CltGoto("post") ELSE UNCHANGED clt
  /\ UNCHANGED <<up, entries, numPaths, mutex, nm, forwards, backlog, clientVars>>

CltPost ==
  /\ CltAt("post")
  /\ mutex' = mutex + 1
  /\ CltGoto("ack")
  /\ UNCHANGED <<up, diskVars, nm, forwards, backlog, clientVars>>

SendAck ==
  /\ CltAt("ack")
  /\ told' = [told EXCEPT ![cur] = clt.ack]
  /\ CltGoto("accept")
  /\ UNCHANGED <<up, diskVars, mutex, nm, forwards, backlog, asked, stage, wire, sent, got, served>>

(* The first send to a client that has gone is accepted and answered by a  *)
(* reset; a further one may raise SIGPIPE, which nobody handles, or fail,  *)
(* on which the program exits: the process ends.                           *)
SendsAgain ==
  \/ clt.pc = "transfer" /\ request.op = "READ_FILE" /\ got[cur] # <<>>
  \/ /\ clt.pc = "ack"
     /\ \/ request.op = "READ_FILE" /\ got[cur] # <<>>
        \/ request.op = "GET_FILE_INFO" /\ clt.ack = "success"

BrokenPipe ==
  /\ up /\ SendsAgain /\ stage[cur] = "gone"
  /\ up' = FALSE
  /\ UNCHANGED <<diskVars, mutex, nm, forwards, clt, backlog, clientVars>>

-----------------------------------------------------------------------------
(* nmThread.                                                               *)
NmAt(pc) == up /\ nm.pc = pc

(* accept and recv.                                                        *)
NmAccept(r) ==
  /\ NmAt("accept") /\ forwards < MaxForwards
  /\ forwards' = forwards + 1
  /\ nm' = [nm EXCEPT !.pc = "wait", !.req = r]
  /\ UNCHANGED <<up, diskVars, mutex, clt, backlog, clientVars>>

(* A slip: the mutex is not waited for.                                    *)
NmEnters ==
  /\ NmAt("wait")
  /\ mutex' = 0
  /\ nm' = [nm EXCEPT !.pc = "execute"]
  /\ UNCHANGED <<up, diskVars, forwards, clt, backlog, clientVars>>

NmTakeMutex ==
  /\ NmAt("wait") /\ mutex = 1
  /\ mutex' = 0
  /\ nm' = [nm EXCEPT !.pc = "execute"]
  /\ UNCHANGED <<up, diskVars, forwards, clt, backlog, clientVars>>

(* Whether the system calls succeed: a file that is not there cannot be    *)
(* deleted.                                                                *)
Outcome == IF nm.req.type = "DELETE_FILE" /\ content[nm.req.arg] = Absent THEN "failure" ELSE "success"

(* createFile or deleteFile.  fopen(path, "w") empties a file that is there. *)
Executed == [content EXCEPT ![nm.req.arg] = IF nm.req.type = "CREATE_FILE" THEN <<>> ELSE Absent]

(* A slip: the old entries are not dropped.                                *)
NmExecuteAndAdd ==
  /\ NmAt("execute")
  /\ content' = Executed
  /\ nm' = [nm EXCEPT !.pc = "list", !.ack = Outcome,
                      !.unlisted = {g \in File : Executed[g] # Absent}]
  /\ UNCHANGED <<up, entries, numPaths, mutex, forwards, clt, backlog, clientVars>>

(* ...and the start of the listing.                                        *)
NmExecute ==
  /\ NmAt("execute")
  /\ content' = Executed
  /\ numPaths' = 0
  /\ nm' = [nm EXCEPT !.pc = "list", !.ack = Outcome,
                      !.unlisted = {g \in File : Executed[g] # Absent}]
  /\ UNCHANGED <<up, entries, mutex, forwards, clt, backlog, clientVars>>

(* listFilesAndEmptyFolders adds what readdir gives next.                  *)
NmList(g) ==
  /\ NmAt("list") /\ g \in nm.unlisted
  /\ entries' = [entries EXCEPT ![numPaths + 1] = g]
  /\ numPaths' = numPaths + 1
  /\ nm' = [nm EXCEPT !.unlisted = @ \ {g}]
  /\ UNCHANGED <<up, content, mutex, forwards, clt, backlog, clientVars>>

(* A slip: the mutex is given back before the list is complete.            *)
NmPostEarly ==
  /\ NmAt("list")
  /\ mutex' = mutex + 1
  /\ nm' = [nm EXCEPT !.pc = "reply"]
  /\ UNCHANGED <<up, diskVars, forwards, clt, backlog, clientVars>>

NmPost ==
  /\ NmAt("list") /\ nm.unlisted = {}
  /\ mutex' = mutex + 1
  /\ nm' = [nm EXCEPT !.pc = "reply"]
  /\ UNCHANGED <<up, diskVars, forwards, clt, backlog, clientVars>>

(* The acknowledgment and serverDetails, read without the mutex.           *)
NmReply ==
  /\ NmAt("reply")
  /\ nm' = [nm EXCEPT !.pc = "accept", !.ack = "success"]
  /\ UNCHANGED <<up, diskVars, mutex, forwards, clt, backlog, clientVars>>

-----------------------------------------------------------------------------
NmThread == NmTakeMutex \/ NmExecute \/ (\E g \in File : NmList(g)) \/ NmPost \/ NmReply

ClientThread ==
  \/ Accept \/ Check \/ Compare \/ Refuse \/ CltTakeMutex \/ Open \/ Truncate
  \/ ReadChunk \/ WriteChunk \/ WriteAgain \/ CltPost \/ SendAck

Next ==
  \/ \E d \in Client : (\E a \in Ask : Connect(d, a)) \/ HangUp(d)
                       \/ SendChunk(d) \/ Leave(d) \/ Show(d)
  \/ \E r \in Forwarded : NmAccept(r)
  \/ NmThread \/ ClientThread \/ BrokenPipe

Spec == Init /\ [][Next]_vars

(* The threads run, and a client that stays finishes its write.            *)
FairSpec == /\ Spec
            /\ WF_vars(NmThread) /\ WF_vars(ClientThread)
            /\ \A d \in Client : WF_vars(SendChunk(d))

-----------------------------------------------------------------------------
(* A write that succeeded left exactly the chunks its client sent, all of  *)
(* them and in one piece, when it gives the mutex back                     *)
(* (client_request_helper.c:142): no delete, create or other write came in *)
(* between.                                                                *)
WriteWhole ==
  clt.pc = "post" /\ clt.ack = "success" /\ request.op = "WRITE_FILE" /\ stage[cur] # "gone" =>
    stage[cur] # "sending" /\ content[path] = [n \in 1..sent[cur] |-> cur]

(* A read that succeeded sent the file as it is: nobody truncated, wrote   *)
(* or removed it between the packets (server.c:202-210).                   *)
ReadWhole ==
  clt.pc = "post" /\ clt.ack = "success" /\ request.op = "READ_FILE" => got[cur] = content[path]

(* The list that nmThread sends, after it gave the mutex back, is of the   *)
(* files on the disk, each once (server.c:101-113).                        *)
ListingOfDisk ==
  nm.pc = "reply" =>
    /\ numPaths = Cardinality(Present)
    /\ {entries[n] : n \in 1..numPaths} = Present

(* Everyone who waits is served, unless a client left too early, however   *)
(* its requests and those of the naming server compete for the mutex.      *)
Waiting == nm.pc # "accept" \/ \E d \in Client : stage[d] # "new" /\ told[d] = "none"
ServedUnlessGone == Waiting ~> ~Waiting \/ \E d \in Client : stage[d] \in {"gone", "stopped"}

(* A request is executed once at most, although a recv that returns 0      *)
(* leaves the previous request in the buffer (server.c:162).  (It may be   *)
(* executed for another client: one that hung up after it was refused.)    *)
ExecutedOnce == \A d \in Client : served[d] <= 1

(* A client that prints "Success!" (client.c:310) had its own request      *)
(* executed, and all it wrote was taken, although ack is never cleared and *)
(* a recv that returns 0 leaves it as it was.                              *)
SuccessIsTrue ==
  \A d \in Client : stage[d] = "success" => served[d] = 1 /\ wire[d] = <<>>

(* What the naming server sees of a forwarded request is one step, as      *)
(* NamingServer!SSExecute takes it: the outcome and the list it is sent    *)
(* are of one moment, at which the disk changed and in which no client     *)
(* took part, although the list is made entry by entry and read without    *)
(* the mutex (server.c:79-116).                                            *)
Service == INSTANCE ForwardService
             WITH InitFiles <- Range(InitFile),
                  present <- Present,
                  phase <- CASE nm.pc = "accept" -> "idle"
                             [] nm.pc \in {"wait", "execute"} -> "taken"
                             [] OTHER -> "done",
                  req <- nm.req,
                  ack <- nm.ack,
                  list <- CASE nm.pc = "list" -> Present
                            [] nm.pc = "reply" -> {entries[n] : n \in 1..numPaths}
                            [] OTHER -> {}
ForwardedAtOnce == Service!Spec

(* While the process runs, what the naming server forwarded is answered,   *)
(* whatever clients do: ctrl-Z is "to exit a client only" (README.md:45).  *)
ForwardedIsAnswered == nm.pc # "accept" ~> nm.pc = "accept" \/ ~up

(* A client is only refused for a path that may be missing (server.c:169): *)
(* the list is changed under "binary semaphore to atomically carry out     *)
(* priviliged instructions" (server.c:11).                                 *)
Permanent == Range(InitFile) \ {r.arg : r \in {r \in Forwarded : r.type = "DELETE_FILE"}}
FoundIfThere == clt.pc = "refuse" => path \notin Permanent
=============================================================================
