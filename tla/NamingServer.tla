---------------------------- MODULE NamingServer ----------------------------
(***************************************************************************)
(* The naming server with its storage servers and its clients' requests:   *)
(* src/NamingServer/nm.c, nm_helper.c, new_srv_helper.c and the naming-    *)
(* server side of src/StorageServers/server.c.                             *)
(*                                                                         *)
(* Each storage server announces the paths on its disk once, when it       *)
(* registers, and again after every create or delete it is forwarded.  The *)
(* naming server keeps three copies of that knowledge, servers[].          *)
(* accessible_paths, the trie and the lru, and one thread per client works *)
(* on all three without a lock.  Steps of a thread are cut where it writes *)
(* an entry of the lru in part and where it reads the entry back, where it *)
(* waits for the storage server, and where it lets the client go on before *)
(* it is done: the unlink that follows a forwarded deletion.               *)
(***************************************************************************)
EXTENDS PathTrie, FiniteSets

CONSTANTS
  Thread,           \* the client threads of the naming server
  NumInitServers,   \* NUM_INIT_SERVERS
  CacheSize,        \* MAX_CACHE_SIZE
  NoText,           \* the empty path, and its hash 0, that of an unused lru entry
  InitDisk,         \* what is on each server's disk at the start
  Request,          \* the requests the clients send: [type, arg]
  Mortal,           \* the storage servers that may stop
  ZeroID            \* the server ID that a buffer full of zeros names

Privileged == {"CREATE_DIR", "CREATE_FILE", "DELETE_DIR", "DELETE_FILE"}
Access == {"READ_FILE", "WRITE_FILE", "GET_FILE_INFO"}
Type == Privileged \union Access \union {"LIST_ALL"}

Root == <<Slash>>

(* A disk holds every directory its entries lie in, the server's own root  *)
(* among them.                                                             *)
ASSUME ServiceAssumption ==
  /\ NumInitServers \in Nat \ {0}
  /\ CacheSize \in Nat \ {0}
  /\ NoText \notin Text
  /\ Request # {}
  /\ Request \subseteq [type : Type, arg : Text \union {NoText}]
  /\ InitDisk \in [Server -> SUBSET Text]
  /\ \A s \in Server : Root \in InitDisk[s]
  /\ \A s \in Server : \A t \in InitDisk[s] : DirsOf(t) \subseteq InitDisk[s]
  /\ \A t \in Text : DirText(t) \in Text
  /\ Mortal \subseteq Server
  /\ ZeroID \in Server

INSTANCE RecencyCache WITH Key <- Text, NoKey <- NoText, Value <- Route, NoValue <- NoServer

VARIABLES
  disk,         \* files and directories below each storage server's root
  state,        \* the process of each storage server
  queue,        \* its connections from the naming server, in order of arrival
  online,       \* servers[s].online
  paths,        \* servers[s].accessible_paths
  trie,         \* the tree under root
  lru,          \* the lru array; the ranks of its entries are left to LRUCache
  registering,  \* the server between registration and acknowledgment, or NoServer
  running,      \* num_servers_running
  open,         \* servers_initialized was posted, the client listener runs
  pc,           \* where each client thread is
  req,          \* its clientRequest
  slot,         \* the entry of the lru that its lookup hit or replaces
  route,        \* its ss_num
  conn,         \* its connection to the storage server
  stale,        \* the server details a previous forward left on its stack
  reply         \* what its client was told last

diskVars == <<disk, state, queue>>
registryVars == <<registering, running, open>>
indexVars == <<online, paths, trie>>
threadVars == <<pc, req, slot, route, conn, stale, reply>>
vars == <<disk, state, queue, online, paths, trie, lru, registering, running, open,
          pc, req, slot, route, conn, stale, reply>>

(* "joining": announced, waiting for the acknowledgment; "ghost": stopped  *)
(* with its announcement still to be read; "accepted": acknowledged, not   *)
(* yet listening; "up": its two listeners run.                             *)
State == {"off", "joining", "ghost", "accepted", "up"}

(* "queued": sent to the storage server; "done": the operation was         *)
(* executed and the disk listed; "acked", "sent": the acknowledgment, and  *)
(* the details, are on their way; "eof", "reset": closed by the end of the *)
(* storage server, after or before it read the request.                    *)
Stage == {"none", "queued", "done", "acked", "sent", "eof", "reset"}

(* ack: the acknowledgment that was sent or will be.                       *)
Ack == {"none", "success", "failure"}
Conn == [stage : Stage, ack : Ack, list : SUBSET Text]
Closed == [stage |-> "none", ack |-> "none", list |-> {}]

(* "fill": the entry has the hash of the path and its old server; "read":  *)
(* about to read the server of the entry; then the branches of             *)
(* handleClientRequest.                                                    *)
Location == {"idle", "fill", "read", "dispatch", "waiting", "unlink"}

(* "garbage": an acknowledgment that is neither a success nor a failure.   *)
Reply == {"none", "refused", "offline", "redirect", "listed", "success", "failure",
          "garbage"}

TypeOK ==
  /\ disk \in [Server -> SUBSET Text]
  /\ state \in [Server -> State]
  /\ queue \in [Server -> Seq(Thread)]
  /\ online \subseteq Server
  /\ paths \in [Server -> SUBSET Text]
  /\ trie \in [Text -> Mark]
  /\ lru \in Cache
  /\ registering \in Route
  /\ running \in Nat
  /\ open \in BOOLEAN
  /\ pc \in [Thread -> Location]
  /\ req \in [Thread -> Request]
  /\ slot \in [Thread -> Slot]
  /\ route \in [Thread -> Route]
  /\ conn \in [Thread -> Conn]
  /\ stale \in [Thread -> SUBSET Text]
  /\ reply \in [Thread -> Reply]

Init ==
  /\ disk = InitDisk
  /\ state = [s \in Server |-> "off"]
  /\ queue = [s \in Server |-> <<>>]
  /\ online = {}
  /\ paths = [s \in Server |-> {}]
  /\ trie = EmptyTrie
  /\ lru = EmptyCache
  /\ registering = NoServer
  /\ running = 0
  /\ open = FALSE
  /\ pc = [t \in Thread |-> "idle"]
  /\ req = [t \in Thread |-> CHOOSE r \in Request : TRUE]
  /\ slot = [t \in Thread |-> 1]
  /\ route = [t \in Thread |-> NoServer]
  /\ conn = [t \in Thread |-> Closed]
  /\ stale = [t \in Thread |-> {}]
  /\ reply = [t \in Thread |-> "none"]

-----------------------------------------------------------------------------
(* What the storage server does to its disk: the system calls behind       *)
(* createDirectory, createFile and deleteFile, by what they need and leave.*)
Parents(t) == DirsOf(t) \ {t}
Inside(d, u) == {w \in d \ {u} : u \in DirsOf(w)}

CanCreateFile(d, t) ==
  /\ ~IsDirText(t)                \* fopen of "x/" fails
  /\ Parents(t) \subseteq d
  /\ DirText(t) \notin d

CanCreateDir(d, t) ==
  /\ t # Root                     \* the slash was stripped: mkdir("")
  /\ Parents(t) \subseteq d
  /\ \A u \in d : DirText(u) # DirText(t)

(* What remove() takes away: a file, or a directory with nothing inside.   *)
Removable(d, t) ==
  IF t \in d /\ ~IsDirText(t) THEN {t}
  ELSE {u \in d \ {Root} : u = DirText(t) /\ Inside(d, u) = {}}

(* The path of a request below the server's root: the empty one and the    *)
(* root are the same once the slash at the front is gone.                  *)
Below(r) == IF r.arg = NoText THEN Root ELSE r.arg

(* The disk after a forwarded request, and whether its acknowledgment is a *)
(* success.  A DELETE_DIR prints a line and succeeds.                      *)
DiskAfter(d, r) ==
  LET p == Below(r)
  IN CASE r.type = "CREATE_FILE" -> IF CanCreateFile(d, p) THEN d \union {p} ELSE d
       [] r.type = "CREATE_DIR"  -> IF CanCreateDir(d, p) THEN d \union {DirText(p)} ELSE d
       [] r.type = "DELETE_FILE" -> d \ Removable(d, p)
       [] OTHER -> d

(* A slip: the results of the system calls are ignored.                    *)
SucceedsAlways(d, r) == TRUE

Succeeds(d, r) ==
  CASE r.type = "CREATE_FILE" -> CanCreateFile(d, Below(r))
    [] r.type = "CREATE_DIR"  -> CanCreateDir(d, Below(r))
    [] r.type = "DELETE_FILE" -> Removable(d, Below(r)) # {}
    [] OTHER -> TRUE

(* listFilesAndEmptyFolders: the files, and the directories with nothing   *)
(* inside, with a slash at the end.                                        *)
Listing(d) == {u \in d \ {Root} : IsDirText(u) => Inside(d, u) = {}}

(* The acknowledgment and the details the storage server has for a request.*)
Outcome(d, r, listed) ==
  [stage |-> "done",
   ack |-> IF Succeeds(d, r) THEN "success" ELSE "failure",
   list |-> Listing(listed)]

(* A slip: the disk is listed before the request is executed.              *)
ListedBefore(d, r) == Outcome(d, r, d)
Executed(d, r) == Outcome(d, r, DiskAfter(d, r))

-----------------------------------------------------------------------------
(* Storage servers coming and going.                                       *)

(* A server starts: it lists its disk and announces itself.  (It does so   *)
(* again only after the naming server has dealt with an announcement that  *)
(* it made before it stopped: the two are the same.)                       *)
SSStart(s) ==
  /\ state[s] = "off"
  /\ state' = [state EXCEPT ![s] = "joining"]
  /\ UNCHANGED <<disk, queue, registryVars, indexVars, lru, threadVars>>

(* The listener thread takes one announcement at a time.                   *)
Announced(s) == registering = NoServer /\ state[s] \in {"joining", "ghost"}

(* A slip: the online flag is not set.                                     *)
RegisterOffline(s) ==
  /\ Announced(s) /\ s \notin online
  /\ registering' = s
  /\ paths' = [paths EXCEPT ![s] = Listing(disk[s])]
  /\ trie' = InsertAll(trie, Listing(disk[s]), s)
  /\ UNCHANGED <<diskVars, running, open, online, lru, threadVars>>

RegisterServer(s) ==
  /\ Announced(s) /\ s \notin online
  /\ registering' = s
  /\ online' = online \union {s}
  /\ paths' = [paths EXCEPT ![s] = Listing(disk[s])]
  /\ trie' = InsertAll(trie, Listing(disk[s]), s)
  /\ UNCHANGED <<diskVars, running, open, lru, threadVars>>

(* A server is killed between its connect and its send: recv returns 0,    *)
(* and what is registered is the buffer, zeros as long as nothing was ever *)
(* received into it.  (Later it names a server that is registered.)  The   *)
(* acknowledgment goes to a peer that has closed, which a send survives.   *)
RegisterUnheard(s) ==
  /\ s \in Mortal /\ state[s] = "off"
  /\ registering = NoServer /\ online = {}
  /\ online' = {ZeroID}
  /\ paths' = [paths EXCEPT ![ZeroID] = {}]
  /\ running' = running + 1
  /\ open' = (open \/ running + 1 = NumInitServers)
  /\ UNCHANGED <<diskVars, registering, trie, lru, threadVars>>

(* SERVER_ALREADY_REGISTERED: the server exits on the FAILURE_ACK.  This   *)
(* is what happens to one that stopped and is started again, for nothing   *)
(* ever takes it out of online.                                            *)
RefuseServer(s) ==
  /\ Announced(s) /\ s \in online
  /\ state' = [state EXCEPT ![s] = "off"]
  /\ UNCHANGED <<disk, queue, registryVars, indexVars, lru, threadVars>>

(* The acknowledgment is sent and the server counted; the clients' listener *)
(* starts when the count is right.                                         *)
AckServer ==
  LET s == registering
  IN /\ s # NoServer
     /\ registering' = NoServer
     /\ running' = running + 1
     /\ open' = (open \/ running + 1 = NumInitServers)
     /\ state' = [state EXCEPT ![s] = IF @ = "ghost" THEN "off" ELSE "accepted"]
     /\ UNCHANGED <<disk, queue, indexVars, lru, threadVars>>

(* The acknowledgment cannot be sent: the server stays registered, without *)
(* being counted.                                                          *)
AckFails ==
  LET s == registering
  IN /\ s # NoServer /\ state[s] = "ghost"
     /\ registering' = NoServer
     /\ state' = [state EXCEPT ![s] = "off"]
     /\ UNCHANGED <<disk, queue, running, open, indexVars, lru, threadVars>>

(* The acknowledged server starts its threads.                             *)
SSListen(s) ==
  /\ state[s] = "accepted"
  /\ state' = [state EXCEPT ![s] = "up"]
  /\ UNCHANGED <<disk, queue, registryVars, indexVars, lru, threadVars>>

(* The process ends, by a failure or by the key that main waits for: the   *)
(* disk stays.  A request it has not read is reset; of the one it is at,   *)
(* the naming server sees the end of the connection, and before it the     *)
(* acknowledgment if that was sent.                                        *)
CutOff(c, e) ==
  CASE c.stage = "queued" -> [Closed EXCEPT !.stage = e]
    [] c.stage = "done"   -> [Closed EXCEPT !.stage = "eof"]
    [] c.stage = "acked"  -> [Closed EXCEPT !.stage = "eof", !.ack = c.ack]
    [] OTHER -> c

SSStop(s) ==
  /\ s \in Mortal
  /\ state[s] \in {"joining", "accepted", "up"}
  /\ state' = [state EXCEPT ![s] = IF @ = "joining" THEN "ghost" ELSE "off"]
  /\ \E head \in {"reset", "eof"} :
        conn' = [t \in Thread |->
                   IF t \notin Range(queue[s]) THEN conn[t]
                   ELSE IF t = Head(queue[s]) THEN CutOff(conn[t], head)
                   ELSE CutOff(conn[t], "reset")]
  /\ queue' = [queue EXCEPT ![s] = <<>>]
  /\ UNCHANGED <<disk, registryVars, indexVars, lru, pc, req, slot, route, stale, reply>>

-----------------------------------------------------------------------------
(* The storage server's nmThread: one connection at a time.                *)

(* From accept to the release of the mutex: execute and list.              *)
SSExecute(s) ==
  /\ state[s] = "up" /\ queue[s] # <<>>
  /\ LET t == Head(queue[s])
     IN /\ conn[t].stage = "queued"
        /\ disk' = [disk EXCEPT ![s] = DiskAfter(@, req[t])]
        /\ conn' = [conn EXCEPT ![t] = Executed(disk[s], req[t])]
  /\ UNCHANGED <<state, queue, registryVars, indexVars, lru, pc, req, slot, route, stale, reply>>

SSSendAck(s) ==
  /\ state[s] = "up" /\ queue[s] # <<>>
  /\ LET t == Head(queue[s])
     IN /\ conn[t].stage = "done"
        /\ conn' = [conn EXCEPT ![t].stage = "acked"]
  /\ UNCHANGED <<diskVars, registryVars, indexVars, lru, pc, req, slot, route, stale, reply>>

(* A slip: the details are only sent after a success.                      *)
SendDetailsIfDone(s) ==
  /\ state[s] = "up" /\ queue[s] # <<>>
  /\ LET t == Head(queue[s])
     IN /\ conn[t].stage = "acked" /\ conn[t].ack = "success"
        /\ conn' = [conn EXCEPT ![t].stage = "sent"]
  /\ queue' = [queue EXCEPT ![s] = Tail(@)]
  /\ UNCHANGED <<disk, state, registryVars, indexVars, lru, pc, req, slot, route, stale, reply>>

SSSendDetails(s) ==
  /\ state[s] = "up" /\ queue[s] # <<>>
  /\ LET t == Head(queue[s])
     IN /\ conn[t].stage = "acked"
        /\ conn' = [conn EXCEPT ![t].stage = "sent"]
  /\ queue' = [queue EXCEPT ![s] = Tail(@)]
  /\ UNCHANGED <<disk, state, registryVars, indexVars, lru, pc, req, slot, route, stale, reply>>

-----------------------------------------------------------------------------
(* A client thread of the naming server.                                   *)

(* recv and the first part of findStorageServer: the scan finds the path   *)
(* in an entry, or picks one and writes the hash of the path to it.  Which *)
(* entry that is, the ranks decide (LRUCache): here it may be any.  While  *)
(* a thread scans, another may write the entry that it has passed, so only *)
(* a thread that is alone never misses an entry that is there.  (After its *)
(* client has gone, a thread finds the last request in the buffer again:   *)
(* that is one of the choices of r.)                                       *)
Alone == \A t, u \in Thread : t = u

Receive(t, r) ==
  /\ open /\ pc[t] = "idle"
  /\ \E i \in Slot :
        /\ slot' = [slot EXCEPT ![t] = i]
        /\ \/ /\ i \in Hits(lru, r.arg)
              /\ pc' = [pc EXCEPT ![t] = "read"]
              /\ UNCHANGED lru
           \/ /\ Hits(lru, r.arg) = {} \/ ~Alone
              /\ pc' = [pc EXCEPT ![t] = "fill"]
              /\ lru' = [lru EXCEPT ![i].key = r.arg]
  /\ req' = [req EXCEPT ![t] = r]
  /\ reply' = [reply EXCEPT ![t] = "none"]
  /\ UNCHANGED <<diskVars, registryVars, indexVars, route, conn, stale>>

(* The trie has no empty path.                                             *)
Found(p) == IF p = NoText THEN NoServer ELSE search_trie(trie, p)

(* Then the server of the entry is written, and it is read back; the index *)
(* of the entry ends with the call.                                        *)
Fill(t) ==
  /\ pc[t] = "fill"
  /\ lru' = [lru EXCEPT ![slot[t]].value = Found(req[t].arg)]
  /\ pc' = [pc EXCEPT ![t] = "read"]
  /\ UNCHANGED <<diskVars, registryVars, indexVars, req, slot, route, conn, stale, reply>>

ReadBack(t) ==
  /\ pc[t] = "read"
  /\ route' = [route EXCEPT ![t] = lru[slot[t]].value]
  /\ slot' = [slot EXCEPT ![t] = 1]
  /\ pc' = [pc EXCEPT ![t] = "dispatch"]
  /\ UNCHANGED <<diskVars, registryVars, indexVars, lru, req, conn, stale, reply>>

Routed(t) == route[t] \in online

(* handleClientRequest, the branches that need no storage server.          *)
AnswerDirectly(t) ==
  /\ pc[t] = "dispatch"
  /\ ~Routed(t) \/ req[t].type \notin Privileged
  /\ reply' = [reply EXCEPT ![t] =
                 CASE route[t] = NoServer -> "refused"
                   [] route[t] # NoServer /\ ~Routed(t) -> "offline"
                   [] Routed(t) /\ req[t].type = "LIST_ALL" -> "listed"
                   [] Routed(t) /\ req[t].type # "LIST_ALL" -> "redirect"]
  /\ pc' = [pc EXCEPT ![t] = "idle"]
  /\ UNCHANGED <<diskVars, registryVars, indexVars, lru, req, slot, route, conn, stale>>

(* forwardClientRequestToServer up to its send.  A storage server that does *)
(* not listen refuses the connection, and the send on the closed descriptor *)
(* fails.                                                                   *)
Forward(t) ==
  /\ pc[t] = "dispatch"
  /\ Routed(t) /\ req[t].type \in Privileged
  /\ IF state[route[t]] = "up"
     THEN /\ conn' = [conn EXCEPT ![t] = [Closed EXCEPT !.stage = "queued"]]
          /\ queue' = [queue EXCEPT ![route[t]] = Append(@, t)]
          /\ pc' = [pc EXCEPT ![t] = "waiting"]
          /\ UNCHANGED reply
     ELSE /\ pc' = [pc EXCEPT ![t] = "idle"]
          /\ reply' = [reply EXCEPT ![t] = "refused"]
          /\ UNCHANGED <<conn, queue>>
  /\ UNCHANGED <<disk, state, registryVars, indexVars, lru, req, slot, route, stale>>

(* The first recv fails: the request was not read.                         *)
ForwardFails(t) ==
  /\ pc[t] = "waiting" /\ conn[t].stage = "reset"
  /\ conn' = [conn EXCEPT ![t] = Closed]
  /\ reply' = [reply EXCEPT ![t] = "refused"]
  /\ pc' = [pc EXCEPT ![t] = "idle"]
  /\ UNCHANGED <<diskVars, registryVars, indexVars, lru, req, slot, route, stale>>

(* The details a thread holds after its two recvs: at the end of the       *)
(* connection recv returns 0, and the buffer keeps what the last forward   *)
(* of this thread left there.                                              *)
Details(t) == IF conn[t].stage = "sent" THEN conn[t].list ELSE stale[t]

(* Slips: files are forgotten, or every forwarded request unlinks.         *)
UnlinksDirs(r) == r.type = "DELETE_DIR"
UnlinksAll(r) == r.type \in Privileged
Unlinks(r) == r.type \in {"DELETE_FILE", "DELETE_DIR"}

(* The acknowledgment it holds then: when none came, that is whatever was  *)
(* on its stack.                                                           *)
Acknowledged(t) == IF conn[t].ack = "none" THEN {"success", "failure", "garbage"}
                   ELSE {conn[t].ack}

(* From the recvs to the forwarded acknowledgment: the details replace the *)
(* server's paths and go into the trie.                                    *)
Merge(t) ==
  /\ pc[t] = "waiting" /\ conn[t].stage \in {"sent", "eof"}
  /\ paths' = [paths EXCEPT ![route[t]] = Details(t)]
  /\ trie' = InsertAll(trie, Details(t), route[t])
  /\ stale' = [stale EXCEPT ![t] = Details(t)]
  /\ \E ack \in Acknowledged(t) : reply' = [reply EXCEPT ![t] = ack]
  /\ conn' = [conn EXCEPT ![t] = Closed]
  /\ pc' = [pc EXCEPT ![t] = IF Unlinks(req[t]) THEN "unlink" ELSE "idle"]
  /\ UNCHANGED <<diskVars, registryVars, online, lru, req, slot, route>>

(* delete_from_trie, after the client has its answer and whatever it was.  *)
(* It does not find the empty path.                                        *)
Unlink(t) ==
  /\ pc[t] = "unlink"
  /\ trie' = IF req[t].arg = NoText THEN trie ELSE delete_from_trie(trie, req[t].arg)
  /\ pc' = [pc EXCEPT ![t] = "idle"]
  /\ UNCHANGED <<diskVars, registryVars, online, paths, lru, req, slot, route, conn,
                 stale, reply>>

-----------------------------------------------------------------------------
ThreadStep(t) == \/ Fill(t) \/ ReadBack(t) \/ AnswerDirectly(t)
                 \/ Forward(t) \/ ForwardFails(t) \/ Merge(t) \/ Unlink(t)
ServerStep(s) == SSExecute(s) \/ SSSendAck(s) \/ SSSendDetails(s)
ListenerStep == AckServer \/ AckFails \/ \E s \in Server : RegisterServer(s) \/ RefuseServer(s)

(* What happens to the storage servers and their registrations.            *)
ServersStep ==
  \/ ListenerStep
  \/ \E s \in Server : \/ SSStart(s) \/ SSListen(s) \/ SSStop(s) \/ RegisterUnheard(s)
                       \/ ServerStep(s)

Next ==
  \/ ServersStep
  \/ \E t \in Thread : ThreadStep(t) \/ \E r \in Request : Receive(t, r)

Spec == Init /\ [][Next]_vars

(* Threads and storage servers that run keep running; nobody has to start  *)
(* or stop a server, or send a request.                                    *)
FairSpec ==
  /\ Spec
  /\ WF_vars(ListenerStep)
  /\ \A s \in Server : WF_vars(SSListen(s)) /\ WF_vars(ServerStep(s))
  /\ \A t \in Thread : WF_vars(ThreadStep(t))

-----------------------------------------------------------------------------
(* The registered process of s is running (its acknowledgment may be due). *)
Serving(s) == \/ state[s] \in {"accepted", "up"}
              \/ registering = s /\ state[s] = "joining"

(* What s had on its disk at the start, the directories on the way, and    *)
(* the directories a mkdir of such a path makes.                           *)
Known(s) == {t \in Text : \E u \in InitDisk[s] : t = u \/ t \in DirsOf(DirText(u))}

Quiet == \A t \in Thread : pc[t] = "idle"
AllServing == \A s \in online : Serving(s)

(* No copy of the index, and no request under way, leads to a server that  *)
(* has not registered, although the copies are written without a lock and  *)
(* at different times: the offline branch (nm_helper.c:304-308) is dead.   *)
RoutesOnline ==
  (Range(trie) \union {lru[i].value : i \in Slot} \union Range(route)) \intersect Server
    \subseteq online

(* An entry whose server is about to be written says nothing.              *)
Settled(i) == \A t \in Thread : ~(pc[t] = "fill" /\ slot[t] = i)

RoutedTo(s) ==
  {p \in Text : trie[p] = s}
    \union {lru[i].key : i \in {i \in Slot : Settled(i) /\ lru[i].value = s}}
    \union {req[t].arg : t \in {t \in Thread : /\ pc[t] \in {"dispatch", "waiting", "unlink"}
                                              /\ route[t] = s}}

(* As long as one client thread runs at a time, a server that runs is only *)
(* ever asked for what it announced when it registered, whatever lists     *)
(* were merged meanwhile for servers that ended (nm_helper.c:130-145); so  *)
(* a create never makes a path that was new: it is routed by the lookup of *)
(* the very path (nm.c:58).  (With two threads a lookup may read back the  *)
(* server of the entry that the other is about to fill, nm_helper.c:357-   *)
(* 361: LRUCache.)                                                         *)
RoutesKnown == \A s \in Server :
                 /\ disk[s] \subseteq Known(s)
                 /\ Serving(s) => RoutedTo(s) \subseteq Known(s)

(* With no request under way, the accessible paths of a running server are *)
(* what is on its disk (nm_helper.c:141, structs.h:48): the last snapshot  *)
(* that was merged is the last that was taken.                             *)
ListingFresh == \A s \in Server :
                  Quiet /\ state[s] = "up" => paths[s] = Listing(disk[s])

(* With no request under way, a file that the trie leads to on a running   *)
(* server is there: deletions are unlinked, and no merge brings a deleted  *)
(* file back.                                                              *)
RoutedFilesExist ==
  \A p \in Text : \A s \in Server :
    Quiet /\ state[s] = "up" /\ ~IsDirText(p) /\ search_trie(trie, p) = s
      => p \in disk[s]

(* With no request under way and no server lost, every file of a running   *)
(* server is marked as its own in the trie, and a search for it answers    *)
(* with the server unless a directory on its way is marked as deleted: no  *)
(* merge or unlink of something else took a mark that the search reads     *)
(* (nm_helper.c:139-145, 297, 437-448).                                    *)
FilesFound ==
  \A s \in Server : \A p \in disk[s] :
    Quiet /\ AllServing /\ state[s] = "up" /\ ~IsDirText(p) =>
      /\ trie[p] = s
      /\ search_trie(trie, p) = s \/ \E q \in DirsOf(p) : trie[q] = NoServer

(* When its client has been told SUCCESS and the server still runs, a      *)
(* create is on the disk and, for a file, in the trie; a deleted file is   *)
(* neither on the disk nor found.                                          *)
EffectVisible ==
  \A t \in Thread :
    Quiet /\ reply[t] = "success" /\ Serving(route[t]) =>
      LET p == req[t].arg
          d == disk[route[t]]
      IN CASE req[t].type = "CREATE_FILE" -> p \in d /\ trie[p] = route[t]
           [] req[t].type = "CREATE_DIR"  -> DirText(p) \in d
           [] req[t].type = "DELETE_FILE" -> p \notin d /\ search_trie(trie, p) = NoServer
           [] OTHER -> TRUE

(* Every request that a thread took is answered, although the storage      *)
(* server may stop at any time: no recv of the thread waits for ever.      *)
EveryRequestEnds == \A t \in Thread : pc[t] # "idle" ~> pc[t] = "idle"

-----------------------------------------------------------------------------
(* What is taken for granted of disks and requests: without the one or the *)
(* other of these some of the properties above fail, also with one thread. *)
(* ("All paths are unique", src/README.md:49.)                             *)

(* No two servers ever have the same file.                                 *)
UniqueFiles ==
  \A s, u \in Server : \A p \in Known(s) \intersect Known(u) : s # u => IsDirText(p)

(* No two servers can have what clients create and delete as a file.       *)
UniqueArguments ==
  \A r \in Request : \A s, u \in Server :
    r.type \in {"CREATE_FILE", "DELETE_FILE"} /\ r.arg \in Known(s) \intersect Known(u) => s = u

(* The text of a file that clients delete does not start another file's.   *)
NamesApart ==
  \A r \in Request : \A p \in Text :
    Unlinks(r) /\ r.arg # NoText /\ ~IsDirText(r.arg) /\ IsPrefix(r.arg, p) /\ ~IsDirText(p)
      => p = r.arg

(* Directories are deleted by their own text.                              *)
DirsByText ==
  \A r \in Request : r.type = "DELETE_DIR" /\ r.arg # NoText => IsDirText(r.arg)

(* Nobody deletes the root.                                                *)
RootKept == \A r \in Request : Unlinks(r) => r.arg # Root

(* The unlink of a file's text does not block the text of another deleted  *)
(* file.                                                                   *)
FilesApart ==
  \A r, u \in Request :
    /\ Unlinks(r) /\ u.type = "DELETE_FILE" /\ NoText \notin {r.arg, u.arg}
    /\ ~IsDirText(r.arg) /\ IsPrefix(r.arg, u.arg)
    => r.arg = u.arg
=============================================================================
