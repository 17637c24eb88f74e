--------------------------- MODULE OneThreadProofs ---------------------------
(***************************************************************************)
(* What the copies that the naming server keeps are worth between two      *)
(* requests, when one client thread works on them: ListingFresh,           *)
(* FilesFound, RoutedFilesExist and EffectVisible, for any servers, paths *)
(* and requests and with storage servers stopping at any moment.           *)
(*                                                                         *)
(* Each theorem names what it needs of the requests and of the disks: the  *)
(* conditions at the end of NamingServer.                                  *)
(***************************************************************************)
EXTENDS NamingProofs, WellFoundedInduction

(* Paths fit into their buffers (MAX_PATH_LEN).                            *)
ShortTexts == \E n \in Nat : \A t \in Text : Len(t) <= n

-----------------------------------------------------------------------------
(* The invariants.                                                         *)

(* The storage server executed the request and has its listing.            *)
Reported(t) == conn[t].stage \in {"done", "acked", "sent"}

(* A listing that a running server took is of its disk as it is now, and   *)
(* unless one is on its way the naming server has it.                      *)
FreshLists == \A t \in Thread :
  Reported(t) /\ Serving(route[t]) =>
    conn[t].list = Listing(disk[route[t]]) /\ conn[t].ack # "none"
FreshPaths == \A s \in Server :
  Serving(s) => \/ paths[s] = Listing(disk[s])
                \/ \E t \in Thread : Reported(t) /\ route[t] = s

(* The request was forwarded, and its client has been told SUCCESS.        *)
Told(t) == reply[t] = "success" /\ pc[t] \in {"idle", "unlink"}

(* What is unlinked or succeeded was forwarded to a registered server, what *)
(* is unlinked was asked to be, and every -1 in the trie is the mark of     *)
(* such a request.                                                          *)
Unlinking == \A t \in Thread :
  /\ pc[t] = "unlink" => Unlinks(req[t])
  /\ pc[t] = "unlink" \/ Told(t) => route[t] \in online
Blocks == \A p \in Text : trie[p] = NoServer => \E r \in Request : Unlinks(r) /\ r.arg = p

(* A disk has the directories that its entries lie in.                     *)
ClosedDisks == \A s \in Server : \A p \in disk[s] : DirsOf(p) \subseteq disk[s]

OneInv == KInv /\ FreshLists /\ FreshPaths /\ Unlinking /\ Blocks /\ ClosedDisks

(* While no server is lost: a file on a disk is marked for its server, or  *)
(* a listing that has it is on its way; and what is to be unlinked is gone.*)
Reporting(s) == \E t \in Thread : Reported(t) /\ route[t] = s
FilesMarked ==
  AllServing => \A s \in Server : \A p \in disk[s] :
                  Serving(s) /\ ~IsDirText(p) => trie[p] = s \/ Reporting(s)

(* The request whose listing is on its way, or whose path is yet to be     *)
(* unlinked.                                                               *)
Finishing(t) == Reported(t) \/ pc[t] = "unlink"
FilesGone ==
  \A t \in Thread : Finishing(t) /\ req[t].type = "DELETE_FILE" /\ Serving(route[t])
    => \/ IsDirText(req[t].arg)
       \/ req[t].arg \in Known(route[t]) /\ req[t].arg \notin disk[route[t]]

(* The way to a deleted path is on the disk it was deleted from, and open  *)
(* in the trie when the listing was merged.                                *)
OnTheWay(p) == DirsOf(p) \ {p}
WayOpen(p) == \A q \in OnTheWay(p) : trie[q] # NoServer
Deletes(t, p) ==
  /\ req[t].type = "DELETE_FILE" /\ req[t].arg = p
  /\ \/ Reported(t) /\ OnTheWay(p) \subseteq disk[route[t]]
     \/ pc[t] = "unlink" /\ WayOpen(p)

(* A file that a running server is marked for is there, or its deletion is *)
(* under way.                                                              *)
MarksExist ==
  \A s \in Server : \A p \in Text :
    Serving(s) /\ trie[p] = s /\ ~IsDirText(p)
      => p \in disk[s] \/ \E t \in Thread : route[t] = s /\ Deletes(t, p)

(* What a success means from the moment it is decided.                     *)
Unserved(p) == trie[p] \in {NoServer, Unmarked}
Effect(t) ==
  LET p == req[t].arg
      s == route[t]
  IN CASE req[t].type = "CREATE_FILE" -> p \in disk[s] /\ ~IsDirText(p) /\ (Told(t) => trie[p] = s)
       [] req[t].type = "CREATE_DIR"  -> DirText(p) \in disk[s]
       [] req[t].type = "DELETE_FILE" ->
            /\ p \notin disk[s]
            /\ Reported(t) => OnTheWay(p) \subseteq disk[s]
            /\ Told(t) /\ pc[t] = "unlink" => WayOpen(p)
            /\ Told(t) /\ pc[t] = "idle" => Unserved(p)
       [] OTHER -> TRUE
Effects ==
  \A t \in Thread :
    (Told(t) \/ (Reported(t) /\ conn[t].ack = "success")) /\ Serving(route[t])
      => req[t].arg \in Known(route[t]) /\ Effect(t)

-----------------------------------------------------------------------------
(* The steps by what they do to disks, copies and requests.                *)

(* Servers start and end, and answers travel.                              *)
Conveys ==
  /\ UNCHANGED <<disk, trie, pc, req, route, reply>>
  /\ \A s \in Server : Serving(s)' => Serving(s) /\ paths'[s] = paths[s]
  /\ \A t \in Thread : Serving(route[t])' =>
       Reported(t)' = Reported(t) /\ conn'[t].list = conn[t].list /\ conn'[t].ack = conn[t].ack

(* A thread comes by its request, or by an answer that is no success.      *)
Proceeds(t) ==
  /\ UNCHANGED <<disk, trie, paths, online, state, registering>>
  /\ ~Reported(t) /\ ~Reported(t)' /\ ~Told(t)'
  /\ pc[t] # "unlink" /\ pc'[t] # "unlink"
  /\ \A u \in Thread \ {t} : /\ conn'[u] = conn[u] /\ pc'[u] = pc[u] /\ req'[u] = req[u]
                             /\ route'[u] = route[u] /\ reply'[u] = reply[u]

(* A storage server executes the request of a thread that waits for it.    *)
Executes(s, t) ==
  /\ Serving(s) /\ route[t] = s /\ pc[t] = "waiting" /\ req[t].arg \in Known(s)
  /\ disk' = [disk EXCEPT ![s] = DiskAfter(disk[s], req[t])]
  /\ conn'[t] = Executed(disk[s], req[t])
  /\ \A u \in Thread \ {t} : conn'[u] = conn[u]
  /\ ~Reported(t)
  /\ UNCHANGED <<trie, paths, pc, req, route, reply, online, state, registering>>

(* What a running server is asked for is not the empty path.               *)
LEMMA KnownArgument ==
  ASSUME NEW t \in Thread, NEW s \in Server, req[t].arg \in Known(s)
  PROVE  req[t].arg \in Text /\ req[t].arg # NoText /\ Below(req[t]) = req[t].arg
  BY ServiceAssumption DEF Known, Below

LEMMA StopConveys ==
  ASSUME KInv, NEW s \in Server, SSStop(s)
  PROVE  Conveys
<1>1. /\ \A t \in Thread : t \notin Range(queue[s]) => conn'[t] = conn[t]
      /\ \A t \in Thread : t \in Range(queue[s]) => route[t] = s
      /\ UNCHANGED <<disk, trie, paths, pc, req, route, reply, registering>>
  BY DEF SSStop, KInv, IInv, Waiting, TypeOK, indexVars, registryVars, Range
<1>2. ~Serving(s)' /\ \A u \in Server \ {s} : Serving(u)' = Serving(u)
  BY DEF SSStop, Serving, KInv, IInv, TypeOK, registryVars
<1>3. ASSUME NEW t \in Thread, Serving(route[t])'
      PROVE  conn'[t] = conn[t]
  BY <1>1, <1>2, <1>3
<1>4. \A t \in Thread : conn'[t] = conn[t] => Reported(t)' = Reported(t)
  BY DEF Reported
<1> QED
  BY <1>1, <1>2, <1>3, <1>4 DEF Conveys

LEMMA SendConveys ==
  ASSUME KInv, NEW s \in Server, SSSendAck(s) \/ SSSendDetails(s)
  PROVE  Conveys
<1>1. PICK t \in Thread, e \in {"acked", "sent"} :
        /\ conn' = [conn EXCEPT ![t].stage = e]
        /\ conn[t].stage \in {"done", "acked"}
  <2>1. Head(queue[s]) \in Thread
    BY DEF KInv, IInv, TypeOK, SSSendAck, SSSendDetails
  <2> QED
    BY <2>1 DEF SSSendAck, SSSendDetails
<1>2. /\ conn'[t].stage = e /\ conn'[t].list = conn[t].list /\ conn'[t].ack = conn[t].ack
      /\ \A u \in Thread \ {t} : conn'[u] = conn[u]
  BY <1>1 DEF KInv, IInv, TypeOK, Conn
<1>3. UNCHANGED <<disk, trie, paths, pc, req, route, reply, state, registering>>
  BY DEF SSSendAck, SSSendDetails, indexVars, registryVars, diskVars
<1>4. \A u \in Thread : Reported(u)' = Reported(u)
  BY <1>1, <1>2 DEF Reported
<1> QED
  BY <1>2, <1>3, <1>4 DEF Conveys, Serving

LEMMA ServersConvey ==
  ASSUME KInv, NEW s \in Server,
         SSStart(s) \/ SSListen(s) \/ RefuseServer(s) \/ RegisterUnheard(s) \/ AckServer \/ AckFails
  PROVE  Conveys
<1>0. /\ registering \in Route /\ NoServer \notin Server /\ state \in [Server -> State]
      /\ ZeroID \in Server /\ paths \in [Server -> SUBSET Text]
  BY MarkAssumption, ServiceAssumption DEF KInv, IInv, TypeOK
<1>1. UNCHANGED <<disk, trie, pc, req, route, reply, conn>>
  BY DEF SSStart, SSListen, RefuseServer, RegisterUnheard, AckServer, AckFails, indexVars,
         registryVars, diskVars, threadVars
<1>2. \A u \in Server : Serving(u)' => Serving(u)
  BY <1>0 DEF SSStart, SSListen, RefuseServer, RegisterUnheard, AckServer, AckFails, Serving,
              KInv, IInv, Processes, Announced, registryVars, diskVars, Route
<1>3. \A u \in Server : Serving(u) => paths'[u] = paths[u]
  BY <1>0 DEF SSStart, SSListen, RefuseServer, RegisterUnheard, AckServer, AckFails,
              KInv, IInv, Processes, indexVars
<1>4. \A t \in Thread : Reported(t)' = Reported(t)
  BY <1>1 DEF Reported
<1> QED
  BY <1>1, <1>2, <1>3, <1>4 DEF Conveys

LEMMA ThreadProceeds ==
  ASSUME KInv, Unlinking, NEW t \in Thread,
         \/ \E r \in Request : Receive(t, r)
         \/ Fill(t) \/ ReadBack(t) \/ AnswerDirectly(t) \/ Forward(t) \/ ForwardFails(t)
  PROVE  Proceeds(t)
<1>0. /\ conn \in [Thread -> Conn] /\ pc \in [Thread -> Location]
      /\ req \in [Thread -> Request] /\ route \in [Thread -> Route] /\ reply \in [Thread -> Reply]
      /\ NoServer \notin Server
  BY MarkAssumption DEF KInv, IInv, TypeOK
<1>1. /\ UNCHANGED <<disk, trie, paths, online, state, registering>>
      /\ pc[t] # "unlink" /\ pc'[t] # "unlink"
      /\ \A u \in Thread \ {t} : /\ conn'[u] = conn[u] /\ pc'[u] = pc[u] /\ req'[u] = req[u]
                                 /\ route'[u] = route[u] /\ reply'[u] = reply[u]
  BY <1>0 DEF Receive, Fill, ReadBack, AnswerDirectly, Forward, ForwardFails, diskVars, indexVars,
              registryVars
<1>2. ~Reported(t)
  BY DEF KInv, IInv, Waiting, Reported, Receive, Fill, ReadBack, AnswerDirectly, Forward, ForwardFails
<1>3. ~Reported(t)'
  BY <1>0, <1>2 DEF Reported, Receive, Fill, ReadBack, AnswerDirectly, Forward, ForwardFails, Closed
<1>4. reply'[t] # "success" \/ pc'[t] \notin {"idle", "unlink"}
  BY <1>0 DEF Receive, Fill, ReadBack, AnswerDirectly, Forward, ForwardFails, Routed
<1> QED
  BY <1>1, <1>2, <1>3, <1>4 DEF Proceeds, Told

LEMMA ServerExecutes ==
  ASSUME KInv, NEW s \in Server, SSExecute(s)
  PROVE  \E t \in Thread : Executes(s, t)
<1>1. PICK t \in Thread : t = Head(queue[s]) /\ route[t] = s
  BY ExecutesKnown DEF KInv, IInv
<1>2. conn[t].stage = "queued" /\ pc[t] = "waiting"
  BY <1>1 DEF SSExecute, KInv, IInv, Waiting
<1>3. /\ disk' = [disk EXCEPT ![s] = DiskAfter(disk[s], req[t])]
      /\ conn' = [conn EXCEPT ![t] = Executed(disk[s], req[t])]
      /\ UNCHANGED <<trie, paths, pc, req, route, reply, online, state, registering>>
  BY <1>1 DEF SSExecute, indexVars, registryVars
<1>4. /\ conn'[t] = Executed(disk[s], req[t])
      /\ \A u \in Thread \ {t} : conn'[u] = conn[u]
  BY <1>3 DEF KInv, IInv, TypeOK
<1>5. Serving(s)
  BY DEF SSExecute, Serving
<1>6. req[t].arg \in Known(s)
  <2>1. req[t].arg \in RoutedTo(s)
    BY <1>1, <1>2 DEF RoutedTo
  <2> QED
    BY <1>5, <2>1 DEF KInv, IInv, RoutesKnown
<1> QED
  BY <1>1, <1>2, <1>3, <1>4, <1>5, <1>6 DEF Executes, Reported

(* Every step is of one of these kinds, a registration, a merge or an      *)
(* unlink.                                                                 *)
LEMMA StepKinds ==
  ASSUME KInv, Unlinking, [Next]_vars
  PROVE  \/ Conveys
         \/ \E s \in Server : RegisterServer(s) \/ \E t \in Thread : Executes(s, t)
         \/ \E t \in Thread : Proceeds(t) \/ Merge(t) \/ Unlink(t)
<1>1. CASE UNCHANGED vars
  BY <1>1 DEF vars, Conveys, Serving, Reported
<1>2. CASE ServersStep
  <2>1. ASSUME AckServer \/ AckFails PROVE Conveys
    BY <2>1, ServersConvey, ServiceAssumption
  <2>2. ASSUME NEW s \in Server, \/ SSStart(s) \/ SSListen(s) \/ SSStop(s) \/ RegisterUnheard(s)
                                \/ ServerStep(s) \/ RegisterServer(s) \/ RefuseServer(s)
        PROVE  Conveys \/ RegisterServer(s) \/ \E t \in Thread : Executes(s, t)
    BY <2>2, StopConveys, SendConveys, ServersConvey, ServerExecutes DEF ServerStep
  <2> QED
    BY <1>2, <2>1, <2>2 DEF ServersStep, ListenerStep
<1>3. ASSUME NEW t \in Thread,
             (\E r \in Request : Receive(t, r)) \/ ThreadStep(t)
      PROVE  Proceeds(t) \/ Merge(t) \/ Unlink(t)
  BY <1>3, ThreadProceeds DEF ThreadStep
<1> QED
  BY <1>1, <1>2, <1>3 DEF Next

(* Who serves after a step served before it, or has just been registered.  *)
LEMMA ServedBefore ==
  ASSUME KInv, [Next]_vars
  PROVE  /\ online \subseteq online' /\ StayOut /\ Processes'
         /\ \A s \in Server : Serving(s)' => Serving(s) \/ (s \notin online /\ s \in online')
         /\ \A s \in Server : Serving(s) => s \in online
         /\ \A s \in online : Serving(s)' => Serving(s)
<1>1. ProcessesKept /\ online \subseteq Server
  BY ProcessStep DEF KInv, IInv, TypeOK
<1> QED
  BY <1>1 DEF ProcessesKept, StayOut, Processes, KInv, IInv

(* Who is lost stays lost.                                                 *)
LEMMA LostForGood ==
  ASSUME KInv, [Next]_vars, AllServing'
  PROVE  AllServing
  BY ServedBefore DEF AllServing, StayOut, KInv, IInv, TypeOK

-----------------------------------------------------------------------------
(* Directories of a path, and the disks that have them.                    *)

(* A directory on the way to the directory of a text is on the way to the  *)
(* text, or is that directory.                                             *)
LEMMA WayToDir ==
  ASSUME NEW t \in Text, NEW q \in DirsOf(DirText(t)), q # DirText(t)
  PROVE  q \in OnTheWay(t)
<1>1. t \in Seq(Char) /\ q \in Seq(Char) /\ q \in Text /\ Slash \in Char /\ IsDirText(q) /\ Len(t) \in Nat
  BY TextAssumption DEF DirsOf
<1>2. CASE IsDirText(t)
  BY <1>2 DEF DirText, OnTheWay
<1>3. CASE ~IsDirText(t)
  <2>1. DirText(t) = Append(t, Slash) /\ DirText(t) \in Seq(Char)
    BY <1>1, <1>3 DEF DirText
  <2>2. /\ Len(DirText(t)) = Len(t) + 1
        /\ \A i \in 1..Len(t) : DirText(t)[i] = t[i]
    BY <1>1, <2>1, AppendProperties
  <2>3. Len(q) <= Len(DirText(t)) /\ \A i \in 1..Len(q) : q[i] = DirText(t)[i]
    BY <1>1, <2>1, PrefixByCharacter DEF DirsOf
  <2>4. Len(q) # Len(DirText(t))
    BY <1>1, <2>1, <2>3, SeqEqual
  <2>5. Len(q) \in Nat
    BY <1>1
  <2>6. Len(q) <= Len(t) /\ \A i \in 1..Len(q) : q[i] = t[i]
    BY <1>1, <2>2, <2>3, <2>4, <2>5
  <2>7. IsPrefix(q, t)
    BY <1>1, <2>6, PrefixByCharacter
  <2> QED
    BY <1>1, <1>3, <2>7 DEF OnTheWay, DirsOf
<1> QED
  BY <1>2, <1>3

(* What is inside a directory on the way to a text lies on the way to it.  *)
LEMMA WayTransitive ==
  ASSUME NEW p \in Text, NEW q \in DirsOf(p)
  PROVE  DirsOf(q) \subseteq DirsOf(p)
  BY TextIsSeq, PrefixTransitive DEF DirsOf

(* An operation keeps the directories of what it keeps or makes.           *)
LEMMA StaysClosed ==
  ASSUME NEW d \in SUBSET Text, \A p \in d : DirsOf(p) \subseteq d, NEW r \in Request
  PROVE  \A p \in DiskAfter(d, r) : DirsOf(p) \subseteq DiskAfter(d, r)
<1>0. Below(r) \in Text /\ DirText(Below(r)) \in Text
  BY ServiceAssumption, RootIsText DEF Below
<1>1. CASE r.type = "CREATE_FILE"
  BY <1>1 DEF DiskAfter, CanCreateFile, Parents, DirsOf
<1>2. CASE r.type = "CREATE_DIR"
  <2>1. CanCreateDir(d, Below(r)) => DirsOf(DirText(Below(r))) \subseteq d \union {DirText(Below(r))}
    BY <1>0, WayToDir DEF CanCreateDir, Parents, OnTheWay
  <2> QED
    BY <1>2, <2>1 DEF DiskAfter
<1>3. CASE r.type = "DELETE_FILE"
  <2>1. \A u \in Removable(d, Below(r)), p \in d \ Removable(d, Below(r)) : u \notin DirsOf(p)
    BY DEF Removable, Inside, DirsOf
  <2> QED
    BY <1>3, <2>1 DEF DiskAfter
<1>4. CASE r.type \notin {"CREATE_FILE", "CREATE_DIR", "DELETE_FILE"}
  BY <1>4 DEF DiskAfter
<1> QED
  BY <1>1, <1>2, <1>3, <1>4

LEMMA ClosedStep ==
  ASSUME KInv, Unlinking, ClosedDisks, [Next]_vars
  PROVE  ClosedDisks'
<1>1. ASSUME disk' = disk PROVE ClosedDisks'
  BY <1>1 DEF ClosedDisks
<1>2. ASSUME NEW s \in Server, NEW t \in Thread, Executes(s, t) PROVE ClosedDisks'
  <2>1. disk[s] \in SUBSET Text /\ req[t] \in Request /\ disk \in [Server -> SUBSET Text]
    BY DEF KInv, IInv, TypeOK
  <2>2. \A p \in DiskAfter(disk[s], req[t]) : DirsOf(p) \subseteq DiskAfter(disk[s], req[t])
    BY <2>1, StaysClosed DEF ClosedDisks
  <2> QED
    BY <1>2, <2>1, <2>2 DEF Executes, ClosedDisks
<1> QED
  BY <1>1, <1>2, StepKinds DEF Conveys, Proceeds, RegisterServer, Merge, Unlink, diskVars

(* -1 is only written by an unlink.                                        *)
LEMMA BlocksStep ==
  ASSUME KInv, Unlinking, Blocks, [Next]_vars
  PROVE  Blocks'
<1>1. ASSUME trie' = trie PROVE Blocks'
  BY <1>1 DEF Blocks
<1>2. ASSUME NEW s \in Server, NEW ps, trie' = InsertAll(trie, ps, s) PROVE Blocks'
  BY <1>2, MarkAssumption DEF Blocks, InsertAll
<1>3. ASSUME NEW t \in Thread, Unlink(t) PROVE Blocks'
  <2>1. /\ req[t] \in Request /\ Unlinks(req[t]) /\ trie \in [Text -> Mark]
        /\ req[t].arg \in Text \union {NoText}
    BY <1>3, ServiceAssumption DEF KInv, IInv, TypeOK, Unlinking, Unlink
  <2>2. \A p \in Text : trie'[p] = NoServer => trie[p] = NoServer \/ p = req[t].arg
    BY <1>3, <2>1 DEF Unlink, delete_from_trie
  <2> QED
    BY <2>1, <2>2 DEF Blocks
<1>4. ASSUME NEW t \in Thread, Merge(t) PROVE Blocks'
  <2>1. route[t] \in Server
    BY <1>4 DEF KInv, IInv, Outcomes, OutcomeOf, TypeOK, Merge
  <2> QED
    BY <1>2, <1>4, <2>1 DEF Merge
<1> QED
  BY <1>1, <1>2, <1>3, <1>4, StepKinds DEF Conveys, Executes, Proceeds, RegisterServer

LEMMA UnlinkingStep ==
  ASSUME KInv, Unlinking, [Next]_vars
  PROVE  Unlinking'
<1>0. /\ online \subseteq online' /\ pc \in [Thread -> Location]
      /\ reply \in [Thread -> Reply]
  BY ServedBefore DEF KInv, IInv, TypeOK
<1>1. ASSUME UNCHANGED <<pc, req, route, reply>> PROVE Unlinking'
  BY <1>0, <1>1 DEF Unlinking, Told
<1>2. ASSUME NEW t \in Thread, Proceeds(t) PROVE Unlinking'
  BY <1>0, <1>2 DEF Unlinking, Told, Proceeds
<1>3. ASSUME NEW t \in Thread, Merge(t) PROVE Unlinking'
  <2>1. route[t] \in online /\ UNCHANGED <<req, route>>
        /\ pc'[t] = (IF Unlinks(req[t]) THEN "unlink" ELSE "idle")
        /\ \A u \in Thread \ {t} : pc'[u] = pc[u] /\ reply'[u] = reply[u]
    BY <1>0, <1>3 DEF KInv, IInv, Outcomes, OutcomeOf, Merge
  <2> QED
    BY <1>0, <2>1 DEF Unlinking, Told
<1>4. ASSUME NEW t \in Thread, Unlink(t) PROVE Unlinking'
  BY <1>0, <1>4 DEF Unlinking, Told, Unlink
<1> QED
  BY <1>1, <1>2, <1>3, <1>4, StepKinds DEF Conveys, Executes, RegisterServer, threadVars

-----------------------------------------------------------------------------
(* Listings are fresh.                                                     *)

LEMMA FreshStep ==
  ASSUME Alone, OneInv, [Next]_vars
  PROVE  FreshLists' /\ FreshPaths'
<1> USE DEF OneInv
<1>0. /\ disk \in [Server -> SUBSET Text] /\ paths \in [Server -> SUBSET Text]
      /\ route \in [Thread -> Route] /\ online \subseteq Server
      /\ \A s \in online : Serving(s)' => Serving(s)
      /\ \A s \in Server : Serving(s) => s \in online
      /\ \A t \in Thread : Reported(t) => route[t] \in online
  BY ServedBefore DEF KInv, IInv, TypeOK, Waiting, Outcomes, OutcomeOf, Reported
<1>1. CASE Conveys
  <2>1. FreshLists'
    <3> SUFFICES ASSUME NEW t \in Thread, Reported(t)', Serving(route[t])'
                 PROVE  conn'[t].list = Listing(disk[route[t]]) /\ conn'[t].ack # "none"
      BY <1>1 DEF FreshLists, Conveys
    <3>1. Reported(t) /\ conn'[t].list = conn[t].list /\ conn'[t].ack = conn[t].ack
      BY <1>1 DEF Conveys
    <3>2. Serving(route[t])
      BY <1>0, <1>1, <3>1 DEF Conveys
    <3> QED
      BY <3>1, <3>2 DEF FreshLists
  <2>2. FreshPaths'
    <3> SUFFICES ASSUME NEW s \in Server, Serving(s)'
                 PROVE  \/ paths'[s] = Listing(disk[s])
                        \/ \E t \in Thread : Reported(t)' /\ route[t] = s
      BY <1>1 DEF FreshPaths, Conveys
    <3>1. Serving(s) /\ paths'[s] = paths[s]
      BY <1>1 DEF Conveys
    <3>2. ASSUME NEW t \in Thread, Reported(t), route[t] = s
          PROVE  Reported(t)'
      BY <1>1, <3>2 DEF Conveys
    <3> QED
      BY <3>1, <3>2 DEF FreshPaths
  <2> QED
    BY <2>1, <2>2
<1>2. ASSUME NEW s \in Server, RegisterServer(s) PROVE FreshLists' /\ FreshPaths'
  <2>1. /\ s \notin online /\ UNCHANGED <<disk, conn, route>>
        /\ paths' = [paths EXCEPT ![s] = Listing(disk[s])]
        /\ \A t \in Thread : Reported(t)' = Reported(t)
    BY <1>2 DEF RegisterServer, Announced, diskVars, threadVars, Reported
  <2>2. \A u \in Server \ {s} : Serving(u)' => Serving(u)
    BY <1>2 DEF RegisterServer, Serving, diskVars
  <2> QED
    BY <1>0, <2>1, <2>2 DEF FreshLists, FreshPaths
<1>3. ASSUME NEW s \in Server, NEW t \in Thread, Executes(s, t) PROVE FreshLists' /\ FreshPaths'
  <2>1. /\ disk'[s] = DiskAfter(disk[s], req[t]) /\ \A u \in Server \ {s} : disk'[u] = disk[u]
        /\ conn'[t] = Executed(disk[s], req[t])
        /\ Executed(disk[s], req[t]).list = Listing(disk'[s])
        /\ Executed(disk[s], req[t]).ack # "none"
        /\ Executed(disk[s], req[t]).stage = "done"
        /\ route[t] = s /\ UNCHANGED <<route, paths>> /\ ~Reported(t)
    BY <1>0, <1>3 DEF Executes, Executed, Outcome
  <2>2. \A u \in Server : Serving(u)' = Serving(u)
    BY <1>3 DEF Executes, Serving
  <2>3. \A u \in Thread : u = t
    BY DEF Alone
  <2>4. FreshLists'
    BY <2>1, <2>3 DEF FreshLists
  <2>5. Reported(t)'
    BY <2>1 DEF Reported
  <2> QED
    BY <2>1, <2>2, <2>3, <2>4, <2>5 DEF FreshPaths
<1>4. ASSUME NEW t \in Thread, Proceeds(t) PROVE FreshLists' /\ FreshPaths'
  <2>1. /\ UNCHANGED <<disk, paths>> /\ ~Reported(t) /\ ~Reported(t)'
        /\ \A u \in Thread \ {t} : /\ Reported(u)' = Reported(u)
                                   /\ conn'[u] = conn[u] /\ route'[u] = route[u]
    BY <1>4 DEF Proceeds, Reported
  <2>2. \A u \in Server : Serving(u)' = Serving(u)
    BY <1>4 DEF Proceeds, Serving
  <2> QED
    BY <1>0, <2>1, <2>2 DEF FreshLists, FreshPaths
<1>5. ASSUME NEW t \in Thread, Merge(t) PROVE FreshLists' /\ FreshPaths'
  <2>1. /\ UNCHANGED <<disk, route>> /\ ~Reported(t)' /\ route[t] \in online
        /\ \A u \in Thread \ {t} : conn'[u] = conn[u]
        /\ paths' = [paths EXCEPT ![route[t]] = Details(t)]
    BY <1>5 DEF Merge, diskVars, Closed, Reported, KInv, IInv, TypeOK, Outcomes, OutcomeOf
  <2>2. \A u \in Server : Serving(u)' = Serving(u)
    BY <1>5 DEF Merge, Serving, diskVars, registryVars
  <2>3. Serving(route[t]) => Details(t) = Listing(disk[route[t]])
    BY <1>5 DEF Merge, Details, KInv, IInv, Outcomes, OutcomeOf, FreshLists, Reported
  <2>4. \A u \in Thread \ {t} : Reported(u)' = Reported(u)
    BY <2>1 DEF Reported
  <2>5. FreshLists'
    BY <1>0, <2>1, <2>2, <2>4 DEF FreshLists
  <2>6. FreshPaths'
    BY <1>0, <2>1, <2>2, <2>3, <2>4 DEF FreshPaths
  <2> QED
    BY <2>5, <2>6
<1>6. ASSUME NEW t \in Thread, Unlink(t) PROVE FreshLists' /\ FreshPaths'
  <2>1. UNCHANGED <<disk, paths, conn, route, state, registering>>
    BY <1>6 DEF Unlink, diskVars, registryVars
  <2> QED
    BY <2>1 DEF FreshLists, FreshPaths, Reported, Serving
<1> QED
  BY <1>1, <1>2, <1>3, <1>4, <1>5, <1>6, StepKinds

LEMMA OneInit == Init => OneInv
<1> SUFFICES ASSUME Init PROVE OneInv
  OBVIOUS
<1>1. KInv
  BY InitInvariant, InitKnown DEF KInv
<1>2. FreshLists /\ FreshPaths
  BY DEF Init, FreshLists, FreshPaths, Reported, Closed, Serving
<1>3. Unlinking /\ Blocks
  BY MarkAssumption DEF Init, Unlinking, Told, Blocks, EmptyTrie
<1>4. ClosedDisks
  BY ServiceAssumption DEF Init, ClosedDisks
<1> QED
  BY <1>1, <1>2, <1>3, <1>4 DEF OneInv

LEMMA OneStep == Alone /\ OneInv /\ [Next]_vars => OneInv'
<1> SUFFICES ASSUME Alone, OneInv, [Next]_vars PROVE OneInv'
  OBVIOUS
<1>1. KInv'
  BY KnownStep DEF OneInv
<1>2. Unlinking' /\ Blocks' /\ ClosedDisks'
  BY UnlinkingStep, BlocksStep, ClosedStep DEF OneInv
<1> QED
  BY <1>1, <1>2, FreshStep DEF OneInv

(* With one client thread, whatever servers stop and register: between two *)
(* requests the naming server's paths of a running server are what is on   *)
(* its disk (nm_helper.c:141).                                             *)
THEOREM OneListingFresh == ASSUME Alone PROVE Spec => []ListingFresh
<1>1. OneInv => ListingFresh
  <2> SUFFICES ASSUME OneInv, NEW s \in Server, Quiet, state[s] = "up"
               PROVE  paths[s] = Listing(disk[s])
    BY DEF ListingFresh
  <2>1. Serving(s)
    BY DEF Serving
  <2>2. \A t \in Thread : ~Reported(t)
    BY DEF OneInv, KInv, IInv, Waiting, Quiet, Reported
  <2> QED
    BY <2>1, <2>2 DEF OneInv, FreshPaths
<1>2. OneInv /\ [Next]_vars => OneInv'
  BY OneStep
<1> QED
  BY <1>1, <1>2, OneInit, PTL DEF Spec

-----------------------------------------------------------------------------
(* Files are found.                                                        *)

(* A loop of insertions marks of the files those it is given.              *)
LEMMA InsertFile ==
  ASSUME NEW tr, NEW ps \in SUBSET Text, NEW s, NEW p \in Text, ~IsDirText(p)
  PROVE  InsertAll(tr, ps, s)[p] = IF p \in ps THEN s ELSE tr[p]
  BY DEF InsertAll, MarkedBy, DirsOf

(* A listing has every file.                                               *)
LEMMA FilesListed ==
  ASSUME NEW d \in SUBSET Text, NEW p \in d, ~IsDirText(p)
  PROVE  p \in Listing(d)
  BY DEF Listing, Root, IsDirText

(* What merges do: for a running server its listing is inserted.           *)
LEMMA MergeFacts ==
  ASSUME OneInv, NEW t \in Thread, Merge(t)
  PROVE  /\ route[t] \in online /\ route[t] \in Server /\ Details(t) \in SUBSET Text
         /\ trie' = InsertAll(trie, Details(t), route[t])
         /\ UNCHANGED <<disk, online, state, registering, req, route>>
         /\ ~Reported(t)' /\ \A u \in Thread \ {t} : /\ conn'[u] = conn[u] /\ pc'[u] = pc[u]
                                                    /\ reply'[u] = reply[u]
         /\ pc'[t] = IF Unlinks(req[t]) THEN "unlink" ELSE "idle"
         /\ Serving(route[t]) =>
              /\ Reported(t) /\ conn[t].stage = "sent"
              /\ Details(t) = Listing(disk[route[t]]) /\ Acknowledged(t) = {conn[t].ack}
<1>1. route[t] \in online /\ route[t] \in Server /\ Details(t) \in SUBSET Text
  BY DEF Merge, Details, OneInv, KInv, IInv, TypeOK, Outcomes, OutcomeOf, Conn
<1>2. /\ UNCHANGED <<disk, online, state, registering, req, route>>
      /\ trie' = InsertAll(trie, Details(t), route[t])
      /\ pc'[t] = IF Unlinks(req[t]) THEN "unlink" ELSE "idle"
      /\ ~Reported(t)' /\ \A u \in Thread \ {t} : /\ conn'[u] = conn[u] /\ pc'[u] = pc[u]
                                                 /\ reply'[u] = reply[u]
  BY DEF Merge, diskVars, registryVars, OneInv, KInv, IInv, TypeOK, Closed, Reported
<1>3. Serving(route[t]) => conn[t].stage = "sent"
  BY DEF Merge, OneInv, KInv, IInv, Outcomes, OutcomeOf
<1>4. conn[t].stage = "sent" /\ Serving(route[t])
        => /\ Reported(t) /\ Details(t) = Listing(disk[route[t]])
           /\ Acknowledged(t) = {conn[t].ack}
  BY DEF OneInv, FreshLists, Reported, Details, Acknowledged
<1> QED
  BY <1>1, <1>2, <1>3, <1>4

(* A deleted file is off the disk, and off no other server's.              *)
LEMMA FilesGoneStep ==
  ASSUME Alone, OneInv, FilesGone, [Next]_vars
  PROVE  FilesGone'
<1> SUFFICES ASSUME NEW t \in Thread, Finishing(t)', req'[t].type = "DELETE_FILE",
                    Serving(route[t])', ~IsDirText(req'[t].arg)
             PROVE  req'[t].arg \in Known(route'[t]) /\ req'[t].arg \notin disk'[route'[t]]
  BY DEF FilesGone
<1>0. /\ disk \in [Server -> SUBSET Text] /\ online \subseteq Server
      /\ \A s \in online : Serving(s)' => Serving(s)
      /\ \A u \in Thread : u = t
      /\ Finishing(t) => route[t] \in online
  BY ServedBefore DEF OneInv, KInv, IInv, TypeOK, Unlinking, Waiting, Outcomes, OutcomeOf, Finishing,
                      Reported, Alone
<1>1. ASSUME UNCHANGED <<disk, req, route>>, Finishing(t)
      PROVE  req'[t].arg \in Known(route'[t]) /\ req'[t].arg \notin disk'[route'[t]]
  BY <1>0, <1>1 DEF FilesGone
<1>2. CASE Conveys
  BY <1>1, <1>2 DEF Conveys, Finishing
<1>3. ASSUME NEW s \in Server, RegisterServer(s) PROVE UNCHANGED <<disk, req, route>> /\ Finishing(t)
  BY <1>3 DEF RegisterServer, diskVars, threadVars, Finishing, Reported
<1>4. ASSUME NEW s \in Server, Executes(s, t)
      PROVE  req'[t].arg \in Known(route'[t]) /\ req'[t].arg \notin disk'[route'[t]]
  <2>1. /\ route'[t] = s /\ req' = req /\ req[t].arg \in Known(s)
        /\ disk'[s] = DiskAfter(disk[s], req[t])
    BY <1>0, <1>4 DEF Executes
  <2>2. req[t].arg \notin DiskAfter(disk[s], req[t])
    BY <2>1, KnownArgument DEF DiskAfter, Removable
  <2> QED
    BY <2>1, <2>2
<1>5. CASE Proceeds(t)
  BY <1>5 DEF Proceeds, Finishing
<1>6. CASE Merge(t)
  <2>1. Finishing(t)
    BY <1>0, <1>6, MergeFacts DEF Finishing
  <2> QED
    BY <1>1, <1>6, <2>1, MergeFacts
<1>7. CASE Unlink(t)
  BY <1>7 DEF Unlink, Finishing, Reported, OneInv, KInv, IInv, TypeOK, Waiting
<1> QED
  BY <1>0, <1>1, <1>2, <1>3, <1>4, <1>5, <1>6, <1>7, StepKinds DEF OneInv

LEMMA FilesMarkedStep ==
  ASSUME Alone, UniqueFiles, DirsByText, OneInv, FilesGone, FilesMarked, [Next]_vars
  PROVE  FilesMarked'
<1> SUFFICES ASSUME AllServing', NEW s \in Server, NEW p \in disk'[s], Serving(s)', ~IsDirText(p)
             PROVE  trie'[p] = s \/ Reporting(s)'
  BY DEF FilesMarked
<1>0. /\ disk \in [Server -> SUBSET Text] /\ trie \in [Text -> Mark] /\ online \subseteq Server
      /\ AllServing
      /\ \A u \in online : Serving(u)' => Serving(u)
      /\ \A u \in Server : Serving(u) => u \in online
      /\ \A u \in Server : disk[u] \subseteq Known(u)
  BY ServedBefore, LostForGood DEF OneInv, KInv, IInv, TypeOK, RoutesKnown
<1>1. ASSUME p \in disk[s], Serving(s) PROVE p \in Known(s) /\ p \in Text /\ (trie[p] = s \/ Reporting(s))
  BY <1>0, <1>1 DEF FilesMarked
<1>2. CASE Conveys
  <2>1. Serving(s) /\ p \in disk[s] /\ trie'[p] = trie[p]
    BY <1>2 DEF Conveys
  <2>2. Reporting(s) => Reporting(s)'
    BY <1>2 DEF Conveys, Reporting
  <2> QED
    BY <1>1, <2>1, <2>2
<1>3. ASSUME NEW u \in Server, RegisterServer(u) PROVE trie'[p] = s \/ Reporting(s)'
  <2>1. /\ trie' = InsertAll(trie, Listing(disk[u]), u) /\ p \in disk[s] /\ p \in Text
        /\ Listing(disk[u]) \in SUBSET Text /\ Listing(disk[u]) \subseteq Known(u)
    BY <1>0, <1>3 DEF RegisterServer, diskVars, Listing
  <2>2. trie'[p] = IF p \in Listing(disk[u]) THEN u ELSE trie[p]
    BY <2>1, InsertFile
  <2>3. CASE s = u
    BY <1>0, <2>1, <2>2, <2>3, FilesListed
  <2>4. CASE s # u
    <3>1. Serving(s)
      BY <1>3, <2>4 DEF RegisterServer, Serving, diskVars
    <3>2. trie'[p] = trie[p]
      BY <1>1, <2>1, <2>2, <2>4, <3>1 DEF UniqueFiles
    <3>3. Reporting(s) => Reporting(s)'
      BY <1>3 DEF RegisterServer, threadVars, Reporting, Reported
    <3> QED
      BY <1>1, <2>1, <3>1, <3>2, <3>3
  <2> QED
    BY <2>3, <2>4
<1>4. ASSUME NEW u \in Server, NEW t \in Thread, Executes(u, t) PROVE trie'[p] = s \/ Reporting(s)'
  <2>1. CASE s = u
    BY <1>4, <2>1 DEF Executes, Executed, Outcome, Reporting, Reported
  <2>2. CASE s # u
    <3>1. Serving(s) /\ p \in disk[s] /\ trie' = trie
      BY <1>0, <1>4, <2>2 DEF Executes, Serving
    <3>2. Reporting(s) => Reporting(s)'
      BY <1>4, <2>2 DEF Executes, Reporting, Reported
    <3> QED
      BY <1>1, <3>1, <3>2
  <2> QED
    BY <2>1, <2>2
<1>5. ASSUME NEW t \in Thread, Proceeds(t) PROVE trie'[p] = s \/ Reporting(s)'
  <2>1. Serving(s) /\ p \in disk[s] /\ trie' = trie
    BY <1>5 DEF Proceeds, Serving
  <2>2. Reporting(s) => Reporting(s)'
    BY <1>5 DEF Proceeds, Reporting, Reported
  <2> QED
    BY <1>1, <2>1, <2>2
<1>6. ASSUME NEW t \in Thread, Merge(t) PROVE trie'[p] = s \/ Reporting(s)'
  <2> DEFINE u == route[t]
  <2>1. /\ u \in Server /\ Serving(u) /\ Serving(s)
        /\ trie' = InsertAll(trie, Listing(disk[u]), u) /\ p \in disk[s] /\ p \in Text
        /\ Listing(disk[u]) \in SUBSET Text /\ Listing(disk[u]) \subseteq Known(u)
    <3>1. Serving(u)
      BY <1>0, <1>6, MergeFacts DEF AllServing
    <3>2. Serving(s)
      BY <1>6, MergeFacts DEF Serving
    <3> QED
      BY <1>0, <1>6, <3>1, <3>2, MergeFacts DEF Listing
  <2>2. trie'[p] = IF p \in Listing(disk[u]) THEN u ELSE trie[p]
    BY <2>1, InsertFile
  <2>3. CASE s = u
    BY <1>0, <2>1, <2>2, <2>3, FilesListed
  <2>4. CASE s # u
    <3>1. trie'[p] = trie[p]
      BY <1>1, <2>1, <2>2, <2>4 DEF UniqueFiles
    <3>2. Reporting(s) => Reporting(s)'
      BY <1>6, <2>4, MergeFacts DEF Reporting, Reported
    <3> QED
      BY <1>1, <2>1, <3>1, <3>2
  <2> QED
    BY <2>3, <2>4
<1>7. ASSUME NEW t \in Thread, Unlink(t) PROVE trie'[p] = s \/ Reporting(s)'
  <2> DEFINE q == req[t].arg
  <2>1. /\ UNCHANGED <<disk, conn, route, state, registering>> /\ Serving(s) /\ p \in disk[s]
        /\ pc[t] = "unlink"
        /\ trie' = IF q = NoText THEN trie ELSE delete_from_trie(trie, q)
        /\ req[t] \in Request /\ q \in Text \union {NoText}
    BY <1>7, ServiceAssumption DEF Unlink, diskVars, registryVars, Serving, OneInv, KInv, IInv, TypeOK
  <2>2. Unlinks(req[t]) /\ route[t] \in Server /\ Serving(route[t])
    BY <1>0, <2>1 DEF OneInv, Unlinking, AllServing
  <2>3. p # q
    <3>1. CASE req[t].type = "DELETE_DIR"
      BY <1>1, <2>1, <3>1, ServiceAssumption DEF DirsByText
    <3>2. CASE req[t].type = "DELETE_FILE"
      <4> SUFFICES ASSUME p = q PROVE FALSE
        OBVIOUS
      <4>1. q \in Known(route[t]) /\ q \notin disk[route[t]]
        BY <2>1, <2>2, <3>2 DEF FilesGone, Finishing
      <4> QED
        BY <1>1, <2>1, <2>2, <4>1 DEF UniqueFiles
    <3> QED
      BY <2>2, <3>1, <3>2 DEF Unlinks
  <2>4. trie'[p] = trie[p]
    BY <1>0, <1>1, <2>1, <2>3 DEF delete_from_trie
  <2>5. Reporting(s) => Reporting(s)'
    BY <2>1 DEF Reporting, Reported
  <2> QED
    BY <1>1, <2>1, <2>4, <2>5
<1> QED
  BY <1>2, <1>3, <1>4, <1>5, <1>6, <1>7, StepKinds DEF OneInv

(* What blocks the search for a file that is marked for a server is a      *)
(* directory on its way.                                                   *)
LEMMA DirsBlock ==
  ASSUME NamesApart, OneInv, NEW s \in Server, NEW p \in Text, ~IsDirText(p), trie[p] = s
  PROVE  search_trie(trie, p) = s \/ \E q \in DirsOf(p) : trie[q] = NoServer
<1>1. s # NoServer /\ s # Unmarked
  BY MarkAssumption
<1>2. ASSUME NEW q \in BlockedBy(trie, p) PROVE q \in DirsOf(p) /\ trie[q] = NoServer
  <2>1. q \in Text /\ IsPrefix(q, p) /\ trie[q] = NoServer /\ q # NoText
    BY <1>2, ServiceAssumption DEF BlockedBy
  <2>2. PICK r \in Request : Unlinks(r) /\ r.arg = q
    BY <2>1 DEF OneInv, Blocks
  <2>3. ~IsDirText(q) => p = q
    BY <2>1, <2>2 DEF NamesApart
  <2> QED
    BY <1>1, <2>1, <2>3 DEF DirsOf
<1> QED
  BY <1>1, <1>2 DEF search_trie

(* With one client thread, unique files, directories deleted by their own  *)
(* text and files of which none that is deleted starts another's text:     *)
(* while no server is lost, every file of a running server is marked as    *)
(* its own between two requests, and only a directory on its way that was  *)
(* marked as deleted hides it (nm_helper.c:84-110, 130-145, 297, 437-448). *)
THEOREM OneFilesFound ==
  ASSUME Alone, UniqueFiles, DirsByText, NamesApart
  PROVE  Spec => []FilesFound
<1> DEFINE Inv == OneInv /\ FilesGone /\ FilesMarked
<1>1. Init => Inv
  <2>1. Init => FilesGone /\ FilesMarked
    BY DEF Init, FilesGone, FilesMarked, Finishing, Reported, Closed, Serving
  <2> QED
    BY <2>1, OneInit
<1>2. Inv /\ [Next]_vars => Inv'
  BY OneStep, FilesGoneStep, FilesMarkedStep
<1>3. Inv => FilesFound
  <2> SUFFICES ASSUME Inv, NEW s \in Server, NEW p \in disk[s],
                      Quiet, AllServing, state[s] = "up", ~IsDirText(p)
               PROVE  /\ trie[p] = s
                      /\ search_trie(trie, p) = s \/ \E q \in DirsOf(p) : trie[q] = NoServer
    BY DEF FilesFound
  <2>1. Serving(s) /\ p \in Text
    BY DEF Serving, OneInv, KInv, IInv, TypeOK
  <2>2. ~Reporting(s)
    BY DEF OneInv, KInv, IInv, Waiting, Quiet, Reporting, Reported
  <2>3. trie[p] = s
    BY <2>1, <2>2 DEF FilesMarked
  <2> QED
    BY <2>1, <2>3, DirsBlock
<1> QED
  BY <1>1, <1>2, <1>3, PTL DEF Spec

-----------------------------------------------------------------------------
(* Routed files exist.                                                     *)

(* Among texts that fit into a buffer there is a longest.                  *)
LEMMA LongestText ==
  ASSUME ShortTexts, NEW W \in SUBSET Text, W # {}
  PROVE  \E w \in W : \A v \in W : Len(v) <= Len(w)
<1>1. PICK n \in Nat : \A t \in Text : Len(t) <= n
  BY DEF ShortTexts
<1> DEFINE room(v) == n - Len(v)
           T == {room(v) : v \in W}
<1>2. \A v \in W : Len(v) \in Nat /\ room(v) \in Nat
  BY <1>1, TextIsSeq
<1>3. T \subseteq Nat /\ T # {}
  BY <1>2
<1>4. \E x \in T : \A y \in T : ~(<<y, x>> \in OpToRel(<, Nat))
  <2> HIDE DEF T
  <2> QED
    BY <1>3, WFMin, NatLessThanWellFounded
<1>5. PICK x \in T : \A y \in T : ~(y < x)
  BY <1>3, <1>4 DEF OpToRel
<1>6. PICK w \in W : x = room(w)
  BY <1>5
<1>7. \A v \in W : ~(room(v) < room(w))
  BY <1>5, <1>6
<1> QED
  BY <1>1, <1>2, <1>7

(* A directory of a disk is listed, or lies on the way to what is listed:  *)
(* the longest entry inside it.                                            *)
LEMMA DirsListed ==
  ASSUME ShortTexts, NEW d \in SUBSET Text, NEW q \in d, IsDirText(q), q # Root
  PROVE  \E w \in Listing(d) : q \in MarkedBy(w)
<1> DEFINE W == {w \in d \ {Root} : q \in DirsOf(w)}
<1>1. \A t \in Text : t \in Seq(Char) /\ Len(t) \in Nat /\ Len(t) # 0
  BY TextIsSeq, EmptySeq
<1>2. q \in W
  BY <1>1, PrefixByCharacter DEF DirsOf
<1>3. PICK w \in W : \A v \in W : Len(v) <= Len(w)
  BY <1>2, LongestText
<1>4. ASSUME IsDirText(w), NEW v \in Inside(d, w) PROVE FALSE
  <2>1. v \in d /\ v # w /\ w \in DirsOf(v) /\ v \in Text /\ w \in Text
    BY <1>3, <1>4 DEF Inside
  <2>2. q \in DirsOf(v)
    BY <1>3, <2>1, WayTransitive
  <2>3. Len(w) <= Len(v) /\ \A i \in 1..Len(w) : w[i] = v[i]
    BY <1>1, <2>1, PrefixByCharacter DEF DirsOf
  <2>4. Len(w) # Len(v)
    BY <1>1, <2>1, <2>3, SeqEqual
  <2>5. v # Root
    BY <1>1, <2>1, <2>3, <2>4 DEF Root
  <2> QED
    BY <1>1, <1>3, <2>1, <2>2, <2>3, <2>4, <2>5
<1>5. w \in Listing(d)
  BY <1>3, <1>4 DEF Listing
<1> QED
  BY <1>3, <1>5 DEF MarkedBy

(* The merge of a listing opens the way to what lies on that disk.         *)
LEMMA MergeOpens ==
  ASSUME RootKept, ShortTexts, OneInv, Blocks', NEW t \in Thread, Merge(t), Serving(route[t]),
         NEW p \in Text, OnTheWay(p) \subseteq disk[route[t]]
  PROVE  WayOpen(p)'
<1> SUFFICES ASSUME NEW q \in OnTheWay(p) PROVE trie'[q] # NoServer
  BY DEF WayOpen
<1>1. q \in Text /\ IsDirText(q) /\ q \in disk[route[t]] /\ disk[route[t]] \in SUBSET Text
  BY MergeFacts DEF OnTheWay, DirsOf, OneInv, KInv, IInv, TypeOK
<1>2. CASE q = Root
  BY <1>1, <1>2 DEF RootKept, Blocks
<1>3. CASE q # Root
  <2>1. \E w \in Listing(disk[route[t]]) : q \in MarkedBy(w)
    BY <1>1, <1>3, DirsListed
  <2>2. trie'[q] = route[t]
    BY <1>1, <2>1, MergeFacts DEF InsertAll
  <2> QED
    BY <2>2, MergeFacts, MarkAssumption
<1> QED
  BY <1>2, <1>3

(* Where the way is open, an unlink leaves no mark of a server.            *)
LEMMA UnlinkFinds ==
  ASSUME FilesApart, OneInv, NEW t \in Thread, Unlink(t), req[t].type = "DELETE_FILE",
         req[t].arg \in Text, WayOpen(req[t].arg)
  PROVE  trie'[req[t].arg] \in {NoServer, Unmarked}
<1> DEFINE p == req[t].arg
<1>1. /\ req[t] \in Request /\ p \in Text /\ NoText \notin Text /\ trie \in [Text -> Mark]
      /\ trie' = delete_from_trie(trie, p)
  BY ServiceAssumption DEF OneInv, KInv, IInv, TypeOK, Unlink
<1>2. ASSUME NEW q \in BlockedBy(trie, p) PROVE q = p
  <2>1. q \in Text /\ IsPrefix(q, p) /\ trie[q] = NoServer
    BY <1>2 DEF BlockedBy
  <2>2. CASE IsDirText(q)
    BY <2>1, <2>2 DEF WayOpen, OnTheWay, DirsOf
  <2>3. CASE ~IsDirText(q)
    BY <1>1, <2>1, <2>3 DEF OneInv, Blocks, FilesApart
  <2> QED
    BY <2>2, <2>3
<1>3. CASE BlockedBy(trie, p) = {}
  <2>1. CASE trie[p] \in {NoServer, Unmarked}
    BY <1>1, <1>3, <2>1 DEF delete_from_trie, search_trie
  <2>2. CASE trie[p] \notin {NoServer, Unmarked}
    BY <1>1, <1>3, <2>2 DEF delete_from_trie, search_trie
  <2> QED
    BY <2>1, <2>2
<1>4. CASE BlockedBy(trie, p) # {}
  <2>1. trie[p] = NoServer
    BY <1>2, <1>4 DEF BlockedBy
  <2> QED
    BY <1>1, <1>4, <2>1 DEF delete_from_trie, search_trie
<1> QED
  BY <1>3, <1>4

LEMMA MarksExistStep ==
  ASSUME Alone, RootKept, FilesApart, ShortTexts, OneInv, OneInv', MarksExist, [Next]_vars
  PROVE  MarksExist'
<1> SUFFICES ASSUME NEW s \in Server, NEW p \in Text, Serving(s)', trie'[p] = s, ~IsDirText(p)
             PROVE  p \in disk'[s] \/ \E t \in Thread : route'[t] = s /\ Deletes(t, p)'
  BY DEF MarksExist
<1>0. /\ disk \in [Server -> SUBSET Text] /\ trie \in [Text -> Mark] /\ online \subseteq Server
      /\ \A u \in Server : Serving(u) => u \in online
      /\ \A u \in online : Serving(u)' => Serving(u)
      /\ \A u \in Server : \A q \in disk[u] : DirsOf(q) \subseteq disk[u]
      /\ s # NoServer
  BY ServedBefore, MarkAssumption DEF OneInv, KInv, IInv, TypeOK, ClosedDisks
<1>1. ASSUME trie[p] = s, Serving(s)
      PROVE  p \in disk[s] \/ \E t \in Thread : route[t] = s /\ Deletes(t, p)
  BY <1>1 DEF MarksExist
<1>2. CASE Conveys
  <2>1. Serving(s) /\ trie[p] = s /\ UNCHANGED <<disk, route>>
    BY <1>2 DEF Conveys
  <2>2. ASSUME NEW t \in Thread, route[t] = s, Deletes(t, p) PROVE Deletes(t, p)'
    <3>1. Reported(t)' = Reported(t) /\ UNCHANGED <<disk, route, req, pc, trie>>
      BY <1>2, <2>1, <2>2 DEF Conveys
    <3> QED
      BY <2>2, <3>1 DEF Deletes, WayOpen
  <2> QED
    BY <1>1, <2>1, <2>2
<1>3. ASSUME NEW u \in Server, RegisterServer(u)
      PROVE  p \in disk'[s] \/ \E t \in Thread : route'[t] = s /\ Deletes(t, p)'
  <2>1. /\ trie' = InsertAll(trie, Listing(disk[u]), u) /\ u \notin online
        /\ UNCHANGED <<disk, req, route, pc, conn>>
        /\ Listing(disk[u]) \in SUBSET Text /\ Listing(disk[u]) \subseteq disk[u]
    BY <1>0, <1>3 DEF RegisterServer, Announced, diskVars, threadVars, Listing
  <2>2. trie'[p] = IF p \in Listing(disk[u]) THEN u ELSE trie[p]
    BY <2>1, InsertFile
  <2>3. CASE s = u
    <3>1. trie[p] # u
      BY <2>1, NobodyRouted DEF OneInv, KInv, IInv, RoutedTo
    <3> QED
      BY <2>1, <2>2, <2>3, <3>1
  <2>4. CASE s # u
    <3>1. Serving(s) /\ trie[p] = s
      BY <1>3, <2>2, <2>4 DEF RegisterServer, Serving, diskVars
    <3>2. ASSUME NEW t \in Thread, Deletes(t, p) PROVE Deletes(t, p)'
      <4>1. WayOpen(p) => WayOpen(p)'
        BY <2>1, MarkAssumption DEF WayOpen, OnTheWay, DirsOf, InsertAll
      <4> QED
        BY <2>1, <3>2, <4>1 DEF Deletes, Reported
    <3> QED
      BY <1>1, <2>1, <3>1, <3>2
  <2> QED
    BY <2>3, <2>4
<1>4. ASSUME NEW u \in Server, NEW t \in Thread, Executes(u, t)
      PROVE  p \in disk'[s] \/ \E v \in Thread : route'[v] = s /\ Deletes(v, p)'
  <2>1. /\ Serving(s) /\ trie[p] = s /\ route'[t] = u /\ req' = req
        /\ disk' = [disk EXCEPT ![u] = DiskAfter(disk[u], req[t])]
    BY <1>4 DEF Executes, Serving
  <2>2. p \in disk[s]
    <3>1. \A v \in Thread : ~Deletes(v, p)
      BY <1>4 DEF Alone, Executes, Deletes
    <3> QED
      BY <1>1, <2>1, <3>1
  <2>3. CASE s # u
    BY <1>0, <2>1, <2>2, <2>3
  <2>4. CASE s = u /\ p \notin disk'[s]
    <3>1. disk'[s] = DiskAfter(disk[s], req[t]) /\ req[t] \in Request /\ DirText(req[t].arg) \in Text
      BY <1>0, <1>4, <2>1, <2>4, KnownArgument, ServiceAssumption DEF Executes, OneInv, KInv, IInv, TypeOK
    <3>0. Below(req[t]) = req[t].arg
      BY <1>4, <2>4, KnownArgument DEF Executes
    <3>2. req[t].type = "DELETE_FILE" /\ p \in Removable(disk[s], req[t].arg)
      BY <2>2, <2>4, <3>0, <3>1 DEF DiskAfter
    <3>3. IsDirText(DirText(req[t].arg))
      BY <1>4, <2>4, KnownArgument, DirTextExtends DEF DirsOf, Executes
    <3>4. Removable(disk[s], req[t].arg) = {p} /\ p = req[t].arg
      BY <3>2, <3>3 DEF Removable
    <3>5. OnTheWay(p) \subseteq disk'[s]
      BY <1>0, <2>2, <3>0, <3>1, <3>2, <3>4 DEF OnTheWay, DiskAfter
    <3>6. Reported(t)'
      BY <1>4 DEF Executes, Executed, Outcome, Reported
    <3> QED
      BY <2>1, <2>4, <3>2, <3>4, <3>5, <3>6 DEF Deletes
  <2> QED
    BY <2>3, <2>4
<1>5. ASSUME NEW t \in Thread, Proceeds(t)
      PROVE  p \in disk'[s] \/ \E v \in Thread : route'[v] = s /\ Deletes(v, p)'
  <2>1. /\ Serving(s) /\ trie[p] = s /\ disk' = disk
        /\ \A v \in Thread : ~Deletes(v, p)
    BY <1>5 DEF Proceeds, Serving, Alone, Deletes
  <2> QED
    BY <1>1, <2>1
<1>6. ASSUME NEW t \in Thread, Merge(t)
      PROVE  p \in disk'[s] \/ \E v \in Thread : route'[v] = s /\ Deletes(v, p)'
  <2> DEFINE u == route[t]
  <2>1. /\ Serving(s) /\ disk' = disk /\ UNCHANGED <<req, route>>
        /\ trie'[p] = IF p \in Details(t) THEN u ELSE trie[p]
    BY <1>6, MergeFacts, InsertFile DEF Serving
  <2>2. CASE s = u /\ p \in Details(t)
    BY <1>6, <2>1, <2>2, MergeFacts DEF Listing
  <2>3. CASE ~(s = u /\ p \in Details(t))
    <3>1. p \in disk[s] \/ \E v \in Thread : route[v] = s /\ Deletes(v, p)
      BY <1>1, <2>1, <2>3
    <3>2. ASSUME NEW v \in Thread, route[v] = s, Deletes(v, p) PROVE Deletes(t, p)' /\ u = s
      <4>1. v = t /\ u = s
        BY <3>2 DEF Alone
      <4>2. pc[t] = "waiting"
        BY <1>6 DEF Merge
      <4>3. req[t].type = "DELETE_FILE" /\ req[t].arg = p /\ OnTheWay(p) \subseteq disk[u]
        BY <3>2, <4>1, <4>2 DEF Deletes
      <4>4. WayOpen(p)'
        BY <1>6, <2>1, <4>1, <4>3, MergeOpens DEF OneInv
      <4>5. pc'[t] = "unlink"
        BY <1>6, <4>3, MergeFacts DEF Unlinks
      <4> QED
        BY <2>1, <4>1, <4>3, <4>4, <4>5 DEF Deletes
    <3> QED
      BY <2>1, <3>1, <3>2
  <2> QED
    BY <2>2, <2>3
<1>7. ASSUME NEW t \in Thread, Unlink(t)
      PROVE  p \in disk'[s] \/ \E v \in Thread : route'[v] = s /\ Deletes(v, p)'
  <2>1. /\ UNCHANGED <<disk, route, state, registering>> /\ Serving(s)
        /\ pc[t] = "unlink"
    BY <1>7, ServiceAssumption DEF Unlink, diskVars, registryVars, Serving, OneInv, KInv, IInv, TypeOK
  <2>2. trie[p] = s
    BY <1>7, UnlinkMarks DEF OneInv, KInv, IInv
  <2>3. ASSUME NEW v \in Thread, Deletes(v, p) PROVE FALSE
    <3>1. v = t /\ req[t].type = "DELETE_FILE" /\ req[t].arg = p
      BY <2>3 DEF Alone, Deletes
    <3>2. ~Reported(t)
      BY <2>1 DEF OneInv, KInv, IInv, Waiting, Reported
    <3>3. WayOpen(p)
      BY <2>3, <3>1, <3>2 DEF Deletes
    <3> QED
      BY <1>0, <1>7, <3>1, <3>3, UnlinkFinds, MarkAssumption
  <2> QED
    BY <1>1, <2>1, <2>2, <2>3
<1> QED
  BY <1>2, <1>3, <1>4, <1>5, <1>6, <1>7, StepKinds DEF OneInv

(* With one client thread, when nobody deletes the root or two files one   *)
(* of which starts the other's path: between two requests a file that the  *)
(* trie leads to on a running server is there (nm_helper.c:84-110,         *)
(* 130-145, 226), whatever other servers were lost and merged for.         *)
THEOREM OneRoutedFilesExist ==
  ASSUME Alone, RootKept, FilesApart, ShortTexts
  PROVE  Spec => []RoutedFilesExist
<1> DEFINE Inv == OneInv /\ MarksExist
<1>1. Init => Inv
  <2>1. Init => MarksExist
    BY DEF Init, MarksExist, Serving
  <2> QED
    BY <2>1, OneInit
<1>2. Inv /\ [Next]_vars => Inv'
  BY OneStep, MarksExistStep
<1>3. Inv => RoutedFilesExist
  <2> SUFFICES ASSUME Inv, NEW p \in Text, NEW s \in Server,
                      Quiet, state[s] = "up", ~IsDirText(p), search_trie(trie, p) = s
               PROVE  p \in disk[s]
    BY DEF RoutedFilesExist
  <2>1. Serving(s) /\ trie[p] = s
    BY SearchReadsMark DEF Serving, OneInv, KInv, IInv, TypeOK
  <2>2. \A t \in Thread : ~Deletes(t, p)
    BY DEF OneInv, KInv, IInv, Waiting, Quiet, Deletes, Reported
  <2> QED
    BY <2>1, <2>2 DEF MarksExist
<1> QED
  BY <1>1, <1>2, <1>3, PTL DEF Spec

-----------------------------------------------------------------------------
(* Successes are true.                                                     *)

(* What a deletion that succeeds leaves on the disk.                       *)
LEMMA DeleteLeaves ==
  ASSUME NEW d \in SUBSET Text, \A p \in d : DirsOf(p) \subseteq d, NEW r \in Request,
         r.type = "DELETE_FILE", r.arg \in Text, Succeeds(d, r)
  PROVE  r.arg \notin DiskAfter(d, r) /\ OnTheWay(r.arg) \subseteq DiskAfter(d, r)
<1> DEFINE p == r.arg
<1>1. p \in Text /\ DirText(p) \in Text /\ DiskAfter(d, r) = d \ Removable(d, p) /\ Removable(d, p) # {}
  BY ServiceAssumption DEF DiskAfter, Succeeds, Below
<1>2. Removable(d, p) \subseteq {p, DirText(p)} /\ Removable(d, p) \subseteq d
  BY DEF Removable
<1>3. p \in d => p \in Removable(d, p)
  <2>1. CASE IsDirText(p)
    BY <1>1, <2>1 DEF Removable, DirText
  <2>2. CASE ~IsDirText(p)
    BY <2>2 DEF Removable
  <2> QED
    BY <2>1, <2>2
<1>4. OnTheWay(p) \subseteq DirsOf(DirText(p))
  BY <1>1, TextIsSeq, DirTextExtends, PrefixTransitive DEF OnTheWay, DirsOf
<1>5. OnTheWay(p) \subseteq d
  BY <1>1, <1>2, <1>4 DEF OnTheWay
<1>6. DirText(p) \notin OnTheWay(p)
  <2>1. CASE IsDirText(p)
    BY <2>1 DEF OnTheWay, DirText
  <2>2. CASE ~IsDirText(p)
    <3>1. p \in Seq(Char) /\ Slash \in Char /\ DirText(p) = Append(p, Slash) /\ Len(p) \in Nat
      BY <1>1, <2>2, TextAssumption DEF DirText
    <3>2. Len(DirText(p)) = Len(p) + 1 /\ DirText(p) \in Seq(Char)
      BY <3>1, AppendProperties
    <3>3. IsPrefix(DirText(p), p) => Len(DirText(p)) <= Len(p)
      BY <3>1, <3>2 DEF IsPrefix
    <3>4. ~IsPrefix(DirText(p), p)
      BY <3>1, <3>2, <3>3
    <3> QED
      BY <3>4 DEF OnTheWay, DirsOf
  <2> QED
    BY <2>1, <2>2
<1>7. p \notin OnTheWay(p)
  BY DEF OnTheWay
<1> QED
  BY <1>1, <1>2, <1>3, <1>5, <1>6, <1>7

LEMMA EffectsStep ==
  ASSUME Alone, UniqueArguments, RootKept, FilesApart, ShortTexts, OneInv, OneInv', Effects,
         [Next]_vars
  PROVE  Effects'
<1> SUFFICES ASSUME NEW t \in Thread, Told(t)' \/ (Reported(t)' /\ conn'[t].ack = "success"),
                    Serving(route[t])'
             PROVE  req'[t].arg \in Known(route'[t]) /\ Effect(t)'
  BY DEF Effects
<1>0. /\ disk \in [Server -> SUBSET Text] /\ trie \in [Text -> Mark] /\ online \subseteq Server
      /\ \A u \in online : Serving(u)' => Serving(u)
      /\ \A u \in Thread : u = t
      /\ Told(t) \/ Reported(t) => route[t] \in online
      /\ req[t] \in Request /\ req[t].arg \in Text \union {NoText}
  <2>1. /\ disk \in [Server -> SUBSET Text] /\ trie \in [Text -> Mark] /\ online \subseteq Server
        /\ req \in [Thread -> Request]
    BY DEF OneInv, KInv, IInv, TypeOK
  <2>2. req[t] \in Request /\ req[t].arg \in Text \union {NoText}
    BY <2>1, ServiceAssumption
  <2>3. Told(t) \/ Reported(t) => route[t] \in online
    BY DEF OneInv, KInv, IInv, Unlinking, Waiting, Outcomes, OutcomeOf, Reported
  <2>4. \A u \in online : Serving(u)' => Serving(u)
    BY <2>1, ServedBefore DEF OneInv
  <2>5. \A u \in Thread : u = t
    BY DEF Alone
  <2> QED
    BY <2>1, <2>2, <2>3, <2>4, <2>5
<1>1. ASSUME Told(t) \/ (Reported(t) /\ conn[t].ack = "success"), Serving(route[t])
      PROVE  req[t].arg \in Known(route[t]) /\ Effect(t)
  BY <1>1 DEF Effects
<1>2. CASE Conveys
  <2>1. /\ Reported(t)' = Reported(t) /\ conn'[t].ack = conn[t].ack /\ Told(t)' = Told(t)
        /\ UNCHANGED <<disk, trie, pc, req, route, reply>>
    BY <1>2 DEF Conveys, Told
  <2>2. Serving(route[t])
    BY <1>0, <1>2, <2>1 DEF Conveys
  <2> QED
    BY <1>1, <2>1, <2>2 DEF Effect, WayOpen, Unserved
<1>3. ASSUME NEW u \in Server, RegisterServer(u)
      PROVE  req'[t].arg \in Known(route'[t]) /\ Effect(t)'
  <2> DEFINE p == req[t].arg
             s == route[t]
  <2>1. /\ trie' = InsertAll(trie, Listing(disk[u]), u) /\ u \notin online
        /\ UNCHANGED <<disk, pc, req, route, conn, reply>>
        /\ Told(t)' = Told(t) /\ Reported(t)' = Reported(t)
    BY <1>3 DEF RegisterServer, Announced, diskVars, threadVars, Told, Reported
  <2>2. /\ s \in online /\ s \in Server /\ Serving(s) /\ s # u
        /\ p \in Known(s) /\ Effect(t)
    BY <1>0, <1>1, <2>1
  <2>3. Listing(disk[u]) \subseteq Known(u)
    BY DEF Listing, OneInv, KInv, IInv, RoutesKnown
  <2>4. ASSUME req[t].type \in {"CREATE_FILE", "DELETE_FILE"} PROVE trie'[p] = trie[p]
    <3>1. p \notin Known(u)
      BY <1>0, <2>2, <2>4 DEF UniqueArguments, Known
    <3>2. p \in Text /\ \A w \in Listing(disk[u]) : p \notin MarkedBy(w)
      BY <2>2, <2>3, <3>1, KnownClosed DEF Known
    <3> QED
      BY <1>0, <2>1, <3>2 DEF InsertAll
  <2>5. WayOpen(p) => WayOpen(p)'
    BY <2>1, MarkAssumption DEF WayOpen, OnTheWay, DirsOf, InsertAll
  <2>6. Effect(t)'
    <3>1. CASE req[t].type \in {"CREATE_FILE", "DELETE_FILE"}
      BY <2>1, <2>2, <2>4, <2>5, <3>1 DEF Effect, Unserved
    <3>2. CASE req[t].type \notin {"CREATE_FILE", "DELETE_FILE"}
      BY <2>1, <2>2, <3>2 DEF Effect
    <3> QED
      BY <3>1, <3>2
  <2> QED
    BY <2>1, <2>2, <2>6
<1>4. ASSUME NEW s \in Server, Executes(s, t)
      PROVE  req'[t].arg \in Known(route'[t]) /\ Effect(t)'
  <2> DEFINE p == req[t].arg
             d == disk[s]
  <2>0. p \in Text /\ Below(req[t]) = p
    BY <1>4, KnownArgument DEF Executes
  <2>1. /\ route'[t] = s /\ req' = req /\ p \in Known(s) /\ ~Told(t)'
        /\ disk'[s] = DiskAfter(d, req[t]) /\ Succeeds(d, req[t]) /\ pc' = pc
    BY <1>0, <1>4 DEF Executes, Executed, Outcome, Told
  <2>2. CASE req[t].type = "CREATE_FILE"
    BY <2>0, <2>1, <2>2 DEF Effect, DiskAfter, Succeeds, CanCreateFile
  <2>3. CASE req[t].type = "CREATE_DIR"
    BY <2>0, <2>1, <2>3 DEF Effect, DiskAfter, Succeeds
  <2>4. CASE req[t].type = "DELETE_FILE"
    <3>1. p \notin disk'[s] /\ OnTheWay(p) \subseteq disk'[s]
      BY <1>0, <2>0, <2>1, <2>4, DeleteLeaves DEF OneInv, ClosedDisks
    <3> QED
      BY <2>1, <2>4, <3>1 DEF Effect
  <2>5. CASE req[t].type \notin {"CREATE_FILE", "CREATE_DIR", "DELETE_FILE"}
    BY <2>1, <2>5 DEF Effect
  <2> QED
    BY <2>1, <2>2, <2>3, <2>4, <2>5
<1>5. CASE Proceeds(t)
  BY <1>5 DEF Proceeds
<1>6. CASE Merge(t)
  <2> DEFINE p == req[t].arg
             s == route[t]
  <2>0. /\ s \in online /\ s \in Server /\ UNCHANGED <<disk, req, route>>
        /\ ~Reported(t)' /\ Told(t)' /\ Serving(s)
    BY <1>0, <1>6, MergeFacts
  <2>1. /\ s \in online /\ s \in Server /\ Serving(s) /\ UNCHANGED <<disk, req, route>>
        /\ ~Reported(t)' /\ Told(t)' /\ conn[t].ack = "success" /\ Reported(t)
        /\ trie' = InsertAll(trie, Listing(disk[s]), s)
    <3>1. Acknowledged(t) = {conn[t].ack} /\ Reported(t) /\ trie' = InsertAll(trie, Listing(disk[s]), s)
      BY <1>6, <2>0, MergeFacts
    <3>2. reply'[t] \in Acknowledged(t)
      BY <1>6 DEF Merge, OneInv, KInv, IInv, TypeOK
    <3> QED
      BY <2>0, <3>1, <3>2 DEF Told
  <2>2. p \in Known(s) /\ Effect(t) /\ p \in Text
    BY <1>1, <2>1 DEF Known
  <2>3. CASE req[t].type = "CREATE_FILE"
    <3>1. p \in Listing(disk[s]) /\ Listing(disk[s]) \in SUBSET Text
      BY <1>0, <2>1, <2>2, <2>3, FilesListed DEF Effect, Listing
    <3>2. trie'[p] = s
      BY <1>0, <2>1, <3>1 DEF InsertAll, MarkedBy
    <3> QED
      BY <2>1, <2>2, <2>3, <3>2 DEF Effect
  <2>4. CASE req[t].type = "DELETE_FILE"
    <3>1. WayOpen(p)'
      BY <1>0, <1>6, <2>1, <2>2, <2>4, MergeOpens DEF Effect, OneInv
    <3>2. pc'[t] = "unlink"
      BY <1>6, <2>4, MergeFacts DEF Unlinks
    <3> QED
      BY <2>1, <2>2, <2>4, <3>1, <3>2 DEF Effect
  <2>5. CASE req[t].type \notin {"CREATE_FILE", "DELETE_FILE"}
    BY <2>1, <2>2, <2>5 DEF Effect
  <2> QED
    BY <2>1, <2>2, <2>3, <2>4, <2>5
<1>7. CASE Unlink(t)
  <2>1. /\ UNCHANGED <<disk, req, route, reply, conn, state, registering>> /\ pc[t] = "unlink"
        /\ pc'[t] = "idle"
    BY <1>7 DEF Unlink, diskVars, registryVars, OneInv, KInv, IInv, TypeOK
  <2>2. ~Reported(t) /\ ~Reported(t)'
    BY <2>1 DEF OneInv, KInv, IInv, Waiting, Reported
  <2>3. Told(t) /\ Serving(route[t])
    BY <2>1, <2>2 DEF Told, Serving
  <2>4. req[t].arg \in Known(route[t]) /\ Effect(t) /\ Unlinks(req[t])
    BY <1>1, <2>1, <2>3 DEF OneInv, Unlinking
  <2>5. CASE req[t].type = "DELETE_FILE"
    <3>1. Unserved(req[t].arg)'
      BY <1>0, KnownArgument, <1>7, <2>1, <2>3, <2>4, <2>5, UnlinkFinds DEF Effect, Unserved
    <3> QED
      BY <2>1, <2>2, <2>4, <2>5, <3>1 DEF Effect
  <2>6. CASE req[t].type = "DELETE_DIR"
    BY <2>1, <2>4, <2>6 DEF Effect
  <2> QED
    BY <2>4, <2>5, <2>6 DEF Unlinks
<1> QED
  BY <1>0, <1>2, <1>3, <1>4, <1>5, <1>6, <1>7, StepKinds DEF OneInv

(* With one client thread, the hypotheses above on deletions, and no two   *)
(* servers that can have what is created or deleted: a SUCCESS that a      *)
(* client was told of a running server is true of its disk and of the trie *)
(* (nm_helper.c:84-110, 130-158).                                          *)
THEOREM OneEffectVisible ==
  ASSUME Alone, UniqueArguments, RootKept, FilesApart, ShortTexts
  PROVE  Spec => []EffectVisible
<1> DEFINE Inv == OneInv /\ Effects
<1>1. Init => Inv
  <2>1. Init => Effects
    BY DEF Init, Effects, Told, Reported, Closed
  <2> QED
    BY <2>1, OneInit
<1>2. Inv /\ [Next]_vars => Inv'
  BY OneStep, EffectsStep
<1>3. Inv => EffectVisible
  <2> SUFFICES ASSUME Inv, NEW t \in Thread, Quiet, reply[t] = "success", Serving(route[t])
               PROVE  LET p == req[t].arg
                          d == disk[route[t]]
                      IN CASE req[t].type = "CREATE_FILE" -> p \in d /\ trie[p] = route[t]
                           [] req[t].type = "CREATE_DIR"  -> DirText(p) \in d
                           [] req[t].type = "DELETE_FILE" -> p \notin d /\ search_trie(trie, p) = NoServer
                           [] OTHER -> TRUE
    BY DEF EffectVisible
  <2>1. Told(t) /\ pc[t] = "idle"
    BY DEF Told, Quiet
  <2>2. Effect(t)
    BY <2>1 DEF Effects
  <2>3. Unserved(req[t].arg) => search_trie(trie, req[t].arg) = NoServer
    BY DEF Unserved, search_trie
  <2> QED
    BY <2>1, <2>2, <2>3 DEF Effect
<1> QED
  BY <1>1, <1>2, <1>3, PTL DEF Spec
=============================================================================
