---------------------------- MODULE NamingProofs ----------------------------
(***************************************************************************)
(* What the naming server keeps right for any servers, threads, paths and  *)
(* requests, with storage servers stopping at any moment and client        *)
(* threads interleaving: types, and RoutesOnline; and RoutesKnown for one  *)
(* client thread.                                                          *)
(***************************************************************************)
EXTENDS NamingServer, SequenceTheorems, TLAPS

-----------------------------------------------------------------------------
(* Prefixes and the directories of a text.                                 *)

LEMMA TextIsSeq == \A t \in Text : t \in Seq(Char) /\ t # <<>>
  BY TextAssumption

(* A prefix is the shorter text, character by character.                   *)
LEMMA PrefixByCharacter ==
  ASSUME NEW a \in Seq(Char), NEW b \in Seq(Char)
  PROVE  IsPrefix(a, b) <=> Len(a) <= Len(b) /\ \A i \in 1..Len(a) : a[i] = b[i]
  BY DEF IsPrefix

LEMMA PrefixTransitive ==
  ASSUME NEW a \in Seq(Char), NEW b \in Seq(Char), NEW c \in Seq(Char),
         IsPrefix(a, b), IsPrefix(b, c)
  PROVE  IsPrefix(a, c)
<1>1. Len(a) <= Len(b) /\ \A i \in 1..Len(a) : a[i] = b[i]
  BY PrefixByCharacter
<1>2. Len(b) <= Len(c) /\ \A i \in 1..Len(b) : b[i] = c[i]
  BY PrefixByCharacter
<1>3. Len(a) <= Len(c) /\ \A i \in 1..Len(a) : a[i] = c[i]
  BY <1>1, <1>2
<1> QED
  BY <1>3, PrefixByCharacter

(* A text starts the text of its directory, and the latter is a directory. *)
LEMMA DirTextExtends ==
  ASSUME NEW t \in Text
  PROVE  /\ DirText(t) \in Text
         /\ IsPrefix(t, DirText(t))
         /\ DirText(t) \in DirsOf(DirText(t))
<1>1. t \in Seq(Char) /\ DirText(t) \in Text /\ DirText(t) \in Seq(Char) /\ Slash \in Char
  BY TextAssumption, ServiceAssumption
<1>2. IsPrefix(t, DirText(t))
  <2>1. CASE IsDirText(t)
    BY <1>1, <2>1, PrefixByCharacter DEF DirText
  <2>2. CASE ~IsDirText(t)
    <3>1. DirText(t) = Append(t, Slash)
      BY <2>2 DEF DirText
    <3>2. Len(t) <= Len(DirText(t)) /\ \A i \in 1..Len(t) : t[i] = DirText(t)[i]
      BY <1>1, <3>1, AppendProperties
    <3> QED
      BY <1>1, <3>2, PrefixByCharacter
  <2> QED
    BY <2>1, <2>2
<1>3. IsPrefix(DirText(t), DirText(t))
  BY <1>1, PrefixByCharacter
<1>4. IsDirText(DirText(t))
  BY <1>1 DEF DirText, IsDirText
<1> QED
  BY <1>1, <1>2, <1>3, <1>4 DEF DirsOf

(* What a server is known for includes the directories its entries lie in  *)
(* and the ones that mkdir makes of them.                                  *)
LEMMA KnownClosed ==
  ASSUME NEW s \in Server, NEW p \in Known(s)
  PROVE  MarkedBy(p) \subseteq Known(s) /\ DirText(p) \in Known(s)
<1>1. PICK u \in InitDisk[s] : p = u \/ p \in DirsOf(DirText(u))
  BY DEF Known
<1>2. u \in Text /\ p \in Text /\ DirText(u) \in Text
  BY ServiceAssumption, <1>1 DEF Known
<1>3. IsPrefix(p, DirText(u))
  BY <1>1, <1>2, DirTextExtends DEF DirsOf
<1>4. DirsOf(p) \subseteq DirsOf(DirText(u))
  BY <1>2, <1>3, TextIsSeq, PrefixTransitive DEF DirsOf
<1>5. DirText(p) \in DirsOf(DirText(u))
  <2>1. CASE p = u
    BY <2>1, <1>2, DirTextExtends
  <2>2. CASE p \in DirsOf(DirText(u))
    BY <2>2 DEF DirsOf, DirText
  <2> QED
    BY <1>1, <2>1, <2>2
<1> QED
  BY <1>2, <1>4, <1>5 DEF Known, MarkedBy, DirsOf

-----------------------------------------------------------------------------
(* The cache and the trie.                                                 *)

(* A search that names a server found the path's own mark.                 *)
LEMMA SearchReadsMark ==
  ASSUME NEW tr \in [Text -> Mark], NEW p \in Text
  PROVE  /\ search_trie(tr, p) \in Route
         /\ search_trie(tr, p) \in Server => tr[p] = search_trie(tr, p)
  BY MarkAssumption DEF search_trie, Mark, Route

(* The claim of an entry changes its key, and the fill its value.          *)
Claimed(c, i, k) == [c EXCEPT ![i].key = k]
Filled(c, i, v) == [c EXCEPT ![i].value = v]

LEMMA EntryWritten ==
  ASSUME NEW c \in Cache, NEW i \in Slot,
         NEW k \in Text \union {NoText}, NEW v \in Route
  PROVE  /\ Claimed(c, i, k) \in Cache /\ Filled(c, i, v) \in Cache
         /\ \A j \in Slot : /\ Claimed(c, i, k)[j].value = c[j].value
                            /\ Filled(c, i, v)[j].key = c[j].key
         /\ \A j \in Slot \ {i} : Filled(c, i, v)[j] = c[j]
<1>1. \A j \in Slot : c[j] \in Entry
  BY DEF Cache
<1>2. \A e \in Entry : /\ [e EXCEPT !.key = k] \in Entry /\ [e EXCEPT !.key = k].value = e.value
                       /\ [e EXCEPT !.value = v] \in Entry /\ [e EXCEPT !.value = v].key = e.key
  BY DEF Entry
<1>3. \A j \in Slot :
        /\ Claimed(c, i, k)[j] = IF j = i THEN [c[i] EXCEPT !.key = k] ELSE c[j]
        /\ Filled(c, i, v)[j] = IF j = i THEN [c[i] EXCEPT !.value = v] ELSE c[j]
  BY DEF Cache, Claimed, Filled
<1>4. Claimed(c, i, k) \in Cache
  BY <1>1, <1>2 DEF Cache, Claimed
<1>5. Filled(c, i, v) \in Cache
  BY <1>1, <1>2 DEF Cache, Filled
<1>6. ASSUME NEW j \in Slot
      PROVE  /\ Claimed(c, i, k)[j].value = c[j].value
             /\ Filled(c, i, v)[j].key = c[j].key
             /\ j # i => Filled(c, i, v)[j] = c[j]
  <2>1. CASE j = i
    BY <1>1, <1>2, <1>3, <2>1
  <2>2. CASE j # i
    BY <1>3, <2>2
  <2> QED
    BY <2>1, <2>2
<1> QED
  BY <1>4, <1>5, <1>6

(* A lookup answers with a server only if the path carries its mark.       *)
LEMMA FoundReadsMark ==
  ASSUME trie \in [Text -> Mark], NEW p \in Text \union {NoText}
  PROVE  /\ Found(p) \in Route
         /\ Found(p) \in Server => p \in Text /\ trie[p] = Found(p)
  BY SearchReadsMark, MarkAssumption DEF Found, Route

-----------------------------------------------------------------------------
(* The inductive invariants: one for any number of threads, and one that   *)
(* holds if there is a single client thread.                               *)

(* A process that serves is registered, and only the listener's current    *)
(* server waits for its acknowledgment.                                    *)
Processes ==
  /\ \A s \in Server : Serving(s) => s \in online
  /\ registering # NoServer =>
       registering \in online /\ state[registering] \in {"joining", "ghost"}

(* The connections waiting at a storage server belong to different threads, *)
(* each of which waits for that server.                                     *)
Waiting ==
  /\ \A t \in Thread : conn[t].stage # "none" => pc[t] = "waiting"
  /\ \A s \in Server : \A i \in 1..Len(queue[s]) :
       /\ route[queue[s][i]] = s
       /\ conn[queue[s][i]].stage \in {"queued", "done", "acked"}
  /\ \A s \in Server : \A i, j \in 1..Len(queue[s]) : queue[s][i] = queue[s][j] => i = j

(* A thread waits for a registered server, which, if the connection has    *)
(* ended, has ended too.                                                   *)
OutcomeOf(t) ==
  /\ pc[t] = "waiting" => route[t] \in online
  /\ conn[t].stage = "eof" => ~Serving(route[t])

Outcomes == \A t \in Thread : OutcomeOf(t)

IInv == TypeOK /\ Processes /\ Waiting /\ Outcomes /\ RoutesOnline

(* The entry of a lookup is that of its path, once it has been claimed.    *)
OwnEntries == \A t \in Thread : pc[t] \in {"fill", "read"} => lru[slot[t]].key = req[t].arg

(* The list a server has taken from its own disk is of paths that it is    *)
(* known for.  RoutesKnown needs to know where a list that is merged came  *)
(* from: from the server it is merged for, or from anywhere, and then that *)
(* server has ended and never serves again.                                *)
ListsKnown ==
  \A t \in Thread :
    conn[t].stage \in {"done", "acked", "sent"} => conn[t].list \subseteq Known(route[t])

KInv == IInv /\ OwnEntries /\ ListsKnown /\ RoutesKnown

-----------------------------------------------------------------------------
(* Types.                                                                  *)

(* Every server's disk holds its root.                                     *)
LEMMA RootIsText == Root \in Text
  BY ServiceAssumption

(* A loop of insertions and an unlink keep the trie a trie.                *)
LEMMA TrieStaysTrie ==
  ASSUME NEW tr \in [Text -> Mark]
  PROVE  /\ \A ps \in SUBSET Text, s \in Route : InsertAll(tr, ps, s) \in [Text -> Mark]
         /\ \A p \in Text : delete_from_trie(tr, p) \in [Text -> Mark]
  BY DEF InsertAll, delete_from_trie, Mark, Route

(* The listing of a disk is part of it, and an operation keeps it a set of *)
(* texts.                                                                  *)
LEMMA DiskStaysDisk ==
  ASSUME NEW d \in SUBSET Text, NEW r \in Request
  PROVE  /\ Listing(d) \subseteq d
         /\ DiskAfter(d, r) \in SUBSET Text
         /\ DiskAfter(d, r) \subseteq d \union {Below(r), DirText(Below(r))}
         /\ Executed(d, r) \in Conn
         /\ Executed(d, r).stage = "done"
         /\ Executed(d, r).list \subseteq DiskAfter(d, r)
<1>1. Below(r) \in Text /\ DirText(Below(r)) \in Text
  BY ServiceAssumption, RootIsText DEF Below
<1>2. Listing(d) \subseteq d /\ Listing(DiskAfter(d, r)) \subseteq DiskAfter(d, r)
  BY DEF Listing
<1>3. DiskAfter(d, r) \subseteq d \union {Below(r), DirText(Below(r))}
  BY DEF DiskAfter
<1> QED
  BY <1>1, <1>2, <1>3 DEF Executed, Outcome, Conn, Stage, Ack

LEMMA InitType == Init => TypeOK
<1> SUFFICES ASSUME Init PROVE TypeOK
  OBVIOUS
<1>1. (CHOOSE r \in Request : TRUE) \in Request
  BY ServiceAssumption
<1>2. trie \in [Text -> Mark] /\ lru \in Cache
  BY DEF Init, EmptyTrie, Mark, EmptyCache, Cache, Entry, Route
<1>3. req \in [Thread -> Request]
  BY <1>1 DEF Init
<1>4. queue \in [Server -> Seq(Thread)] /\ disk \in [Server -> SUBSET Text]
  BY ServiceAssumption DEF Init
<1>5. conn \in [Thread -> Conn]
  BY DEF Init, Conn, Closed, Stage, Ack
<1>6. state \in [Server -> State] /\ paths \in [Server -> SUBSET Text]
  BY DEF Init, State
<1>7. /\ pc \in [Thread -> Location] /\ slot \in [Thread -> Slot]
      /\ route \in [Thread -> Route] /\ stale \in [Thread -> SUBSET Text]
      /\ reply \in [Thread -> Reply]
  BY ServiceAssumption DEF Init, Route, Reply, Location, Slot
<1> QED
  BY <1>2, <1>3, <1>4, <1>5, <1>6, <1>7 DEF Init, TypeOK, Route

LEMMA TypeStep == TypeOK /\ [Next]_vars => TypeOK'
<1> SUFFICES ASSUME TypeOK, [Next]_vars PROVE TypeOK'
  OBVIOUS
<1> USE DEF TypeOK, diskVars, registryVars, indexVars, threadVars, Location
<1>1. ASSUME NEW s \in Server, SSStart(s) \/ SSListen(s) \/ RefuseServer(s) PROVE TypeOK'
  BY <1>1 DEF SSStart, SSListen, RefuseServer, State
<1>2. ASSUME NEW s \in Server, RegisterServer(s) PROVE TypeOK'
  <2>1. Listing(disk[s]) \in SUBSET Text
    BY DEF Listing
  <2>2. trie' \in [Text -> Mark]
    BY <1>2, <2>1, TrieStaysTrie DEF RegisterServer, Route
  <2> QED
    BY <1>2, <2>1, <2>2 DEF RegisterServer, Route
<1>3. ASSUME AckServer \/ AckFails PROVE TypeOK'
  <2>1. CASE AckServer
    <3>1. open' \in BOOLEAN /\ running' \in Nat
      BY <2>1 DEF AckServer
    <3>2. state' \in [Server -> State]
      BY <2>1 DEF AckServer, State
    <3> QED
      BY <2>1, <3>1, <3>2 DEF AckServer, Route
  <2>2. CASE AckFails
    BY <2>2 DEF AckFails, State, Route
  <2> QED
    BY <1>3, <2>1, <2>2
<1>4. ASSUME NEW s \in Server, SSStop(s) PROVE TypeOK'
  <2>1. \A t \in Thread, e \in {"reset", "eof"} : CutOff(conn[t], e) \in Conn
    BY DEF CutOff, Conn, Closed, Stage, Ack
  <2>2. conn' \in [Thread -> Conn]
    BY <1>4, <2>1 DEF SSStop
  <2> QED
    BY <1>4, <2>2 DEF SSStop, State
<1>5. ASSUME NEW s \in Server, SSExecute(s) PROVE TypeOK'
  <2>1. Head(queue[s]) \in Thread
    BY <1>5 DEF SSExecute
  <2>2. DiskAfter(disk[s], req[Head(queue[s])]) \in SUBSET Text
        /\ Executed(disk[s], req[Head(queue[s])]) \in Conn
    BY <2>1, DiskStaysDisk
  <2> QED
    BY <1>5, <2>1, <2>2 DEF SSExecute
<1>6. ASSUME NEW s \in Server, SSSendAck(s) \/ SSSendDetails(s) PROVE TypeOK'
  <2>1. Head(queue[s]) \in Thread /\ Tail(queue[s]) \in Seq(Thread)
    BY <1>6 DEF SSSendAck, SSSendDetails
  <2> QED
    <3>1. \A c \in Conn : [c EXCEPT !.stage = "acked"] \in Conn /\ [c EXCEPT !.stage = "sent"] \in Conn
      BY DEF Conn, Stage
    <3>2. \E e \in {"acked", "sent"} :
            conn' = [conn EXCEPT ![Head(queue[s])] = [conn[Head(queue[s])] EXCEPT !.stage = e]]
      BY <1>6 DEF SSSendAck, SSSendDetails
    <3>4. conn' \in [Thread -> Conn]
      <4>1. conn[Head(queue[s])] \in Conn
        BY <2>1
      <4>2. PICK c \in Conn : conn' = [conn EXCEPT ![Head(queue[s])] = c]
        BY <3>1, <3>2, <4>1
      <4> QED
        BY <2>1, <4>2
    <3>3. queue' \in [Server -> Seq(Thread)]
      BY <1>6, <2>1 DEF SSSendAck, SSSendDetails
    <3> QED
      BY <1>6, <3>3, <3>4 DEF SSSendAck, SSSendDetails
<1>7. ASSUME NEW t \in Thread, NEW r \in Request, Receive(t, r) PROVE TypeOK'
  <2>1. r.arg \in Text \union {NoText}
    BY ServiceAssumption
  <2>2. \E i \in Slot :
          /\ slot' = [slot EXCEPT ![t] = i]
          /\ lru' = lru \/ lru' = Claimed(lru, i, r.arg)
          /\ \E l \in {"fill", "read"} : pc' = [pc EXCEPT ![t] = l]
    BY <1>7 DEF Receive, Claimed
  <2>3. lru' \in Cache
    <3>1. NoServer \in Route /\ lru \in Cache
      BY DEF Route
    <3> QED
      BY <2>1, <2>2, <3>1, EntryWritten
  <2>4. pc' \in [Thread -> Location]
    BY <2>2 DEF Location
  <2> QED
    BY <1>7, <2>2, <2>3, <2>4 DEF Receive, Reply
<1>8. ASSUME NEW t \in Thread, AnswerDirectly(t) PROVE TypeOK'
  <2>1. reply'[t] \in Reply /\ reply' = [reply EXCEPT ![t] = reply'[t]]
    BY <1>8, MarkAssumption DEF AnswerDirectly, Reply, Routed, Route
  <2> QED
    BY <1>8, <2>1 DEF AnswerDirectly
<1>9. ASSUME NEW t \in Thread, Forward(t) PROVE TypeOK'
  <2>1. CASE state[route[t]] = "up"
    <3>1. [Closed EXCEPT !.stage = "queued"] \in Conn
      BY DEF Conn, Closed, Stage, Ack
    <3>2. Append(queue[route[t]], t) \in Seq(Thread)
      BY <1>9 DEF Forward, Routed
    <3>5. conn' = [conn EXCEPT ![t] = [Closed EXCEPT !.stage = "queued"]]
          /\ queue' = [queue EXCEPT ![route[t]] = Append(@, t)]
      BY <1>9, <2>1 DEF Forward
    <3>6. conn' \in [Thread -> Conn]
      BY <3>1, <3>5
    <3>7. queue' \in [Server -> Seq(Thread)]
      BY <3>2, <3>5
    <3>3. conn' \in [Thread -> Conn] /\ queue' \in [Server -> Seq(Thread)]
      BY <3>6, <3>7
    <3>4. pc' = [pc EXCEPT ![t] = "waiting"] /\ reply' = reply
      BY <1>9, <2>1 DEF Forward
    <3> QED
      BY <1>9, <3>3, <3>4 DEF Forward
  <2>2. CASE state[route[t]] # "up"
    BY <1>9, <2>2 DEF Forward, Reply
  <2> QED
    BY <2>1, <2>2
<1>10. ASSUME NEW t \in Thread, ForwardFails(t) PROVE TypeOK'
  BY <1>10 DEF ForwardFails, Conn, Closed, Stage, Ack, Reply
<1>11. ASSUME NEW t \in Thread, Merge(t) PROVE TypeOK'
  <2>1. Details(t) \in SUBSET Text
    BY DEF Details, Conn
  <2>2. trie' \in [Text -> Mark]
    BY <1>11, <2>1, TrieStaysTrie DEF Merge
  <2>3. Acknowledged(t) \subseteq Reply /\ Closed \in Conn
    BY DEF Acknowledged, Conn, Ack, Reply, Closed, Stage
  <2>4. reply' \in [Thread -> Reply]
    BY <1>11, <2>3 DEF Merge
  <2> QED
    BY <1>11, <2>1, <2>2, <2>3, <2>4 DEF Merge
<1>12. ASSUME NEW t \in Thread, Unlink(t) PROVE TypeOK'
  <2>1. trie' \in [Text -> Mark]
    <3>1. req[t].arg \in Text \union {NoText}
      BY ServiceAssumption
    <3> QED
      BY <1>12, <3>1, TrieStaysTrie DEF Unlink
  <2> QED
    BY <1>12, <2>1 DEF Unlink
<1>13. CASE UNCHANGED vars
  BY <1>13 DEF vars
<1>14. ASSUME NEW s \in Server, RegisterUnheard(s) PROVE TypeOK'
  <2>1. open' \in BOOLEAN /\ running' \in Nat
    BY <1>14 DEF RegisterUnheard
  <2>2. paths' \in [Server -> SUBSET Text] /\ online' \subseteq Server
    BY <1>14, ServiceAssumption DEF RegisterUnheard
  <2> QED
    BY <1>14, <2>1, <2>2 DEF RegisterUnheard
<1>15. ASSUME NEW t \in Thread, Fill(t) PROVE TypeOK'
  <2>1. Found(req[t].arg) \in Route
    BY ServiceAssumption, FoundReadsMark
  <2>2. lru' = Filled(lru, slot[t], Found(req[t].arg))
    BY <1>15 DEF Fill, Filled
  <2>3. lru' \in Cache
    BY <2>1, <2>2, EntryWritten
  <2> QED
    BY <1>15, <2>3 DEF Fill
<1>16. ASSUME NEW t \in Thread, ReadBack(t) PROVE TypeOK'
  <2>1. lru[slot[t]].value \in Route /\ 1 \in Slot
    BY ServiceAssumption DEF Cache, Entry, Slot
  <2> QED
    BY <1>16, <2>1 DEF ReadBack
<1> QED
  BY <1>1, <1>2, <1>3, <1>4, <1>5, <1>6, <1>7, <1>8, <1>9, <1>10, <1>11, <1>12, <1>13,
     <1>14, <1>15, <1>16
  DEF Next, ServersStep, ListenerStep, ServerStep, ThreadStep

(* Every variable keeps its type, whatever the servers and clients do.     *)
THEOREM NamingTypeCorrect == Spec => []TypeOK
  BY InitType, TypeStep, PTL DEF Spec
-----------------------------------------------------------------------------
(* Processes: only a registered process serves, and once it has ended no   *)
(* other one takes its place.                                              *)

StayOut == \A s \in Server : s \in online /\ ~Serving(s) => ~Serving(s)'
ProcessesKept == Processes' /\ online \subseteq online' /\ StayOut

LEMMA ProcessStep == TypeOK /\ Processes /\ [Next]_vars => ProcessesKept
<1> SUFFICES ASSUME TypeOK, Processes, [Next]_vars PROVE ProcessesKept
  OBVIOUS
<1> USE DEF ProcessesKept, StayOut, Processes, Serving, registryVars, indexVars, diskVars
<1>0. /\ registering \in Route /\ online \subseteq Server /\ NoServer \notin Server
      /\ state \in [Server -> State]
  BY MarkAssumption DEF TypeOK
<1>1. ASSUME NEW s \in Server, SSStart(s) \/ SSListen(s) PROVE ProcessesKept
  BY <1>0, <1>1 DEF SSStart, SSListen, State
<1>2. ASSUME NEW s \in Server, RegisterServer(s) PROVE ProcessesKept
  BY <1>0, <1>2 DEF RegisterServer, Announced
<1>3. ASSUME NEW s \in Server, RefuseServer(s) PROVE ProcessesKept
  BY <1>0, <1>3 DEF RefuseServer, Announced
<1>4. CASE AckServer
  BY <1>0, <1>4 DEF AckServer, Route
<1>5. CASE AckFails
  BY <1>0, <1>5 DEF AckFails, Route
<1>6. ASSUME NEW s \in Server, SSStop(s) PROVE ProcessesKept
  BY <1>0, <1>6 DEF SSStop
<1>7. ASSUME NEW s \in Server, ServerStep(s) PROVE ProcessesKept
  BY <1>0, <1>7 DEF ServerStep, SSExecute, SSSendAck, SSSendDetails
<1>8. ASSUME NEW t \in Thread, NEW r \in Request, Receive(t, r) PROVE ProcessesKept
  BY <1>0, <1>8 DEF Receive
<1>9. ASSUME NEW t \in Thread, ThreadStep(t) PROVE ProcessesKept
  BY <1>0, <1>9 DEF ThreadStep, Fill, ReadBack, AnswerDirectly, Forward, ForwardFails, Merge, Unlink
<1>10. CASE UNCHANGED vars
  BY <1>10 DEF vars
<1>11. ASSUME NEW s \in Server, RegisterUnheard(s) PROVE ProcessesKept
  BY <1>0, <1>11 DEF RegisterUnheard
<1> QED
  BY <1>1, <1>2, <1>3, <1>4, <1>5, <1>6, <1>7, <1>8, <1>9, <1>10, <1>11
  DEF Next, ServersStep, ListenerStep

LEMMA InitProcesses == Init => Processes
  BY DEF Init, Processes, Serving

-----------------------------------------------------------------------------
(* Waiting: every connection has its thread, and no thread has two.        *)

LEMMA WaitingStep == TypeOK /\ Waiting /\ [Next]_vars => Waiting'
<1> SUFFICES ASSUME TypeOK, Waiting, [Next]_vars PROVE Waiting'
  OBVIOUS
<1> USE DEF Waiting, threadVars, diskVars
<1>0. /\ conn \in [Thread -> Conn] /\ route \in [Thread -> Route]
      /\ queue \in [Server -> Seq(Thread)] /\ pc \in [Thread -> Location]
      /\ \A s \in Server : \A i \in 1..Len(queue[s]) : queue[s][i] \in Thread
  BY DEF TypeOK
<1>1. ASSUME UNCHANGED <<queue, threadVars>> PROVE Waiting'
  BY <1>1
<1>2. ASSUME NEW s \in Server, SSStop(s) PROVE Waiting'
  <2>1. /\ queue' = [queue EXCEPT ![s] = <<>>] /\ UNCHANGED <<pc, route>>
        /\ \A t \in Thread : /\ t \notin Range(queue[s]) => conn'[t] = conn[t]
                             /\ conn'[t].stage # "none" => conn[t].stage # "none"
    <3>1. PICK e \in {"reset", "eof"} :
             conn' = [t \in Thread |->
                        IF t \notin Range(queue[s]) THEN conn[t]
                        ELSE IF t = Head(queue[s]) THEN CutOff(conn[t], e)
                        ELSE CutOff(conn[t], "reset")]
      BY <1>2 DEF SSStop
    <3>2. \A c \in Conn, f \in {"reset", "eof"} : CutOff(c, f).stage # "none" => c.stage # "none"
      BY DEF CutOff
    <3>3. queue' = [queue EXCEPT ![s] = <<>>] /\ UNCHANGED <<pc, route>>
      BY <1>2 DEF SSStop
    <3> QED
      BY <1>0, <3>1, <3>2, <3>3
  <2>2. \A u \in Server \ {s} : \A i \in 1..Len(queue[u]) : queue[u][i] \notin Range(queue[s])
    BY <1>0 DEF Range
  <2> QED
    BY <1>0, <2>1, <2>2
<1>3. ASSUME NEW s \in Server, SSExecute(s) \/ SSSendAck(s) PROVE Waiting'
  <2>1. PICK t \in Thread : /\ t = queue[s][1] /\ 1 \in 1..Len(queue[s])
                            /\ conn'[t].stage \in {"done", "acked"}
                            /\ \A u \in Thread \ {t} : conn'[u] = conn[u]
    <3>1. Head(queue[s]) = queue[s][1] /\ 1 \in 1..Len(queue[s])
      BY <1>0, <1>3 DEF SSExecute, SSSendAck
    <3>2. Head(queue[s]) \in Thread
      BY <1>0, <3>1
    <3>3. CASE SSExecute(s)
      <4>1. Executed(disk[s], req[Head(queue[s])]).stage = "done"
        BY DEF Executed, Outcome
      <4> QED
        BY <1>0, <3>1, <3>2, <3>3, <4>1 DEF SSExecute
    <3>4. CASE SSSendAck(s)
      BY <1>0, <3>1, <3>2, <3>4 DEF SSSendAck, Conn
    <3> QED
      BY <1>3, <3>3, <3>4
  <2>2. UNCHANGED <<queue, pc, route>>
    BY <1>3 DEF SSExecute, SSSendAck
  <2>3. pc[t] = "waiting"
    BY <2>1
  <2> QED
    BY <1>0, <2>1, <2>2, <2>3
<1>4. ASSUME NEW s \in Server, SSSendDetails(s) PROVE Waiting'
  <2> DEFINE q == queue[s]
             t == q[1]
  <2>1. /\ q \in Seq(Thread) /\ q # <<>> /\ Head(q) = t /\ 1 \in 1..Len(q) /\ t \in Thread
    BY <1>0, <1>4 DEF SSSendDetails
  <2>2. /\ conn'[t].stage = "sent" /\ \A u \in Thread \ {t} : conn'[u] = conn[u]
        /\ queue' = [queue EXCEPT ![s] = Tail(q)] /\ UNCHANGED <<pc, route>>
    BY <1>0, <1>4, <2>1 DEF SSSendDetails, Conn
  <2>3. Len(Tail(q)) = Len(q) - 1 /\ \A i \in 1..Len(Tail(q)) : Tail(q)[i] = q[i + 1] /\ i + 1 \in 1..Len(q)
    BY <2>1
  <2>4. \A i \in 1..Len(Tail(q)) : Tail(q)[i] # t
    BY <2>1, <2>3
  <2>5. \A u \in Server \ {s} : \A i \in 1..Len(queue[u]) : queue[u][i] # t
    BY <1>0, <2>1
  <2>6. queue'[s] = Tail(q) /\ \A u \in Server \ {s} : queue'[u] = queue[u]
    BY <1>0, <2>2
  <2>7. \A u \in Thread : conn'[u].stage # "none" => pc'[u] = "waiting"
    <3>1. conn[t].stage # "none"
      BY <2>1
    <3> QED
      BY <2>1, <2>2, <3>1
  <2>8. \A u \in Server : \A i \in 1..Len(queue'[u]) :
          /\ queue'[u][i] \in Thread /\ route[queue'[u][i]] = u /\ queue'[u][i] # t
          /\ conn[queue'[u][i]].stage \in {"queued", "done", "acked"}
    <3>1. ASSUME NEW u \in Server, NEW i \in 1..Len(queue'[u])
          PROVE  /\ queue'[u][i] # t
                 /\ \E h \in 1..Len(queue[u]) : queue'[u][i] = queue[u][h]
      <4>1. CASE u = s
        <5>1. queue'[u] = Tail(q) /\ i \in 1..Len(Tail(q))
          BY <2>6, <4>1
        <5>2. i + 1 \in 1..Len(queue[u]) /\ queue'[u][i] = queue[u][i + 1]
          BY <2>3, <4>1, <5>1
        <5> QED
          BY <2>4, <5>1, <5>2
      <4>2. CASE u # s
        BY <2>5, <2>6, <4>2
      <4> QED
        BY <4>1, <4>2
    <3>2. ASSUME NEW u \in Server, NEW h \in 1..Len(queue[u])
          PROVE  /\ queue[u][h] \in Thread /\ route[queue[u][h]] = u
                 /\ conn[queue[u][h]].stage \in {"queued", "done", "acked"}
      BY <1>0
    <3> QED
      BY <3>1, <3>2
  <2>9. \A u \in Server : \A i, j \in 1..Len(queue'[u]) : queue'[u][i] = queue'[u][j] => i = j
    <3>1. \A i, j \in 1..Len(Tail(q)) : Tail(q)[i] = Tail(q)[j] => i = j
      BY <2>3
    <3> QED
      BY <2>6, <3>1, ZenonT(60)
  <2> QED
    BY <2>2, <2>7, <2>8, <2>9
<1>5. ASSUME NEW t \in Thread, pc[t] # "waiting", UNCHANGED <<queue, conn>>,
             \A u \in Thread \ {t} : pc'[u] = pc[u] /\ route'[u] = route[u]
      PROVE  Waiting'
  BY <1>0, <1>5
<1>6. ASSUME NEW t \in Thread, pc[t] # "waiting" \/ conn[t].stage \notin {"queued", "done", "acked"}
      PROVE  \A s \in Server : \A i \in 1..Len(queue[s]) : queue[s][i] # t
  BY <1>0, <1>6
<1>7. ASSUME NEW t \in Thread, ForwardFails(t) \/ Merge(t) PROVE Waiting'
  <2>1. conn[t].stage \notin {"queued", "done", "acked"}
    BY <1>7 DEF ForwardFails, Merge
  <2>2. /\ conn'[t].stage = "none" /\ UNCHANGED <<queue, route>>
        /\ \A u \in Thread \ {t} : conn'[u] = conn[u] /\ pc'[u] = pc[u]
    BY <1>0, <1>7 DEF ForwardFails, Merge, Closed
  <2>3. \A s \in Server : \A i \in 1..Len(queue[s]) : queue[s][i] # t
    BY <1>6, <2>1
  <2>4. \A s \in Server : \A i \in 1..Len(queue[s]) : conn'[queue[s][i]] = conn[queue[s][i]]
    BY <1>0, <2>2, <2>3
  <2>5. \A u \in Thread : conn'[u].stage # "none" => pc'[u] = "waiting"
    BY <2>2
  <2> QED
    BY <2>2, <2>4, <2>5
<1>9. ASSUME NEW t \in Thread, Forward(t) PROVE Waiting'
  <2>1. CASE state[route[t]] = "up"
    <3> DEFINE s == route[t]
               q == queue[s]
    <3>1. /\ s \in Server /\ q \in Seq(Thread)
      BY <1>0, <1>9 DEF Forward, Routed, TypeOK
    <3>2. /\ pc[t] # "waiting" /\ pc'[t] = "waiting" /\ conn'[t].stage = "queued"
          /\ \A u \in Thread \ {t} : conn'[u] = conn[u] /\ pc'[u] = pc[u]
          /\ queue' = [queue EXCEPT ![s] = Append(q, t)] /\ UNCHANGED route
      BY <1>0, <1>9, <2>1 DEF Forward, Closed
    <3>3. /\ Len(Append(q, t)) = Len(q) + 1 /\ Append(q, t)[Len(q) + 1] = t
          /\ \A i \in 1..Len(q) : Append(q, t)[i] = q[i]
      BY <3>1
    <3>4. queue'[s] = Append(q, t) /\ \A u \in Server \ {s} : queue'[u] = queue[u]
      BY <1>0, <3>1, <3>2
    <3>5. \A u \in Server : \A i \in 1..Len(queue[u]) : queue[u][i] # t
      BY <1>6, <3>2
    <3>6. \A u \in Server : \A i \in 1..Len(queue'[u]) :
            \/ queue'[u][i] = t /\ u = s /\ i = Len(q) + 1
            \/ i \in 1..Len(queue[u]) /\ queue'[u][i] = queue[u][i]
      <4> SUFFICES ASSUME NEW u \in Server, NEW i \in 1..Len(queue'[u])
                   PROVE  \/ queue'[u][i] = t /\ u = s /\ i = Len(q) + 1
                          \/ i \in 1..Len(queue[u]) /\ queue'[u][i] = queue[u][i]
        OBVIOUS
      <4>1. CASE u = s
        <5>1. queue'[u] = Append(q, t) /\ i \in 1..(Len(q) + 1)
          BY <3>3, <3>4, <4>1
        <5>2. i \in 1..Len(q) \/ i = Len(q) + 1
          BY <3>1, <5>1
        <5> QED
          BY <3>3, <4>1, <5>1, <5>2
      <4>2. CASE u # s
        BY <3>4, <4>2
      <4> QED
        BY <4>1, <4>2
    <3>7. \A u \in Thread : conn'[u].stage # "none" => pc'[u] = "waiting"
      BY <3>2
    <3>8. \A u \in Server : \A i \in 1..Len(queue'[u]) :
            /\ route'[queue'[u][i]] = u
            /\ conn'[queue'[u][i]].stage \in {"queued", "done", "acked"}
      BY <1>0, <3>2, <3>5, <3>6
    <3>9. \A u \in Server : \A i, j \in 1..Len(queue'[u]) : queue'[u][i] = queue'[u][j] => i = j
      BY <3>5, <3>6
    <3> QED
      BY <3>7, <3>8, <3>9
  <2>2. CASE state[route[t]] # "up"
    BY <1>0, <1>5, <1>9, <2>2 DEF Forward
  <2> QED
    BY <2>1, <2>2
<1>8. ASSUME NEW t \in Thread, NEW r \in Request, Receive(t, r) PROVE Waiting'
  BY <1>0, <1>5, <1>8 DEF Receive
<1>10. ASSUME NEW t \in Thread, AnswerDirectly(t) \/ Unlink(t) \/ Fill(t) PROVE Waiting'
  BY <1>0, <1>5, <1>10 DEF AnswerDirectly, Unlink, Fill
<1>11. ASSUME NEW t \in Thread, ReadBack(t) PROVE Waiting'
  BY <1>0, <1>5, <1>11 DEF ReadBack
<1> QED
  BY <1>1, <1>2, <1>3, <1>4, <1>7, <1>8, <1>9, <1>10, <1>11
  DEF Next, ServersStep, ListenerStep, ServerStep, ThreadStep, SSStart, SSListen, RegisterServer,
      RegisterUnheard, RefuseServer, AckServer, AckFails, vars

LEMMA InitWaiting == Init => Waiting
  BY DEF Init, Waiting, Closed

-----------------------------------------------------------------------------
(* Outcomes: a thread waits for a registered server, and a connection ends *)
(* with the process behind it.                                             *)

LEMMA OutcomesStep ==
  TypeOK /\ Processes /\ Waiting /\ Outcomes /\ [Next]_vars => Outcomes'
<1> SUFFICES ASSUME TypeOK, Processes, Waiting, Outcomes, [Next]_vars
             PROVE  Outcomes'
  OBVIOUS
<1> USE DEF Outcomes, threadVars, diskVars
<1>0. /\ conn \in [Thread -> Conn] /\ route \in [Thread -> Route]
      /\ queue \in [Server -> Seq(Thread)]
      /\ pc \in [Thread -> Location]
      /\ online \subseteq Server /\ online \subseteq online' /\ StayOut
  BY ProcessStep DEF TypeOK, ProcessesKept
<1>1. ASSUME NEW t \in Thread, conn'[t].stage = "eof" => conn[t].stage = "eof",
             route'[t] = route[t], pc'[t] = "waiting" => pc[t] = "waiting"
      PROVE  OutcomeOf(t)'
  <2>1. conn[t].stage = "eof" => pc[t] = "waiting"
    BY DEF Waiting
  <2> QED
    BY <1>0, <1>1, <2>1 DEF OutcomeOf, StayOut
<1>2. ASSUME NEW t \in Thread, conn'[t].stage = "none", pc'[t] # "waiting"
      PROVE  OutcomeOf(t)'
  BY <1>2 DEF OutcomeOf
<1>3. ASSUME NEW s \in Server, SSStop(s) PROVE Outcomes'
  <2> SUFFICES ASSUME NEW t \in Thread PROVE OutcomeOf(t)'
    OBVIOUS
  <2>1. /\ \/ t \notin Range(queue[s]) /\ conn'[t] = conn[t]
           \/ t \in Range(queue[s]) /\ \E e \in {"reset", "eof"} : conn'[t] = CutOff(conn[t], e)
        /\ UNCHANGED <<pc, route>>
    BY <1>3 DEF SSStop
  <2>2. CASE t \in Range(queue[s])
    <3>1. route[t] = s /\ conn[t].stage \in {"queued", "done", "acked"}
      BY <1>0, <2>2 DEF Range, Waiting
    <3>2. pc[t] = "waiting"
      BY <3>1 DEF Waiting
    <3>3. s \in online'
      BY <1>0, <3>1, <3>2 DEF OutcomeOf
    <3>4. ~Serving(s)'
      BY <1>3 DEF SSStop, Serving, TypeOK
    <3> QED
      BY <2>1, <3>1, <3>3, <3>4 DEF OutcomeOf
  <2> QED
    BY <1>1, <2>1, <2>2
<1>4. ASSUME NEW s \in Server, ServerStep(s) PROVE Outcomes'
  <2>1. Head(queue[s]) \in Thread
    BY <1>0, <1>4 DEF ServerStep, SSExecute, SSSendAck, SSSendDetails
  <2>2. \A u \in Thread : conn'[u] = conn[u] \/ conn'[u].stage \in {"done", "acked", "sent"}
    <3>1. CASE SSExecute(s)
      <4>1. Executed(disk[s], req[Head(queue[s])]).stage = "done"
        BY DEF Executed, Outcome
      <4> QED
        BY <1>0, <2>1, <3>1, <4>1 DEF SSExecute
    <3>2. CASE SSSendAck(s) \/ SSSendDetails(s)
      BY <1>0, <2>1, <3>2 DEF SSSendAck, SSSendDetails, Conn
    <3> QED
      BY <1>4, <3>1, <3>2 DEF ServerStep
  <2>3. UNCHANGED <<pc, route>>
    BY <1>4 DEF ServerStep, SSExecute, SSSendAck, SSSendDetails
  <2> QED
    BY <1>1, <2>2, <2>3
<1>6. ASSUME NEW t \in Thread, \/ \E r \in Request : Receive(t, r)
                               \/ Fill(t) \/ ReadBack(t)
                               \/ AnswerDirectly(t) \/ ForwardFails(t) \/ Merge(t) \/ Unlink(t)
      PROVE  Outcomes'
  <2>1. conn'[t].stage = "none" /\ pc'[t] # "waiting"
    BY <1>0, <1>6 DEF Receive, Fill, ReadBack, AnswerDirectly, ForwardFails, Merge, Unlink, Closed,
                      Waiting, Location
  <2>2. \A u \in Thread \ {t} : conn'[u] = conn[u] /\ route'[u] = route[u] /\ pc'[u] = pc[u]
    BY <1>0, <1>6 DEF Receive, Fill, ReadBack, AnswerDirectly, ForwardFails, Merge, Unlink
  <2> QED
    BY <1>1, <1>2, <2>1, <2>2
<1>7. ASSUME NEW t \in Thread, Forward(t) PROVE Outcomes'
  <2>1. /\ route' = route /\ \A u \in Thread \ {t} : conn'[u] = conn[u] /\ pc'[u] = pc[u]
        /\ conn'[t].stage \in {"queued", "none"} /\ route[t] \in online
    BY <1>0, <1>7 DEF Forward, Routed, Closed, Waiting
  <2>2. OutcomeOf(t)'
    BY <1>0, <2>1 DEF OutcomeOf
  <2> QED
    BY <1>1, <2>1, <2>2
<1>8. ASSUME UNCHANGED threadVars PROVE Outcomes'
  BY <1>1, <1>8
<1> QED
  BY <1>3, <1>4, <1>6, <1>7, <1>8
  DEF Next, ServersStep, ListenerStep, ThreadStep, SSStart, SSListen, RegisterServer,
      RegisterUnheard, RefuseServer, AckServer, AckFails, vars

LEMMA InitOutcomes == Init => Outcomes
  BY DEF Init, Outcomes, OutcomeOf, Closed

-----------------------------------------------------------------------------
(* Routes that lead to registered servers, for any number of threads.      *)

(* The marks a loop of insertions leaves are the old ones and those of the *)
(* server inserted for, on texts that it is known for if the list is.      *)
LEMMA InsertAllMarks ==
  ASSUME NEW tr \in [Text -> Mark], NEW s \in Server, NEW ps \in SUBSET Text
  PROVE  /\ \A u \in Server \ {s} : \A p \in Text : InsertAll(tr, ps, s)[p] = u => tr[p] = u
         /\ ps \subseteq Known(s) =>
              \A p \in Text : InsertAll(tr, ps, s)[p] = s => tr[p] = s \/ p \in Known(s)
<1>1. ASSUME NEW p \in Text
      PROVE  InsertAll(tr, ps, s)[p] = IF \E q \in ps : p \in MarkedBy(q) THEN s ELSE tr[p]
  BY DEF InsertAll
<1>2. ASSUME ps \subseteq Known(s), NEW p \in Text, NEW q \in ps, p \in MarkedBy(q)
      PROVE  p \in Known(s)
  BY <1>2, KnownClosed
<1> QED
  BY <1>1, <1>2

(* An unlink brings no mark of a server.                                   *)
LEMMA UnlinkMarks ==
  ASSUME TypeOK, NEW t \in Thread, Unlink(t)
  PROVE  \A u \in Server : \A p \in Text : trie'[p] = u => trie[p] = u
<1>1. trie \in [Text -> Mark] /\ req[t].arg \in Text \union {NoText}
  BY ServiceAssumption DEF TypeOK
<1> QED
  BY <1>1, MarkAssumption DEF Unlink, delete_from_trie

(* A mark, an entry or a route that leads to a server was there before, or *)
(* was copied from one that was, or the server has been registered: by     *)
(* this step, or before a thread was waiting for it.                       *)
LEMMA RoutesOnlineStep ==
  TypeOK /\ Processes /\ Outcomes /\ RoutesOnline /\ [Next]_vars => RoutesOnline'
<1> SUFFICES ASSUME TypeOK, Processes, Outcomes, RoutesOnline, [Next]_vars
             PROVE  RoutesOnline'
  OBVIOUS
<1>1. TypeOK' /\ online \subseteq online' /\ online \subseteq Server
  BY TypeStep, ProcessStep DEF ProcessesKept, TypeOK
<1>2. /\ \A p \in Text : trie[p] \in Server => trie[p] \in online
      /\ \A i \in Slot : lru[i].value \in Server => lru[i].value \in online
      /\ \A t \in Thread : route[t] \in Server => route[t] \in online
  BY DEF RoutesOnline, Range, TypeOK
<1>3. \A p \in Text : trie'[p] \in Server => trie'[p] \in online'
  <2>1. ASSUME NEW u \in Server, RegisterServer(u)
        PROVE  \A p \in Text : trie'[p] \in Server => trie'[p] \in online'
    <3>1. Listing(disk[u]) \in SUBSET Text /\ trie \in [Text -> Mark]
      BY DEF Listing, TypeOK
    <3>2. \A v \in Server \ {u} : \A p \in Text : trie'[p] = v => trie[p] = v
      BY <2>1, <3>1, InsertAllMarks DEF RegisterServer
    <3>3. u \in online'
      BY <2>1 DEF RegisterServer
    <3> QED
      BY <1>1, <1>2, <3>2, <3>3
  <2>2. ASSUME NEW t \in Thread, Merge(t)
        PROVE  \A p \in Text : trie'[p] \in Server => trie'[p] \in online'
    <3>1. route[t] \in online /\ route[t] \in Server
      BY <1>1, <2>2 DEF Merge, Outcomes, OutcomeOf
    <3>2. Details(t) \in SUBSET Text /\ trie \in [Text -> Mark]
      BY DEF Details, TypeOK, Conn
    <3>3. \A v \in Server \ {route[t]} : \A p \in Text : trie'[p] = v => trie[p] = v
      BY <2>2, <3>1, <3>2, InsertAllMarks DEF Merge
    <3> QED
      BY <1>1, <1>2, <3>1, <3>3
  <2>3. ASSUME NEW t \in Thread, Unlink(t)
        PROVE  \A p \in Text : trie'[p] \in Server => trie'[p] \in online'
    BY <1>1, <1>2, <2>3, UnlinkMarks
  <2>4. CASE trie' = trie
    BY <1>1, <1>2, <2>4
  <2> QED
    BY <2>1, <2>2, <2>3, <2>4
    DEF Next, ServersStep, ListenerStep, ServerStep, ThreadStep, SSStart, SSListen, SSStop,
        SSExecute, SSSendAck, SSSendDetails, RegisterUnheard, RefuseServer, AckServer, AckFails,
        Receive, Fill, ReadBack, AnswerDirectly, Forward, ForwardFails, vars, indexVars
<1>4. \A i \in Slot : lru'[i].value \in Server => lru'[i].value \in online'
  <2> SUFFICES ASSUME NEW i \in Slot, lru'[i].value \in Server PROVE lru'[i].value \in online'
    OBVIOUS
  <2>1. ASSUME NEW t \in Thread, NEW r \in Request, Receive(t, r)
        PROVE  lru'[i].value = lru[i].value
    <3>1. \E j \in Slot : lru' = lru \/ lru' = Claimed(lru, j, r.arg)
      BY <2>1 DEF Receive, Claimed
    <3>2. lru \in Cache /\ r.arg \in Text \union {NoText} /\ NoServer \in Route
      BY ServiceAssumption DEF TypeOK, Route
    <3> QED
      BY <3>1, <3>2, EntryWritten
  <2>2. ASSUME NEW t \in Thread, Fill(t)
        PROVE  lru'[i].value = lru[i].value \/ \E p \in Text : lru'[i].value = trie[p]
    <3>1. req[t].arg \in Text \union {NoText} /\ trie \in [Text -> Mark]
      BY ServiceAssumption DEF TypeOK
    <3>2. CASE i = slot[t]
      <4>1. lru'[i].value = Found(req[t].arg)
        BY <2>2, <3>2 DEF Fill, TypeOK, Cache, Entry
      <4> QED
        BY <3>1, <4>1, FoundReadsMark
    <3>3. CASE i # slot[t]
      BY <2>2, <3>3 DEF Fill, TypeOK, Cache, Entry
    <3> QED
      BY <3>2, <3>3
  <2>3. lru'[i].value = lru[i].value \/ \E p \in Text : lru'[i].value = trie[p]
    <3>1. CASE lru' = lru
      BY <3>1
    <3> QED
      BY <2>1, <2>2, <3>1
      DEF Next, ServersStep, ListenerStep, ServerStep, ThreadStep, SSStart, SSListen, SSStop,
          SSExecute, SSSendAck, SSSendDetails, RegisterServer, RegisterUnheard, RefuseServer,
          AckServer, AckFails, ReadBack, AnswerDirectly, Forward, ForwardFails, Merge, Unlink, vars
  <2> QED
    BY <1>1, <1>2, <2>3
<1>5. \A t \in Thread : route'[t] \in Server => route'[t] \in online'
  <2>1. ASSUME NEW t \in Thread, ReadBack(t), NEW u \in Thread
        PROVE  route'[u] = route[u] \/ \E i \in Slot : route'[u] = lru[i].value
    BY <2>1 DEF ReadBack, TypeOK
  <2>2. ASSUME NEW u \in Thread
        PROVE  route'[u] = route[u] \/ \E i \in Slot : route'[u] = lru[i].value
    <3>1. CASE route' = route
      BY <3>1
    <3> QED
      BY <2>1, <3>1
      DEF Next, ServersStep, ListenerStep, ServerStep, ThreadStep, SSStart, SSListen, SSStop,
          SSExecute, SSSendAck, SSSendDetails, RegisterServer, RegisterUnheard, RefuseServer,
          AckServer, AckFails, Receive, Fill, AnswerDirectly, Forward, ForwardFails, Merge, Unlink,
          vars, threadVars
  <2> QED
    BY <1>1, <1>2, <2>2
<1> QED
  BY <1>1, <1>3, <1>4, <1>5 DEF RoutesOnline, Range, TypeOK

LEMMA InitRoutesOnline == Init => RoutesOnline
  BY MarkAssumption DEF Init, RoutesOnline, Range, EmptyTrie, EmptyCache

LEMMA InitInvariant == Init => IInv
  BY InitType, InitProcesses, InitWaiting, InitOutcomes, InitRoutesOnline DEF IInv

LEMMA InvariantStep == IInv /\ [Next]_vars => IInv'
  BY TypeStep, ProcessStep, WaitingStep, OutcomesStep, RoutesOnlineStep
  DEF IInv, ProcessesKept

(* The inductive invariant: who serves, who waits for whom, and where the  *)
(* three copies of the index lead, for any interleaving of the steps of    *)
(* nm.c:35-82 and server.c:26, those within the lookup included.           *)
THEOREM NamingInvariant == Spec => []IInv
  BY InitInvariant, InvariantStep, PTL DEF Spec

(* No copy of the index leads to a server that has not registered: with    *)
(* any number of threads that write and read the entries of the cache.     *)
THEOREM NamingRoutesOnline == Spec => []RoutesOnline
<1>1. IInv => RoutesOnline
  BY DEF IInv
<1> QED
  BY <1>1, NamingInvariant, PTL

-----------------------------------------------------------------------------
(* What a server is asked for, if one client thread runs at a time.        *)

(* The entry of a lookup keeps its path while the thread is alone.         *)
LEMMA OwnEntriesStep == Alone /\ TypeOK /\ OwnEntries /\ [Next]_vars => OwnEntries'
<1> SUFFICES ASSUME Alone, TypeOK, OwnEntries, [Next]_vars PROVE OwnEntries'
  OBVIOUS
<1> USE DEF OwnEntries, threadVars
<1>0. /\ lru \in Cache /\ slot \in [Thread -> Slot] /\ pc \in [Thread -> Location]
      /\ req \in [Thread -> Request]
  BY DEF TypeOK
<1>1. ASSUME NEW t \in Thread, NEW r \in Request, Receive(t, r) PROVE OwnEntries'
  <2>1. lru'[slot'[t]].key = r.arg /\ req'[t] = r
    BY <1>0, <1>1 DEF Receive, Hits, Cache, Entry
  <2> QED
    BY <2>1 DEF Alone
<1>2. ASSUME NEW t \in Thread, Fill(t) PROVE OwnEntries'
  <2>1. lru'[slot'[t]].key = lru[slot[t]].key /\ req' = req /\ pc[t] = "fill"
    BY <1>0, <1>2 DEF Fill, Cache, Entry
  <2> QED
    BY <2>1 DEF Alone
<1>3. ASSUME NEW t \in Thread, \/ ReadBack(t) \/ AnswerDirectly(t) \/ Forward(t)
                               \/ ForwardFails(t) \/ Merge(t) \/ Unlink(t)
      PROVE  OwnEntries'
  <2>1. pc'[t] \notin {"fill", "read"}
    BY <1>0, <1>3 DEF ReadBack, AnswerDirectly, Forward, ForwardFails, Merge, Unlink
  <2> QED
    BY <2>1 DEF Alone
<1>4. CASE UNCHANGED <<lru, slot, req, pc>>
  BY <1>4
<1> QED
  BY <1>1, <1>2, <1>3, <1>4
  DEF Next, ServersStep, ListenerStep, ServerStep, ThreadStep, SSStart, SSListen, SSStop, SSExecute,
      SSSendAck, SSSendDetails, RegisterServer, RegisterUnheard, RefuseServer, AckServer, AckFails,
      vars

(* What a running server is asked to execute, and what its disk becomes.   *)
LEMMA ExecutesKnown ==
  ASSUME TypeOK, Waiting, RoutesKnown, NEW s \in Server, SSExecute(s)
  PROVE  LET t == Head(queue[s])
             d == DiskAfter(disk[s], req[t])
         IN t \in Thread /\ route[t] = s /\ d \in SUBSET Text /\ d \subseteq Known(s)
<1> DEFINE t == Head(queue[s])
           d == DiskAfter(disk[s], req[t])
<1>1. /\ t \in Thread /\ route[t] = s /\ conn[t].stage = "queued" /\ state[s] = "up"
  <2>1. queue[s] \in Seq(Thread) /\ queue[s] # <<>>
    BY DEF SSExecute, TypeOK
  <2>2. t = queue[s][1] /\ 1 \in 1..Len(queue[s]) /\ t \in Thread
    BY <2>1
  <2> QED
    BY <2>2 DEF Waiting, SSExecute
<1>2. pc[t] = "waiting"
  BY <1>1 DEF Waiting
<1>3. req[t] \in Request
  BY <1>1 DEF TypeOK
<1>4. req[t].arg \in Known(s)
  <2>1. req[t].arg \in RoutedTo(s)
    BY <1>1, <1>2 DEF RoutedTo
  <2> QED
    BY <1>1, <2>1 DEF RoutesKnown, Serving
<1>5. Below(req[t]) = req[t].arg /\ DirText(req[t].arg) \in Known(s)
  <2>1. req[t].arg # NoText
    BY <1>4, ServiceAssumption DEF Known
  <2> QED
    BY <1>4, <2>1, KnownClosed DEF Below
<1>6. disk[s] \in SUBSET Text /\ disk[s] \subseteq Known(s)
  BY DEF TypeOK, RoutesKnown
<1>7. d \in SUBSET Text /\ d \subseteq disk[s] \union {req[t].arg, DirText(req[t].arg)}
  BY <1>3, <1>5, <1>6, DiskStaysDisk
<1> QED
  BY <1>1, <1>4, <1>5, <1>6, <1>7

(* The list that a running server answers with is of paths that it is      *)
(* known for, because the request it executed was for one of them.         *)
LEMMA ListsKnownStep ==
  TypeOK /\ Waiting /\ ListsKnown /\ RoutesKnown /\ [Next]_vars => ListsKnown'
<1> SUFFICES ASSUME TypeOK, Waiting, ListsKnown, RoutesKnown, [Next]_vars PROVE ListsKnown'
  OBVIOUS
<1> USE DEF ListsKnown, threadVars, diskVars
<1>0. /\ conn \in [Thread -> Conn] /\ route \in [Thread -> Route]
      /\ queue \in [Server -> Seq(Thread)]
  BY DEF TypeOK
<1>1. ASSUME NEW s \in Server, SSStop(s) PROVE ListsKnown'
  <2>1. \A t \in Thread : \/ conn'[t] = conn[t]
                          \/ \E e \in {"reset", "eof"} : conn'[t] = CutOff(conn[t], e)
    BY <1>1 DEF SSStop
  <2>2. \A c \in Conn, e \in {"reset", "eof"} :
          CutOff(c, e).stage \in {"done", "acked", "sent"} => CutOff(c, e) = c
    BY DEF CutOff, Closed
  <2>3. route' = route
    BY <1>1 DEF SSStop
  <2> QED
    BY <1>0, <2>1, <2>2, <2>3
<1>2. ASSUME NEW s \in Server, SSExecute(s) PROVE ListsKnown'
  <2>1. PICK t \in Thread :
          /\ t = Head(queue[s]) /\ route[t] = s
          /\ DiskAfter(disk[s], req[t]) \subseteq Known(s)
    BY <1>2, ExecutesKnown
  <2>2. conn' = [conn EXCEPT ![t] = Executed(disk[s], req[t])] /\ UNCHANGED route
    BY <1>2, <2>1 DEF SSExecute
  <2>3. Executed(disk[s], req[t]).list \subseteq Known(s)
    BY <2>1 DEF Executed, Outcome, Listing
  <2> QED
    BY <1>0, <2>1, <2>2, <2>3
<1>3. ASSUME NEW s \in Server, SSSendAck(s) \/ SSSendDetails(s) PROVE ListsKnown'
  <2>1. Head(queue[s]) \in Thread
    BY <1>0, <1>3 DEF SSSendAck, SSSendDetails
  <2>2. \A u \in Thread : /\ conn'[u].list = conn[u].list
                          /\ conn'[u] = conn[u] \/ conn[u].stage \in {"done", "acked"}
    BY <1>0, <1>3, <2>1 DEF SSSendAck, SSSendDetails, Conn
  <2>3. route' = route
    BY <1>3 DEF SSSendAck, SSSendDetails
  <2> QED
    BY <2>2, <2>3
<1>4. ASSUME NEW t \in Thread, \/ Forward(t) \/ ForwardFails(t) \/ Merge(t) PROVE ListsKnown'
  <2>1. /\ route' = route
        /\ \A u \in Thread : conn'[u] = conn[u] \/ conn'[u].stage \notin {"done", "acked", "sent"}
    BY <1>0, <1>4 DEF Forward, ForwardFails, Merge, Closed
  <2> QED
    BY <2>1
<1>5. ASSUME NEW t \in Thread, ReadBack(t) PROVE ListsKnown'
  <2>1. conn[t].stage = "none" /\ conn' = conn
    BY <1>0, <1>5 DEF ReadBack, Waiting
  <2>2. \A u \in Thread \ {t} : route'[u] = route[u]
    BY <1>0, <1>5 DEF ReadBack
  <2> QED
    BY <2>1, <2>2
<1>6. CASE UNCHANGED <<conn, route>>
  BY <1>6
<1> QED
  BY <1>1, <1>2, <1>3, <1>4, <1>5, <1>6
  DEF Next, ServersStep, ListenerStep, ServerStep, ThreadStep, SSStart, SSListen, RegisterServer,
      RegisterUnheard, RefuseServer, AckServer, AckFails, Receive, Fill, AnswerDirectly, Unlink, vars

(* Steps that leave the trie, the cache and the requests alone, or only    *)
(* finish a request, lead nobody elsewhere.                                *)
LEMMA RoutedShrinks ==
  ASSUME \A s \in Server : \A p \in Text : trie'[p] = s => trie[p] = s,
         UNCHANGED <<lru, slot, req, route>>,
         \A t \in Thread : pc[t] = "fill" => pc'[t] = "fill",
         \A t \in Thread : pc'[t] \in {"dispatch", "waiting", "unlink"} =>
                           pc[t] \in {"dispatch", "waiting", "unlink"},
         NEW s \in Server
  PROVE  RoutedTo(s)' \subseteq RoutedTo(s)
  BY DEF RoutedTo, Settled

(* The claim of an entry routes nothing: it unsettles the entry.           *)
LEMMA ReceiveRoutes ==
  ASSUME Alone, TypeOK, NEW t \in Thread, NEW r \in Request, Receive(t, r), NEW s \in Server
  PROVE  RoutedTo(s)' \subseteq RoutedTo(s)
<1>1. /\ trie' = trie /\ pc[t] = "idle" /\ pc'[t] \in {"fill", "read"}
      /\ \A j \in Slot : lru'[j] = lru[j] \/ (pc'[t] = "fill" /\ j = slot'[t])
  BY DEF Receive, indexVars, TypeOK, Cache
<1>2. \A j \in Slot : Settled(j)
  BY <1>1 DEF Alone, Settled
<1>3. \A j \in Slot : Settled(j)' => lru'[j] = lru[j]
  BY <1>1 DEF Settled
<1>4. \A u \in Thread : pc'[u] \notin {"dispatch", "waiting", "unlink"}
  BY <1>1 DEF Alone
<1> QED
  BY <1>1, <1>2, <1>3, <1>4 DEF RoutedTo

(* An entry is filled with the mark of its own path.                       *)
LEMMA FillRoutes ==
  ASSUME Alone, TypeOK, OwnEntries, NEW t \in Thread, Fill(t), NEW s \in Server
  PROVE  RoutedTo(s)' \subseteq RoutedTo(s)
<1> DEFINE p == req[t].arg
<1>1. p \in Text \union {NoText} /\ trie \in [Text -> Mark] /\ lru \in Cache /\ slot[t] \in Slot
  BY ServiceAssumption DEF TypeOK
<1>2. Found(p) = s => p \in RoutedTo(s)
  BY <1>1, FoundReadsMark DEF RoutedTo
<1>3. /\ lru'[slot[t]].key = p /\ lru'[slot[t]].value = Found(p)
      /\ \A j \in Slot \ {slot[t]} : lru'[j] = lru[j]
  BY <1>1 DEF Fill, OwnEntries, Cache, Entry
<1>4. \A j \in Slot \ {slot[t]} : Settled(j)
  BY DEF Alone, Settled
<1>5. trie' = trie /\ \A u \in Thread : pc'[u] = "read"
  BY DEF Fill, indexVars, TypeOK, Alone
<1>6. \A j \in Slot : lru'[j].value = s => lru'[j].key \in RoutedTo(s)
  BY <1>2, <1>3, <1>4 DEF RoutedTo
<1>7. {q \in Text : trie'[q] = s} \subseteq RoutedTo(s)
  BY <1>5 DEF RoutedTo
<1> QED
  BY <1>5, <1>6, <1>7 DEF RoutedTo

(* The entry that is read back is that of the request's path.              *)
LEMMA ReadBackRoutes ==
  ASSUME Alone, TypeOK, OwnEntries, NEW t \in Thread, ReadBack(t), NEW s \in Server
  PROVE  RoutedTo(s)' \subseteq RoutedTo(s)
<1>1. slot[t] \in Slot /\ pc[t] = "read" /\ UNCHANGED <<lru, req, trie>>
  BY DEF ReadBack, indexVars, TypeOK
<1>2. \A j \in Slot : Settled(j)
  BY <1>1 DEF Alone, Settled
<1>3. lru[slot[t]].value = s => req[t].arg \in RoutedTo(s)
  BY <1>1, <1>2 DEF OwnEntries, RoutedTo
<1>4. route'[t] = lru[slot[t]].value
  BY DEF ReadBack, TypeOK
<1>5. \A u \in Thread : route'[u] = s => req'[u].arg \in RoutedTo(s)
  BY <1>1, <1>3, <1>4 DEF Alone
<1>6. {lru[i].key : i \in {i \in Slot : lru[i].value = s}} \subseteq RoutedTo(s)
  BY <1>2 DEF RoutedTo
<1>7. {q \in Text : trie[q] = s} \subseteq RoutedTo(s)
  BY DEF RoutedTo
<1> QED
  BY <1>1, <1>5, <1>6, <1>7 DEF RoutedTo

(* The two steps that may lead to a server more than before: it registers, *)
(* or a list is merged for it.                                             *)
RoutesMove(s) ==
  \/ RoutedTo(s)' \subseteq RoutedTo(s)
  \/ s \in online' /\ (Serving(s)' => RoutedTo(s)' \subseteq Known(s))

LEMMA NobodyRouted ==
  ASSUME TypeOK, RoutesOnline, NEW s \in Server, s \notin online
  PROVE  RoutedTo(s) = {}
  BY DEF RoutesOnline, Range, RoutedTo, TypeOK

LEMMA RegisterRoutes ==
  ASSUME TypeOK, RoutesOnline, RoutesKnown, NEW u \in Server, RegisterServer(u), NEW s \in Server
  PROVE  RoutesMove(s)
<1>1. /\ trie \in [Text -> Mark] /\ UNCHANGED <<lru, slot, req, route, pc>>
      /\ trie' = InsertAll(trie, Listing(disk[u]), u)
      /\ u \in online' /\ u \notin online
  BY DEF RegisterServer, Announced, threadVars, TypeOK
<1>2. Listing(disk[u]) \in SUBSET Text /\ Listing(disk[u]) \subseteq Known(u)
  BY DEF Listing, TypeOK, RoutesKnown
<1>3. /\ \A v \in Server \ {u} : \A p \in Text : trie'[p] = v => trie[p] = v
      /\ \A p \in Text : trie'[p] = u => trie[p] = u \/ p \in Known(u)
  BY <1>1, <1>2, InsertAllMarks
<1>4. CASE s = u
  <2>1. RoutedTo(u) = {}
    BY <1>1, NobodyRouted
  <2>2. RoutedTo(u)' \subseteq RoutedTo(u) \union Known(u)
    BY <1>1, <1>3 DEF RoutedTo, Settled
  <2> QED
    BY <1>1, <1>4, <2>1, <2>2 DEF RoutesMove
<1>5. CASE s # u
  BY <1>1, <1>3, <1>5 DEF RoutedTo, RoutesMove, Settled
<1> QED
  BY <1>4, <1>5

LEMMA MergeRoutes ==
  ASSUME TypeOK, Processes, Waiting, Outcomes, ListsKnown, RoutesKnown, [Next]_vars,
         NEW t \in Thread, Merge(t), NEW s \in Server
  PROVE  RoutesMove(s)
<1> DEFINE u == route[t]
<1>1. u \in online /\ online \subseteq Server /\ u \in Server
  BY DEF Merge, Outcomes, OutcomeOf, TypeOK
<1>2. /\ trie \in [Text -> Mark] /\ UNCHANGED <<lru, slot, req, route>>
      /\ trie' = InsertAll(trie, Details(t), u)
      /\ \A v \in Thread : pc[v] = "fill" <=> pc'[v] = "fill"
      /\ \A v \in Thread : pc'[v] \in {"dispatch", "waiting", "unlink"} =>
                           pc[v] \in {"dispatch", "waiting", "unlink"}
      /\ online' = online
  BY DEF Merge, TypeOK
<1>3. Details(t) \in SUBSET Text
  BY DEF Details, TypeOK, Conn
<1>4. \A v \in Server \ {u} : \A p \in Text : trie'[p] = v => trie[p] = v
  BY <1>1, <1>2, <1>3, InsertAllMarks
<1>5. CASE s # u
  BY <1>2, <1>4, <1>5 DEF RoutedTo, RoutesMove, Settled
<1>6. CASE s = u
  <2> SUFFICES ASSUME Serving(s)' PROVE RoutedTo(s)' \subseteq Known(s)
    BY <1>1, <1>2, <1>6 DEF RoutesMove
  <2>1. Serving(s)
    BY <1>1, <1>6, ProcessStep DEF ProcessesKept, StayOut
  <2>2. Details(t) \subseteq Known(s)
    BY <1>6, <2>1 DEF Details, Merge, Outcomes, OutcomeOf, ListsKnown
  <2>3. \A p \in Text : trie'[p] = s => trie[p] = s \/ p \in Known(s)
    BY <1>1, <1>2, <1>3, <1>6, <2>2, InsertAllMarks
  <2>4. RoutedTo(s)' \subseteq RoutedTo(s) \union Known(s)
    BY <1>2, <2>3 DEF RoutedTo, Settled
  <2> QED
    BY <2>1, <2>4 DEF RoutesKnown
<1> QED
  BY <1>5, <1>6

LEMMA RoutesMoveStep ==
  Alone /\ KInv /\ [Next]_vars => \A s \in Server : RoutesMove(s)
<1> SUFFICES ASSUME Alone, KInv, [Next]_vars, NEW s \in Server PROVE RoutesMove(s)
  OBVIOUS
<1> USE DEF KInv, IInv
<1>1. ASSUME UNCHANGED <<trie, lru, slot, req, route, pc>> PROVE RoutesMove(s)
  BY <1>1 DEF RoutesMove, RoutedTo, Settled
<1>2. ASSUME NEW t \in Thread, AnswerDirectly(t) \/ Forward(t) \/ ForwardFails(t) \/ Unlink(t)
      PROVE  RoutesMove(s)
  <2>1. /\ UNCHANGED <<lru, slot, req, route>>
        /\ \A u \in Thread : pc[u] = "fill" => pc'[u] = "fill"
        /\ \A u \in Thread : pc'[u] \in {"dispatch", "waiting", "unlink"} =>
                             pc[u] \in {"dispatch", "waiting", "unlink"}
    BY <1>2 DEF AnswerDirectly, Forward, ForwardFails, Unlink, TypeOK
  <2>2. \A u \in Server : \A p \in Text : trie'[p] = u => trie[p] = u
    <3>1. CASE ~Unlink(t)
      BY <1>2, <3>1 DEF AnswerDirectly, Forward, ForwardFails, indexVars
    <3> QED
      BY <3>1, UnlinkMarks
  <2> QED
    BY <2>1, <2>2, RoutedShrinks DEF RoutesMove
<1>3. ASSUME NEW t \in Thread, (\E r \in Request : Receive(t, r)) \/ Fill(t) \/ ReadBack(t)
      PROVE  RoutesMove(s)
  BY <1>3, ReceiveRoutes, FillRoutes, ReadBackRoutes DEF RoutesMove
<1>4. ASSUME NEW t \in Thread, Merge(t) PROVE RoutesMove(s)
  BY <1>4, MergeRoutes
<1>5. ASSUME NEW u \in Server, RegisterServer(u) PROVE RoutesMove(s)
  BY <1>5, RegisterRoutes
<1>6. ASSUME NEW u \in Server, \/ SSStart(u) \/ SSListen(u) \/ SSStop(u) \/ RefuseServer(u)
                               \/ ServerStep(u) \/ RegisterUnheard(u)
      PROVE  RoutesMove(s)
  <2>1. UNCHANGED <<trie, lru, slot, req, route, pc>>
    BY <1>6 DEF RegisterUnheard, SSStart, SSListen, SSStop, RefuseServer, ServerStep, SSExecute, SSSendAck,
                SSSendDetails, indexVars, threadVars
  <2> QED
    BY <1>1, <2>1
<1>7. CASE AckServer \/ AckFails \/ UNCHANGED vars
  <2>1. UNCHANGED <<trie, lru, slot, req, route, pc>>
    BY <1>7 DEF AckServer, AckFails, vars, indexVars, threadVars
  <2> QED
    BY <1>1, <2>1
<1> QED
  BY <1>2, <1>3, <1>4, <1>5, <1>6, <1>7 DEF Next, ServersStep, ListenerStep, ThreadStep

(* Only a forwarded request changes a disk.                                *)
LEMMA DiskKnownStep ==
  ASSUME TypeOK, Waiting, RoutesKnown, [Next]_vars, NEW s \in Server
  PROVE  disk'[s] \subseteq Known(s)
<1>1. ASSUME disk' = disk PROVE disk'[s] \subseteq Known(s)
  BY <1>1 DEF RoutesKnown
<1>2. ASSUME NEW u \in Server, SSExecute(u) PROVE disk'[s] \subseteq Known(s)
  <2>1. DiskAfter(disk[u], req[Head(queue[u])]) \subseteq Known(u)
    BY <1>2, ExecutesKnown
  <2>2. disk \in [Server -> SUBSET Text] /\ disk[s] \subseteq Known(s)
    BY DEF TypeOK, RoutesKnown
  <2> QED
    BY <1>2, <2>1, <2>2 DEF SSExecute
<1> QED
  BY <1>1, <1>2
  DEF Next, ServersStep, ListenerStep, ServerStep, ThreadStep, SSStart, SSListen, SSStop, SSSendAck,
      SSSendDetails, RegisterServer, RegisterUnheard, RefuseServer, AckServer, AckFails,
      Receive, Fill, ReadBack,
      AnswerDirectly, Forward, ForwardFails, Merge, Unlink, vars, diskVars

LEMMA RoutesKnownStep == Alone /\ KInv /\ [Next]_vars => RoutesKnown'
<1> SUFFICES ASSUME Alone, KInv, [Next]_vars PROVE RoutesKnown'
  OBVIOUS
<1>1. online \subseteq online' /\ StayOut
  BY ProcessStep DEF KInv, IInv, ProcessesKept
<1>2. \A s \in Server : RoutesMove(s)
  BY RoutesMoveStep
<1>3. ASSUME NEW s \in Server, Serving(s)' PROVE RoutedTo(s)' \subseteq Known(s)
  <2>1. RoutedTo(s) \subseteq Known(s)
    <3>1. CASE s \in online
      BY <1>1, <1>3, <3>1 DEF StayOut, KInv, RoutesKnown
    <3>2. CASE s \notin online
      BY <3>2, NobodyRouted DEF KInv, IInv
    <3> QED
      BY <3>1, <3>2
  <2> QED
    BY <1>2, <1>3, <2>1 DEF RoutesMove
<1>4. \A s \in Server : disk'[s] \subseteq Known(s)
  BY DiskKnownStep DEF KInv, IInv
<1> QED
  BY <1>3, <1>4 DEF RoutesKnown

LEMMA InitKnown == Init => OwnEntries /\ ListsKnown /\ RoutesKnown
<1> SUFFICES ASSUME Init PROVE OwnEntries /\ ListsKnown /\ RoutesKnown
  OBVIOUS
<1>1. \A s \in Server : RoutedTo(s) = {}
  BY MarkAssumption DEF Init, RoutedTo, EmptyTrie, EmptyCache
<1>2. \A s \in Server : disk[s] \subseteq Known(s)
  BY ServiceAssumption DEF Init, Known
<1>3. OwnEntries /\ ListsKnown
  BY DEF Init, OwnEntries, ListsKnown, Closed
<1> QED
  BY <1>1, <1>2, <1>3 DEF RoutesKnown

LEMMA KnownStep == Alone /\ KInv /\ [Next]_vars => KInv'
  BY InvariantStep, OwnEntriesStep, ListsKnownStep, RoutesKnownStep DEF KInv, IInv

(* The invariant of one client thread.                                     *)
THEOREM NamingKnownInvariant == ASSUME Alone PROVE Spec => []KInv
<1>1. Init => KInv
  BY InitInvariant, InitKnown DEF KInv
<1>2. KInv /\ [Next]_vars => KInv'
  BY KnownStep
<1> QED
  BY <1>1, <1>2, PTL DEF Spec

(* With one client thread, a running server is only asked for what it      *)
(* announced at registration (nm.c:58, nm_helper.c:130-145), whatever the  *)
(* servers do meanwhile.                                                   *)
THEOREM NamingRoutesKnown == ASSUME Alone PROVE Spec => []RoutesKnown
<1>1. KInv => RoutesKnown
  BY DEF KInv
<1> QED
  BY <1>1, NamingKnownInvariant, PTL
=============================================================================
