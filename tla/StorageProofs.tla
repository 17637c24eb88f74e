---------------------------- MODULE StorageProofs ----------------------------
(***************************************************************************)
(* What a storage server does for its clients and for the naming server,   *)
(* for any clients, files and requests.  Everything rests on who has the   *)
(* mutex: while clientThread has it the disk is its own, and while         *)
(* nmThread has it so is the list.  The rest of the invariant follows a    *)
(* client from the backlog to its acknowledgment, and its chunks from the  *)
(* wire to the file.                                                       *)
(***************************************************************************)
EXTENDS StorageServer, FiniteSetTheorems, SequenceTheorems, TLAPS

-----------------------------------------------------------------------------
(* The invariant.                                                          *)

CltIn == clt.pc \in {"open", "truncate", "transfer", "post"}
NmIn  == nm.pc \in {"execute", "list"}

(* The mutex is free, or one of the two threads has it.                    *)
Exclusive == /\ ~(CltIn /\ NmIn)
             /\ mutex = 1 <=> ~CltIn /\ ~NmIn

(* The list is of the files on the disk, except those that readdir has     *)
(* still to give.                                                          *)
Unlisted == IF nm.pc = "list" THEN nm.unlisted ELSE {}
Listed ==
  /\ Unlisted \subseteq Present
  /\ numPaths = Cardinality(Present \ Unlisted)
  /\ {entries[n] : n \in 1..numPaths} = Present \ Unlisted

(* Only an executed request has an outcome.                                *)
NoOutcome == nm.pc \in {"accept", "wait", "execute"} => nm.ack = "success"

(* The client has not connected or has not been accepted.                  *)
Queued(c) == \E n \in 1..Len(backlog) : backlog[n] = c
Fresh(c) == stage[c] = "new" \/ Queued(c)

(* A client is accepted once, and until then nothing was done for it.      *)
Newcomers ==
  /\ \A m, n \in 1..Len(backlog) : backlog[m] = backlog[n] => m = n
  /\ \A n \in 1..Len(backlog) : stage[backlog[n]] # "new"
  /\ \A c \in Client : stage[c] = "new" => asked[c] = Absent /\ sent[c] = 0
  /\ \A c \in Client : asked[c] = Absent => stage[c] \in {"new", "gone"} /\ wire[c] = <<>>
  /\ \A c \in Client : Fresh(c) =>
       /\ served[c] = 0 /\ told[c] = "none" /\ got[c] = <<>>
       /\ Len(wire[c]) = sent[c]
       /\ clt.by # c
       /\ clt.pc # "accept" => cur # c

Searching == clt.pc \in {"check", "compare", "refuse"}
Found == clt.pc \in {"wait", "open", "truncate", "transfer", "post", "ack"}

(* clientThread executes what the client sent that it accepted, or, if     *)
(* this one sent nothing, an earlier request that it never executed: once  *)
(* its path was found it has lost its slash.                               *)
Executing ==
  /\ clt.by # Absent => /\ asked[clt.by] # Absent
                        /\ served[clt.by] = IF clt.stripped THEN 1 ELSE 0
  /\ Searching => ~clt.stripped
  /\ Found => clt.stripped /\ clt.by # Absent
  /\ clt.pc # "accept" =>
       /\ told[cur] = "none"
       /\ IF asked[cur] = Absent THEN stage[cur] = "gone" ELSE clt.by = cur
  /\ clt.pc = "check" => clt.i # 0
  /\ clt.pc = "compare" => clt.i \in 1..Cardinality(File) /\ entries[clt.i] \in File

Before == clt.pc \in {"check", "compare", "refuse", "wait", "open", "truncate"}

(* The file that is open is there, and what was read is its beginning.     *)
Opened ==
  /\ clt.pc = "truncate" => request.op = "WRITE_FILE"
  /\ clt.pc = "transfer" => request.op \in {"READ_FILE", "WRITE_FILE"}
  /\ clt.pc \in {"truncate", "transfer"} \/ (clt.pc = "post" /\ clt.ack = "success") =>
       content[path] # Absent
  /\ Before => got[cur] = <<>>
  /\ clt.pc = "transfer" /\ request.op = "READ_FILE" =>
       /\ Len(got[cur]) <= Len(content[path])
       /\ \A n \in 1..Len(got[cur]) : got[cur][n] = content[path][n]

(* The chunks of a write are on the wire or in the file, and its last      *)
(* chunk is the last that is sent.                                         *)
Chunks ==
  /\ \A c \in Client : \A k \in 1..Len(wire[c]) :
       wire[c][k] => k = Len(wire[c]) /\ stage[c] # "sending"
  /\ \A c \in Client : stage[c] = "sending" => asked[c].op = "WRITE_FILE" /\ sent[c] < MaxChunks
  /\ \A c \in Client : asked[c] # Absent /\ asked[c].op # "WRITE_FILE" => wire[c] = <<>>
  /\ Before => Len(wire[cur]) = sent[cur]
  /\ clt.pc = "transfer" /\ request.op = "WRITE_FILE" /\ stage[cur] # "gone" =>
       /\ Len(wire[cur]) <= sent[cur]
       /\ content[path] = [n \in 1..(sent[cur] - Len(wire[cur])) |-> cur]

(* What is acknowledged is complete: if the loop of a write only ends     *)
(* with the last chunk.                                                    *)
Taken ==
  clt.pc \in {"post", "ack"} /\ clt.ack = "success" => wire[cur] = <<>> /\ stage[cur] # "sending"
Acknowledged ==
  /\ \A d \in Client : stage[d] = "success" => told[d] = "success"
  /\ \A d \in Client : told[d] = "success" /\ stage[d] # "gone" =>
       served[d] = 1 /\ wire[d] = <<>> /\ stage[d] # "sending"

Placed == Exclusive /\ Listed /\ NoOutcome
Served == Newcomers /\ Executing /\ ExecutedOnce /\ Opened /\ ReadWhole /\ Chunks

IInv == TypeOK /\ Placed /\ Served
WInv == IInv /\ Taken /\ Acknowledged /\ WriteWhole

-----------------------------------------------------------------------------
(* What the groups of steps leave alone.                                   *)

ProgramStep(d) == (\E a \in Ask : Connect(d, a)) \/ HangUp(d) \/ SendChunk(d) \/ Leave(d) \/ Show(d)
NmStep == NmThread \/ \E r \in Forwarded : NmAccept(r)

LEMMA NextSteps == Next <=> (\E d \in Client : ProgramStep(d)) \/ NmStep \/ ClientThread \/ BrokenPipe
  BY DEF Next, ProgramStep, NmStep

LEMMA ProgramFrame ==
  ASSUME TypeOK, NEW d \in Client, ProgramStep(d)
  PROVE  /\ UNCHANGED <<up, content, entries, numPaths, mutex, nm, forwards, clt, got, told, served>>
         /\ \A c \in Client \ {d} : /\ asked'[c] = asked[c] /\ stage'[c] = stage[c]
                                    /\ wire'[c] = wire[c] /\ sent'[c] = sent[c]
  BY SMTT(30) DEF TypeOK, ProgramStep, Connect, HangUp, SendChunk, Leave, Show, diskVars

LEMMA NmFrame ==
  NmStep => UNCHANGED <<up, clt, backlog, asked, stage, wire, sent, got, told, served>>
  BY DEF NmStep, NmThread, NmAccept, NmTakeMutex, NmExecute, NmList, NmPost, NmReply, diskVars,
         clientVars

LEMMA CltFrame ==
  ClientThread => UNCHANGED <<up, entries, numPaths, nm, forwards, asked, stage, sent>>
  BY DEF ClientThread, Accept, Check, Compare, Refuse, CltTakeMutex, Open, Truncate, ReadChunk,
         WriteChunk, WriteAgain, CltPost, SendAck, diskVars, clientVars

LEMMA PipeFrame ==
  BrokenPipe => UNCHANGED <<content, entries, numPaths, mutex, nm, forwards, clt, backlog,
                            asked, stage, wire, sent, got, told, served>>
  BY DEF BrokenPipe, diskVars, clientVars

(* What clientThread executes is a request for a file.                     *)
LEMMA RequestIsAsk ==
  ASSUME IInv, Found
  PROVE  /\ clt.by \in Client /\ request \in Ask
         /\ request.op \in Op /\ request.file \in File /\ path = request.file
<1>1. clt.by \in Client /\ asked[clt.by] \in Ask
  BY DEF IInv, Served, Executing, TypeOK
<1>2. Ask \subseteq [op : Op, file : File]
  BY StorageAssumption
<1> QED
  BY <1>1, <1>2, StorageAssumption DEF request, path

(* The files a listing can hold are finitely many.                         *)
LEMMA FilesFinite ==
  ASSUME NEW S \in SUBSET File
  PROVE  /\ IsFiniteSet(S) /\ Cardinality(S) \in Nat /\ Cardinality(S) <= Cardinality(File)
         /\ Cardinality(File) \in Nat
         /\ \A g \in File \ S : /\ Cardinality(S \union {g}) = Cardinality(S) + 1
                                /\ Cardinality(S) + 1 <= Cardinality(File)
<1>1. IsFiniteSet(File) /\ IsFiniteSet(S)
  BY StorageAssumption, FS_Subset
<1>2. Cardinality(S) \in Nat /\ Cardinality(File) \in Nat /\ Cardinality(S) <= Cardinality(File)
  BY <1>1, FS_CardinalityType, FS_Subset
<1>3. ASSUME NEW g \in File \ S
      PROVE  Cardinality(S \union {g}) = Cardinality(S) + 1 /\ Cardinality(S) + 1 <= Cardinality(File)
  <2>1. Cardinality(S \union {g}) = Cardinality(S) + 1
    BY <1>1, FS_AddElement
  <2>2. Cardinality(S \union {g}) <= Cardinality(File)
    BY <1>1, FS_Subset
  <2> QED
    BY <2>1, <2>2
<1> QED
  BY <1>1, <1>2, <1>3

-----------------------------------------------------------------------------
(* The initial state.                                                      *)

LEMMA InitialFiles ==
  /\ Len(InitFile) \in Nat /\ Len(InitFile) = Cardinality(Range(InitFile))
  /\ Range(InitFile) \subseteq File
  /\ Range(InitFile) = {InitFile[n] : n \in 1..Len(InitFile)}
<1>1. InitFile \in Seq(File) /\ Len(InitFile) \in Nat /\ DOMAIN InitFile = 1..Len(InitFile)
  BY StorageAssumption
<1>2. Range(InitFile) = {InitFile[n] : n \in 1..Len(InitFile)}
  BY <1>1 DEF Range
<1>3. InitFile \in [1..Len(InitFile) -> Range(InitFile)]
  BY <1>1, <1>2
<1>4. InitFile \in Bijection(1..Len(InitFile), Range(InitFile))
  BY <1>2, <1>3, StorageAssumption DEF Bijection, Injection, IsInjective, Surjection
<1>5. ExistsBijection(1..Len(InitFile), Range(InitFile))
  BY <1>4 DEF ExistsBijection
<1> QED
  BY <1>1, <1>2, <1>5, FS_CountingElements

LEMMA StorageInit == Init => WInv
<1> SUFFICES ASSUME Init PROVE WInv
  OBVIOUS
<1> USE DEF Init
<1>1. Present = Range(InitFile)
  <2>1. <<Old>> \in Seq(Client \union {Old})
    OBVIOUS
  <2> QED
    BY <2>1, InitialFiles, StorageAssumption DEF Present
<1>2. Len(InitFile) <= Cardinality(File) /\ Cardinality(File) \in Nat /\ Len(InitFile) \in Nat
  BY InitialFiles, FilesFinite
<1>0. ASSUME NEW L \in Nat, NEW C \in Nat, L <= C, NEW n \in 1..L PROVE n \in 1..C
  BY <1>0
<1>3. TypeOK
  <2>1. /\ content \in [File -> {Absent} \union Seq(Chunk)]
        /\ entries \in [1..Cardinality(File) -> File \union {Absent}]
        /\ numPaths \in 0..Cardinality(File)
    <3>1. <<Old>> \in Seq(Chunk)
      BY DEF Chunk
    <3>2. \A n \in 1..Len(InitFile) : InitFile[n] \in File
      BY StorageAssumption
    <3> QED
      BY <1>2, <3>1, <3>2
  <2>2. nm \in [pc : NmPc, req : Forwarded, unlisted : SUBSET File, ack : {"success", "failure"}]
    BY StorageAssumption DEF NmPc
  <2>3. clt \in [pc : CltPc, client : Client, i : Nat, ack : {"success", "failure"},
                 by : Client \union {Absent}, stripped : BOOLEAN]
    BY StorageAssumption DEF CltPc
  <2> QED
    BY <2>1, <2>2, <2>3, StorageAssumption DEF TypeOK, Stage
<1>4. Exclusive /\ NoOutcome
  BY DEF Exclusive, CltIn, NmIn, NoOutcome
<1>5. Listed
  <2>1. {entries[n] : n \in 1..numPaths} = {InitFile[n] : n \in 1..Len(InitFile)}
    <3>1. \A n \in 1..Len(InitFile) : n \in 1..Cardinality(File)
      BY <1>0, <1>2
    <3>2. numPaths = Len(InitFile) /\ \A n \in 1..numPaths : entries[n] = InitFile[n]
      BY <1>2, <3>1
    <3> QED
      BY <3>2
  <2>2. Unlisted = {} /\ Present \ {} = Present
    BY DEF Unlisted
  <2> QED
    BY <1>1, <2>1, <2>2, InitialFiles DEF Listed
<1>6. Newcomers
  BY StorageAssumption DEF Newcomers, Fresh, Queued
<1>7. Executing /\ ExecutedOnce
  BY DEF Executing, Searching, Found, ExecutedOnce
<1>8. Opened /\ ReadWhole /\ WriteWhole
  BY DEF Opened, ReadWhole, WriteWhole, Before
<1>9. Chunks /\ Taken /\ Acknowledged
  BY DEF Chunks, Taken, Acknowledged, Before
<1> QED
  BY <1>3, <1>4, <1>5, <1>6, <1>7, <1>8, <1>9 DEF WInv, IInv, Placed, Served

-----------------------------------------------------------------------------
(* Steps of clientThread.                                                  *)

CltRecord == [pc : CltPc, client : Client, i : Nat, ack : {"success", "failure"},
              by : Client \union {Absent}, stripped : BOOLEAN]

LEMMA GotoEffect ==
  ASSUME TypeOK, NEW pc \in CltPc, CltGoto(pc)
  PROVE  /\ clt' \in CltRecord /\ clt'.pc = pc
         /\ clt'.client = clt.client /\ clt'.i = clt.i /\ clt'.ack = clt.ack
         /\ clt'.by = clt.by /\ clt'.stripped = clt.stripped
  BY DEF TypeOK, CltGoto, CltRecord

LEMMA SameRequest ==
  ASSUME clt'.client = clt.client, clt'.by = clt.by, asked' = asked
  PROVE  cur' = cur /\ request' = request /\ path' = path
  BY DEF cur, request, path

LEMMA ListedAreFiles ==
  ASSUME IInv, NEW n \in 1..numPaths
  PROVE  n \in 1..Cardinality(File) /\ entries[n] \in File
<1>1. entries[n] \in Present
  BY DEF IInv, Placed, Listed
<1>2. Cardinality(File) \in Nat /\ numPaths \in 0..Cardinality(File)
  BY FilesFinite DEF IInv, TypeOK
<1> QED
  BY <1>1, <1>2 DEF Present

LEMMA CheckKeeps == IInv /\ Check => TypeOK' /\ Served'
<1> SUFFICES ASSUME IInv, Check PROVE TypeOK' /\ Served'
  OBVIOUS
<1>1. /\ clt.pc = "check"
      /\ UNCHANGED <<up, content, entries, numPaths, mutex, nm, forwards, backlog,
                     asked, stage, wire, sent, got, told, served>>
      /\ CltGoto(IF clt.i <= numPaths THEN "compare" ELSE "refuse")
  BY DEF Check, CltAt, diskVars, clientVars
<1>2. /\ clt' \in CltRecord /\ clt'.pc = IF clt.i <= numPaths THEN "compare" ELSE "refuse"
      /\ clt'.client = clt.client /\ clt'.i = clt.i /\ clt'.ack = clt.ack
      /\ clt'.by = clt.by /\ clt'.stripped = clt.stripped
  BY <1>1, GotoEffect DEF IInv, CltPc
<1>3. cur' = cur /\ request' = request /\ path' = path
  BY <1>1, <1>2, SameRequest
<1>4. TypeOK /\ Newcomers /\ Executing /\ ExecutedOnce /\ Opened /\ ReadWhole /\ Chunks
  BY DEF IInv, Served
<1>5. TypeOK'
  BY <1>1, <1>2, <1>4 DEF TypeOK, CltRecord
<1>6. Newcomers' /\ ExecutedOnce'
  BY <1>1, <1>2, <1>3, <1>4 DEF Newcomers, Fresh, Queued, ExecutedOnce
<1>7. Executing'
  <2>1. clt.i <= numPaths => clt.i \in 1..Cardinality(File) /\ entries[clt.i] \in File
    BY <1>1, <1>4, ListedAreFiles DEF Executing, TypeOK
  <2> QED
    BY <1>1, <1>2, <1>3, <1>4, <2>1 DEF Executing, Searching, Found
<1>8. Opened' /\ ReadWhole' /\ Chunks'
  BY <1>1, <1>2, <1>3, <1>4 DEF Opened, Before, ReadWhole, Chunks
<1> QED
  BY <1>5, <1>6, <1>7, <1>8 DEF Served

LEMMA CompareKeeps == IInv /\ Compare => TypeOK' /\ Served'
<1> SUFFICES ASSUME IInv, Compare PROVE TypeOK' /\ Served'
  OBVIOUS
<1>1. /\ clt.pc = "compare"
      /\ UNCHANGED <<up, content, entries, numPaths, mutex, nm, forwards, backlog,
                     asked, stage, wire, sent, got, told>>
  BY DEF Compare, CltAt, diskVars
<1>2. TypeOK /\ Newcomers /\ Executing /\ ExecutedOnce /\ Opened /\ ReadWhole /\ Chunks
  BY DEF IInv, Served
<1>3. clt \in CltRecord /\ served \in [Client -> 0..2]
  BY <1>2 DEF TypeOK, CltRecord
<1>4. /\ clt' \in CltRecord /\ clt'.client = clt.client /\ clt'.by = clt.by
      /\ \/ /\ clt'.pc = "wait" /\ clt'.stripped /\ clt.by \in Client
            /\ served[clt.by] = 0 /\ served' = [served EXCEPT ![clt.by] = 1]
         \/ /\ clt'.pc = "check" /\ clt'.i # 0 /\ clt'.stripped = clt.stripped
            /\ served' = served
  <2>1. CASE entries[clt.i] = path
    <3>1. clt' = [clt EXCEPT !.pc = "wait", !.stripped = TRUE]
          /\ served' = [served EXCEPT ![clt.by] = IF @ < 2 THEN @ + 1 ELSE @]
      BY <2>1 DEF Compare
    <3>2. clt.by # Absent /\ clt.by \in Client
      BY <1>1, <1>2, <1>3, <2>1, StorageAssumption DEF Executing, CltRecord, path
    <3>3. served[clt.by] = 0
      BY <1>1, <1>2, <3>2 DEF Executing, Searching
    <3>4. /\ clt'.client = clt.client /\ clt'.by = clt.by /\ clt'.pc = "wait" /\ clt'.stripped
          /\ clt' \in CltRecord
      BY <1>3, <3>1 DEF CltRecord, CltPc
    <3>5. served' = [served EXCEPT ![clt.by] = 1]
      BY <1>3, <3>1, <3>2, <3>3
    <3> QED
      BY <3>2, <3>3, <3>4, <3>5
  <2>2. CASE entries[clt.i] # path
    <3>1. clt' = [clt EXCEPT !.pc = "check", !.i = clt.i + 1] /\ served' = served
      BY <2>2 DEF Compare
    <3>2. clt.i \in Nat /\ clt.i + 1 # 0 /\ clt.i + 1 \in Nat
      BY <1>3 DEF CltRecord
    <3>3. /\ clt'.client = clt.client /\ clt'.by = clt.by /\ clt'.pc = "check"
          /\ clt'.stripped = clt.stripped /\ clt'.i = clt.i + 1
      BY <1>3, <3>1 DEF CltRecord
    <3>4. clt' \in CltRecord
      BY <1>3, <3>1, <3>2 DEF CltRecord, CltPc
    <3> QED
      BY <3>1, <3>2, <3>3, <3>4
  <2> QED
    BY <2>1, <2>2
<1>5. cur' = cur /\ request' = request /\ path' = path
  BY <1>1, <1>4, SameRequest
<1>6. TypeOK' /\ ExecutedOnce'
  <2>1. served' \in [Client -> 0..2] /\ \A d \in Client : served'[d] <= 1
    BY <1>2, <1>3, <1>4 DEF ExecutedOnce
  <2> QED
    BY <1>1, <1>2, <1>4, <2>1 DEF TypeOK, CltRecord, ExecutedOnce
<1>7. Newcomers'
  <2>1. \A c \in Client : clt.by # c => served'[c] = served[c]
    BY <1>3, <1>4
  <2> QED
    BY <1>1, <1>2, <1>4, <1>5, <2>1 DEF Newcomers, Fresh, Queued
<1>8. Executing'
  <2>1. clt.by # Absent => served'[clt.by] = IF clt'.stripped THEN 1 ELSE 0
    BY <1>1, <1>2, <1>3, <1>4 DEF Executing, Searching
  <2>2. clt.by \in Client => clt.by # Absent
    BY StorageAssumption
  <2> QED
    BY <1>1, <1>2, <1>4, <1>5, <2>1, <2>2 DEF Executing, Searching, Found
<1>9. Opened' /\ ReadWhole' /\ Chunks'
  BY <1>1, <1>2, <1>4, <1>5 DEF Opened, Before, ReadWhole, Chunks
<1> QED
  BY <1>6, <1>7, <1>8, <1>9 DEF Served

LEMMA AcceptKeeps == IInv /\ Accept => TypeOK' /\ Served'
<1> SUFFICES ASSUME IInv, Accept PROVE TypeOK' /\ Served'
  OBVIOUS
<1> DEFINE c == Head(backlog)
<1>1. /\ clt.pc = "accept" /\ backlog # <<>> /\ backlog' = Tail(backlog)
      /\ UNCHANGED <<up, content, entries, numPaths, mutex, nm, forwards,
                     asked, stage, wire, sent, got, told, served>>
  BY DEF Accept, CltAt, diskVars, clientVars
<1>2. TypeOK /\ Newcomers /\ Executing /\ ExecutedOnce /\ Opened /\ ReadWhole /\ Chunks
  BY DEF IInv, Served
<1>3. backlog \in Seq(Client) /\ clt \in CltRecord
  BY <1>2 DEF TypeOK, CltRecord
<1>4. /\ c \in Client /\ c = backlog[1] /\ 1 \in 1..Len(backlog)
      /\ backlog' \in Seq(Client)
      /\ \A n \in 1..Len(backlog') : n + 1 \in 1..Len(backlog) /\ backlog'[n] = backlog[n + 1]
                                     /\ n + 1 # 1
  BY <1>1, <1>3
<1>5. /\ clt'.pc = "check" /\ clt'.client = c /\ clt'.i = 1 /\ clt'.ack = "success"
      /\ clt'.stripped = FALSE
      /\ clt'.by \in Client \union {Absent} /\ clt' \in CltRecord
      /\ \/ clt'.by = c /\ asked[c] # Absent
         \/ clt'.by = Absent /\ asked[c] = Absent
         \/ clt'.by = clt.by /\ asked[c] = Absent /\ ~clt.stripped
  <2>1. PICK b : /\ clt' = [pc |-> "check", client |-> c, i |-> 1, ack |-> "success",
                            stripped |-> FALSE, by |-> b]
                 /\ \/ b = c /\ asked[c] # Absent
                    \/ b = Absent /\ asked[c] = Absent
                    \/ b = clt.by /\ asked[c] = Absent /\ ~clt.stripped
    <3>1. CASE asked[c] # Absent
      BY <3>1 DEF Accept
    <3>2. CASE asked[c] = Absent /\ clt.stripped
      BY <3>2 DEF Accept
    <3>3. CASE asked[c] = Absent /\ ~clt.stripped
      BY <3>3 DEF Accept
    <3> QED
      BY <3>1, <3>2, <3>3
  <2>2. b \in Client \union {Absent}
    BY <1>3, <1>4, <2>1 DEF CltRecord
  <2> QED
    BY <1>4, <2>1, <2>2 DEF CltRecord, CltPc
<1>6. cur' = c
  BY <1>5 DEF cur
<1>7. TypeOK'
  BY <1>1, <1>2, <1>4, <1>5 DEF TypeOK, CltRecord
<1>8. Fresh(c) /\ stage[c] # "new"
  BY <1>2, <1>4 DEF Fresh, Queued, Newcomers
<1>9. \A d \in Client : Fresh(d)' => Fresh(d) /\ d # c
  BY <1>1, <1>2, <1>4, <1>8 DEF Fresh, Queued, Newcomers
<1>10. Newcomers'
  <2>1. \A m, n \in 1..Len(backlog') : backlog'[m] = backlog'[n] => m = n
    BY <1>2, <1>4 DEF Newcomers
  <2>2. \A n \in 1..Len(backlog') : stage'[backlog'[n]] # "new"
    BY <1>1, <1>2, <1>4 DEF Newcomers
  <2>3. \A d \in Client : Fresh(d)' => clt'.by # d /\ cur' # d
    BY <1>2, <1>5, <1>6, <1>9, StorageAssumption DEF Newcomers
  <2> QED
    BY <1>1, <1>2, <1>9, <2>1, <2>2, <2>3 DEF Newcomers
<1>11. Executing' /\ ExecutedOnce'
  <2>1. served[c] = 0 /\ told[c] = "none" /\ (asked[c] = Absent => stage[c] = "gone")
    BY <1>2, <1>4, <1>8 DEF Newcomers
  <2>2. clt'.by # Absent => asked[clt'.by] # Absent /\ served[clt'.by] = 0
    BY <1>2, <1>5, <2>1 DEF Executing
  <2> QED
    BY <1>1, <1>2, <1>5, <1>6, <2>1, <2>2 DEF Executing, Searching, Found, ExecutedOnce
<1>12. Opened' /\ ReadWhole' /\ Chunks'
  <2>1. got[c] = <<>> /\ Len(wire[c]) = sent[c]
    BY <1>2, <1>4, <1>8 DEF Newcomers
  <2> QED
    BY <1>1, <1>2, <1>5, <1>6, <2>1 DEF Opened, Before, ReadWhole, Chunks
<1> QED
  BY <1>7, <1>10, <1>11, <1>12 DEF Served

LEMMA RefuseKeeps == IInv /\ (Refuse \/ SendAck) => TypeOK' /\ Served'
<1> SUFFICES ASSUME IInv, Refuse \/ SendAck PROVE TypeOK' /\ Served'
  OBVIOUS
<1>1. /\ clt.pc \in {"refuse", "ack"}
      /\ UNCHANGED <<up, content, entries, numPaths, mutex, nm, forwards, backlog,
                     asked, stage, wire, sent, got, served>>
      /\ CltGoto("accept")
  BY DEF Refuse, SendAck, CltAt, diskVars
<1>2. TypeOK /\ Newcomers /\ Executing /\ ExecutedOnce /\ Opened /\ ReadWhole /\ Chunks
  BY DEF IInv, Served
<1>3. clt \in CltRecord /\ cur \in Client
  BY <1>2 DEF TypeOK, CltRecord, cur
<1>4. PICK word \in {"success", "failure"} : told' = [told EXCEPT ![cur] = word]
  BY <1>3 DEF Refuse, SendAck, CltRecord
<1>5. /\ clt' \in CltRecord /\ clt'.pc = "accept"
      /\ clt'.client = clt.client /\ clt'.by = clt.by /\ clt'.stripped = clt.stripped
  BY <1>1, <1>2, GotoEffect DEF CltPc
<1>6. cur' = cur /\ request' = request /\ path' = path
  BY <1>1, <1>5, SameRequest
<1>7. TypeOK'
  BY <1>1, <1>2, <1>4, <1>5 DEF TypeOK, CltRecord
<1>8. Newcomers' /\ ExecutedOnce'
  <2>1. \A c \in Client : Fresh(c) => c # cur
    BY <1>1, <1>2 DEF Newcomers
  <2>2. \A c \in Client : c # cur => told'[c] = told[c]
    BY <1>2, <1>4 DEF TypeOK
  <2> QED
    BY <1>1, <1>2, <1>5, <1>6, <2>1, <2>2 DEF Newcomers, Fresh, Queued, ExecutedOnce
<1>9. Executing'
  BY <1>1, <1>2, <1>5, <1>6 DEF Executing, Searching, Found
<1>10. Opened' /\ ReadWhole' /\ Chunks'
  BY <1>1, <1>2, <1>5, <1>6 DEF Opened, Before, ReadWhole, Chunks
<1> QED
  BY <1>7, <1>8, <1>9, <1>10 DEF Served

LEMMA SemaphoreKeeps == IInv /\ (CltTakeMutex \/ CltPost) => TypeOK' /\ Served'
<1> SUFFICES ASSUME IInv, CltTakeMutex \/ CltPost PROVE TypeOK' /\ Served'
  OBVIOUS
<1>1. UNCHANGED <<up, content, entries, numPaths, nm, forwards, backlog,
                  asked, stage, wire, sent, got, told, served>>
  BY DEF CltTakeMutex, CltPost, diskVars, clientVars
<1>2. \/ clt.pc = "wait" /\ mutex' = 0 /\ CltGoto("open")
      \/ clt.pc = "post" /\ mutex' = mutex + 1 /\ CltGoto("ack")
  BY DEF CltTakeMutex, CltPost, CltAt
<1>3. TypeOK /\ Newcomers /\ Executing /\ ExecutedOnce /\ Opened /\ ReadWhole /\ Chunks
  BY DEF IInv, Served
<1>4. /\ clt' \in CltRecord
      /\ \/ clt.pc = "wait" /\ clt'.pc = "open"
         \/ clt.pc = "post" /\ clt'.pc = "ack"
      /\ clt'.client = clt.client /\ clt'.by = clt.by /\ clt'.stripped = clt.stripped
  BY <1>2, <1>3, GotoEffect DEF CltPc
<1>5. cur' = cur /\ request' = request /\ path' = path
  BY <1>1, <1>4, SameRequest
<1>6. mutex' \in {0, 1}
  BY <1>2, <1>3 DEF IInv, Placed, Exclusive, CltIn, TypeOK
<1>7. TypeOK'
  BY <1>1, <1>3, <1>4, <1>6 DEF TypeOK, CltRecord
<1>8. Newcomers' /\ ExecutedOnce'
  BY <1>1, <1>3, <1>4, <1>5 DEF Newcomers, Fresh, Queued, ExecutedOnce
<1>9. Executing'
  BY <1>1, <1>3, <1>4, <1>5 DEF Executing, Searching, Found
<1>10. Opened' /\ ReadWhole' /\ Chunks'
  BY <1>1, <1>3, <1>4, <1>5 DEF Opened, Before, ReadWhole, Chunks
<1> QED
  BY <1>7, <1>8, <1>9, <1>10 DEF Served

LEMMA OpenKeeps == IInv /\ Open => TypeOK' /\ Served'
<1> SUFFICES ASSUME IInv, Open PROVE TypeOK' /\ Served'
  OBVIOUS
<1>1. /\ clt.pc = "open"
      /\ UNCHANGED <<up, content, entries, numPaths, mutex, nm, forwards, backlog,
                     asked, stage, wire, sent, got, told, served>>
  BY DEF Open, CltAt, diskVars, clientVars
<1>2. TypeOK /\ Newcomers /\ Executing /\ ExecutedOnce /\ Opened /\ ReadWhole /\ Chunks
  BY DEF IInv, Served
<1>3. clt \in CltRecord /\ request.op \in Op
  BY <1>1, <1>2, RequestIsAsk DEF TypeOK, CltRecord, Found
<1>4. /\ clt' \in CltRecord
      /\ clt'.client = clt.client /\ clt'.by = clt.by /\ clt'.stripped = clt.stripped
      /\ \/ clt'.pc = "post" /\ clt'.ack = "failure"
         \/ clt'.pc = "transfer" /\ request.op = "READ_FILE" /\ content[path] # Absent
         \/ clt'.pc = "truncate" /\ request.op = "WRITE_FILE" /\ content[path] # Absent
         \/ clt'.pc = "post" /\ request.op = "GET_FILE_INFO" /\ content[path] # Absent
  <2>1. CASE content[path] = Absent
    <3>1. clt' = [clt EXCEPT !.pc = "post", !.ack = "failure"]
      BY <2>1 DEF Open
    <3> QED
      BY <1>3, <3>1 DEF CltRecord, CltPc
  <2>2. CASE content[path] # Absent
    <3>1. PICK pc : /\ clt' = [clt EXCEPT !.pc = pc]
                    /\ \/ pc = "transfer" /\ request.op = "READ_FILE"
                       \/ pc = "truncate" /\ request.op = "WRITE_FILE"
                       \/ pc = "post" /\ request.op = "GET_FILE_INFO"
      BY <1>3, <2>2 DEF Open, Op
    <3>2. pc \in CltPc
      BY <3>1 DEF CltPc
    <3> QED
      BY <1>3, <2>2, <3>1, <3>2 DEF CltRecord
  <2> QED
    BY <2>1, <2>2
<1>5. cur' = cur /\ request' = request /\ path' = path
  BY <1>1, <1>4, SameRequest
<1>6. TypeOK'
  BY <1>1, <1>2, <1>4 DEF TypeOK, CltRecord
<1>7. Newcomers' /\ ExecutedOnce'
  BY <1>1, <1>2, <1>4, <1>5 DEF Newcomers, Fresh, Queued, ExecutedOnce
<1>8. Executing'
  BY <1>1, <1>2, <1>4, <1>5 DEF Executing, Searching, Found
<1>9. Opened'
  <2>1. got[cur] = <<>> /\ Len(got[cur]) = 0
    BY <1>1, <1>2 DEF Opened, Before
  <2>2. content[path] # Absent => content[path] \in Seq(Chunk) /\ Len(content[path]) \in Nat
    <3>1. path \in File
      BY <1>1, RequestIsAsk DEF Found
    <3>2. content[path] # Absent => content[path] \in Seq(Chunk)
      BY <1>2, <3>1 DEF TypeOK
    <3> QED
      BY <3>2
  <2> QED
    BY <1>1, <1>4, <1>5, <2>1, <2>2 DEF Opened, Before
<1>10. ReadWhole' /\ Chunks'
  BY <1>1, <1>2, <1>4, <1>5 DEF ReadWhole, Chunks, Before
<1> QED
  BY <1>6, <1>7, <1>8, <1>9, <1>10 DEF Served

LEMMA TruncateKeeps == IInv /\ Truncate => TypeOK' /\ Served'
<1> SUFFICES ASSUME IInv, Truncate PROVE TypeOK' /\ Served'
  OBVIOUS
<1>1. /\ clt.pc = "truncate" /\ CltGoto("transfer")
      /\ content' = [content EXCEPT ![path] = <<>>]
      /\ UNCHANGED <<up, entries, numPaths, mutex, nm, forwards, backlog,
                     asked, stage, wire, sent, got, told, served>>
  BY DEF Truncate, CltAt, clientVars
<1>2. TypeOK /\ Newcomers /\ Executing /\ ExecutedOnce /\ Opened /\ ReadWhole /\ Chunks
  BY DEF IInv, Served
<1>3. /\ clt' \in CltRecord /\ clt'.pc = "transfer"
      /\ clt'.client = clt.client /\ clt'.by = clt.by /\ clt'.stripped = clt.stripped
  BY <1>1, <1>2, GotoEffect DEF CltPc
<1>4. cur' = cur /\ request' = request /\ path' = path
  BY <1>1, <1>3, SameRequest
<1>5. path \in File /\ cur \in Client /\ request.op = "WRITE_FILE"
  BY <1>1, <1>2, RequestIsAsk DEF Found, TypeOK, cur, Opened
<1>6. content[path] # Absent
  BY <1>1, <1>2 DEF Opened
<1>7. <<>> \in Seq(Chunk) /\ <<>> # Absent
  <2>1. <<>> \in Seq(Chunk) /\ <<>> \in Seq(Client \union {Old})
    OBVIOUS
  <2> QED
    BY <2>1, StorageAssumption
<1>8. /\ content' \in [File -> {Absent} \union Seq(Chunk)]
      /\ content'[path] = <<>> /\ Len(content'[path]) = 0
  BY <1>1, <1>2, <1>5, <1>7 DEF TypeOK
<1>9. TypeOK'
  BY <1>1, <1>2, <1>3, <1>8 DEF TypeOK, CltRecord
<1>10. Newcomers' /\ ExecutedOnce'
  BY <1>1, <1>2, <1>3, <1>4 DEF Newcomers, Fresh, Queued, ExecutedOnce
<1>11. Executing'
  BY <1>1, <1>2, <1>3, <1>4 DEF Executing, Searching, Found
<1>12. Opened' /\ ReadWhole'
  BY <1>1, <1>3, <1>4, <1>5, <1>7, <1>8 DEF Opened, Before, ReadWhole
<1>13. Chunks'
  <2>1. Len(wire[cur]) = sent[cur] /\ sent[cur] - Len(wire[cur]) = 0 /\ Len(wire[cur]) <= sent[cur]
    BY <1>1, <1>2, <1>5 DEF Chunks, Before, TypeOK
  <2>2. <<>> = [n \in 1..0 |-> cur]
    OBVIOUS
  <2> QED
    BY <1>1, <1>2, <1>3, <1>4, <1>8, <2>1, <2>2 DEF Chunks, Before
<1> QED
  BY <1>9, <1>10, <1>11, <1>12, <1>13 DEF Served

LEMMA ReadChunkKeeps == IInv /\ ReadChunk => TypeOK' /\ Served'
<1> SUFFICES ASSUME IInv, ReadChunk PROVE TypeOK' /\ Served'
  OBVIOUS
<1>1. /\ clt.pc = "transfer" /\ request.op = "READ_FILE"
      /\ UNCHANGED <<up, content, entries, numPaths, mutex, nm, forwards, backlog,
                     asked, stage, wire, sent, told, served>>
  BY DEF ReadChunk, CltAt, diskVars
<1>2. TypeOK /\ Newcomers /\ Executing /\ ExecutedOnce /\ Opened /\ ReadWhole /\ Chunks
  BY DEF IInv, Served
<1>3. clt \in CltRecord /\ path \in File /\ cur \in Client
  BY <1>1, <1>2, RequestIsAsk DEF TypeOK, CltRecord, cur, Found
<1>4. content[path] # Absent /\ content[path] \in Seq(Chunk) /\ got[cur] \in Seq(Chunk)
  BY <1>1, <1>2, <1>3 DEF Opened, TypeOK
<1>5. /\ Len(got[cur]) <= Len(content[path])
      /\ \A n \in 1..Len(got[cur]) : got[cur][n] = content[path][n]
  BY <1>1, <1>2 DEF Opened
<1>6. CASE Len(got[cur]) < Len(content[path])
  <2> DEFINE more == Append(got[cur], content[path][Len(got[cur]) + 1])
  <2>1. got' = [got EXCEPT ![cur] = more] /\ clt' = clt
    BY <1>4, <1>6 DEF ReadChunk
  <2>2. /\ more \in Seq(Chunk) /\ Len(more) <= Len(content[path])
        /\ \A n \in 1..Len(more) : more[n] = content[path][n]
    BY <1>4, <1>5, <1>6
  <2>3. got' \in [Client -> Seq(Chunk)] /\ got'[cur] = more /\ \A c \in Client \ {cur} : got'[c] = got[c]
    BY <1>2, <1>3, <2>1, <2>2 DEF TypeOK
  <2>4. cur' = cur /\ request' = request /\ path' = path
    BY <1>1, <2>1, SameRequest
  <2>5. TypeOK'
    BY <1>1, <1>2, <2>1, <2>3 DEF TypeOK
  <2>6. Newcomers' /\ ExecutedOnce'
    <3>1. \A c \in Client : Fresh(c) => c # cur
      BY <1>1, <1>2 DEF Newcomers
    <3> QED
      BY <1>1, <1>2, <2>1, <2>3, <2>4, <3>1 DEF Newcomers, Fresh, Queued, ExecutedOnce
  <2>7. Executing'
    BY <1>1, <1>2, <2>1, <2>4 DEF Executing, Searching, Found
  <2>8. Opened'
    BY <1>1, <1>2, <2>1, <2>2, <2>3, <2>4 DEF Opened, Before
  <2>9. ReadWhole' /\ Chunks'
    BY <1>1, <1>2, <2>1, <2>4 DEF ReadWhole, Chunks, Before
  <2> QED
    BY <2>5, <2>6, <2>7, <2>8, <2>9 DEF Served
<1>7. CASE ~(Len(got[cur]) < Len(content[path]))
  <2>1. CltGoto("post") /\ got' = got
    BY <1>7 DEF ReadChunk
  <2>2. /\ clt' \in CltRecord /\ clt'.pc = "post"
        /\ clt'.client = clt.client /\ clt'.by = clt.by /\ clt'.stripped = clt.stripped
    BY <1>2, <2>1, GotoEffect DEF CltPc
  <2>3. cur' = cur /\ request' = request /\ path' = path
    BY <1>1, <2>2, SameRequest
  <2>4. TypeOK'
    BY <1>1, <1>2, <2>1, <2>2 DEF TypeOK, CltRecord
  <2>5. Newcomers' /\ ExecutedOnce'
    BY <1>1, <1>2, <2>1, <2>2, <2>3 DEF Newcomers, Fresh, Queued, ExecutedOnce
  <2>6. Executing'
    BY <1>1, <1>2, <2>2, <2>3 DEF Executing, Searching, Found
  <2>7. Opened' /\ Chunks'
    BY <1>1, <1>2, <1>4, <2>1, <2>2, <2>3 DEF Opened, Before, Chunks
  <2>8. got[cur] = content[path]
    BY <1>4, <1>5, <1>7
  <2>9. ReadWhole'
    BY <1>1, <2>1, <2>3, <2>8 DEF ReadWhole
  <2> QED
    BY <2>4, <2>5, <2>6, <2>7, <2>9 DEF Served
<1> QED
  BY <1>6, <1>7

(* A chunk is added to a file that is there.                               *)
LEMMA AppendedEffect ==
  ASSUME IInv, clt.pc = "transfer"
  PROVE  /\ path \in File /\ cur \in Client
         /\ content[path] \in Seq(Chunk) /\ content[path] # Absent
         /\ Appended = [content EXCEPT ![path] = Append(content[path], cur)]
         /\ Append(content[path], cur) \in Seq(Chunk)
         /\ Append(content[path], cur) # Absent
<1>1. path \in File /\ cur \in Client
  BY RequestIsAsk DEF Found, IInv, TypeOK, cur
<1>2. content[path] # Absent
  BY DEF IInv, Served, Opened
<1>3. content[path] \in Seq(Chunk) /\ cur \in Chunk
  BY <1>1, <1>2 DEF IInv, TypeOK, Chunk
<1>4. Append(content[path], cur) \in Seq(Chunk)
  BY <1>3
<1> QED
  BY <1>1, <1>2, <1>3, <1>4, StorageAssumption DEF Appended, Chunk

LEMMA AppendSame ==
  ASSUME NEW m \in Nat, NEW x
  PROVE  Append([n \in 1..m |-> x], x) = [n \in 1..(m + 1) |-> x]
<1> DEFINE s == [n \in 1..m |-> x]
<1>1. s \in Seq({x}) /\ Len(s) = m
  OBVIOUS
<1>2. Append(s, x) \in Seq({x}) /\ Len(Append(s, x)) = m + 1
  BY <1>1
<1>3. [n \in 1..(m + 1) |-> x] \in Seq({x}) /\ Len([n \in 1..(m + 1) |-> x]) = m + 1
  OBVIOUS
<1>4. \A n \in 1..(m + 1) : Append(s, x)[n] = x
  BY <1>1
<1> QED
  BY <1>2, <1>3, <1>4

(* The loop of a write goes on or ends.                                    *)
LEMMA WriteLoop ==
  ASSUME IInv, WriteChunk \/ WriteAgain
  PROVE  /\ clt.pc = "transfer" /\ request.op = "WRITE_FILE"
         /\ UNCHANGED <<up, entries, numPaths, mutex, nm, forwards, backlog,
                        asked, stage, sent, got, told, served>>
         /\ clt' \in CltRecord /\ clt'.pc \in {"transfer", "post"}
         /\ clt'.client = clt.client /\ clt'.by = clt.by /\ clt'.stripped = clt.stripped
         /\ cur' = cur /\ request' = request /\ path' = path
<1>1. /\ clt.pc = "transfer" /\ request.op = "WRITE_FILE"
      /\ UNCHANGED <<up, entries, numPaths, mutex, nm, forwards, backlog,
                     asked, stage, sent, got, told, served>>
  BY DEF WriteChunk, WriteAgain, CltAt, clientVars
<1>2. clt' = clt \/ CltGoto("post")
  <2>1. CASE WriteChunk
    BY <2>1 DEF WriteChunk
  <2>2. CASE WriteAgain
    BY <2>2 DEF WriteAgain
  <2> QED
    BY <2>1, <2>2
<1>3. /\ clt' \in CltRecord /\ clt'.pc \in {"transfer", "post"}
      /\ clt'.client = clt.client /\ clt'.by = clt.by /\ clt'.stripped = clt.stripped
  <2>1. CASE clt' = clt
    BY <1>1, <2>1 DEF IInv, TypeOK, CltRecord
  <2>2. CASE CltGoto("post")
    BY <2>2, GotoEffect DEF IInv, CltPc
  <2> QED
    BY <1>2, <2>1, <2>2
<1>4. cur' = cur /\ request' = request /\ path' = path
  BY <1>1, <1>3, SameRequest
<1> QED
  BY <1>1, <1>3, <1>4

LEMMA WriteChunkKeeps == IInv /\ WriteChunk => TypeOK' /\ Served'
<1> SUFFICES ASSUME IInv, WriteChunk PROVE TypeOK' /\ Served'
  OBVIOUS
<1>1. /\ clt.pc = "transfer" /\ request.op = "WRITE_FILE"
      /\ UNCHANGED <<up, entries, numPaths, mutex, nm, forwards, backlog,
                     asked, stage, sent, got, told, served>>
      /\ clt' \in CltRecord /\ clt'.pc \in {"transfer", "post"}
      /\ clt'.client = clt.client /\ clt'.by = clt.by /\ clt'.stripped = clt.stripped
      /\ cur' = cur /\ request' = request /\ path' = path
  BY WriteLoop
<1>2. TypeOK /\ Newcomers /\ Executing /\ ExecutedOnce /\ Opened /\ ReadWhole /\ Chunks
  BY DEF IInv, Served
<1> DEFINE more == Append(content[path], cur)
<1>3. /\ path \in File /\ cur \in Client /\ more \in Seq(Chunk) /\ more # Absent
      /\ content' = [content EXCEPT ![path] = more]
      /\ wire[cur] # <<>> /\ wire' = [wire EXCEPT ![cur] = Tail(wire[cur])]
  BY <1>1, AppendedEffect DEF WriteChunk
<1>4. /\ wire[cur] \in Seq(BOOLEAN) /\ Tail(wire[cur]) \in Seq(BOOLEAN)
      /\ Len(Tail(wire[cur])) = Len(wire[cur]) - 1
      /\ \A k \in 1..Len(Tail(wire[cur])) : /\ k + 1 \in 1..Len(wire[cur])
                                            /\ Tail(wire[cur])[k] = wire[cur][k + 1]
  BY <1>2, <1>3, SMTT(30) DEF TypeOK
<1>5. /\ content' \in [File -> {Absent} \union Seq(Chunk)] /\ content'[path] = more
      /\ wire' \in [Client -> Seq(BOOLEAN)] /\ wire'[cur] = Tail(wire[cur])
      /\ \A c \in Client \ {cur} : wire'[c] = wire[c]
  BY <1>2, <1>3, <1>4 DEF TypeOK
<1>6. TypeOK'
  BY <1>1, <1>2, <1>5 DEF TypeOK, CltRecord
<1>7. asked[cur] # Absent /\ clt.by = cur /\ asked[cur].op = "WRITE_FILE"
  BY <1>1, <1>2, <1>3 DEF Newcomers, Executing, request
<1>8. Newcomers' /\ ExecutedOnce'
  <2>1. \A c \in Client : Fresh(c) => c # cur
    BY <1>1, <1>2 DEF Newcomers
  <2>2. \A c \in Client : Fresh(c)' <=> Fresh(c)
    BY <1>1 DEF Fresh, Queued
  <2>3. \A c \in Client : Fresh(c) \/ asked[c] = Absent => wire'[c] = wire[c]
    BY <1>5, <1>7, <2>1
  <2> QED
    BY <1>1, <1>2, <2>2, <2>3 DEF Newcomers, ExecutedOnce
<1>9. Executing'
  BY <1>1, <1>2 DEF Executing, Searching, Found
<1>10. Opened' /\ ReadWhole'
  BY <1>1, <1>3, <1>5 DEF Opened, Before, ReadWhole
<1>11. Chunks'
  <2>1. \A c \in Client : \A k \in 1..Len(wire'[c]) :
          wire'[c][k] => k = Len(wire'[c]) /\ stage[c] # "sending"
    <3>1. ASSUME NEW k \in 1..Len(Tail(wire[cur])), Tail(wire[cur])[k]
          PROVE  k = Len(Tail(wire[cur])) /\ stage[cur] # "sending"
      <4>1. k + 1 = Len(wire[cur]) /\ stage[cur] # "sending"
        BY <1>2, <1>3, <1>4, <3>1 DEF Chunks
      <4> QED
        BY <1>4, <4>1
    <3>2. ASSUME NEW c \in Client \ {cur}, NEW k \in 1..Len(wire[c]), wire[c][k]
          PROVE  k = Len(wire[c]) /\ stage[c] # "sending"
      BY <1>2, <3>2 DEF Chunks
    <3> QED
      BY <1>5, <3>1, <3>2
  <2>2. stage[cur] # "gone" => /\ Len(wire'[cur]) <= sent[cur]
                               /\ more = [n \in 1..(sent[cur] - Len(wire'[cur])) |-> cur]
    <3> SUFFICES ASSUME stage[cur] # "gone"
                 PROVE  /\ Len(wire'[cur]) <= sent[cur]
                        /\ more = [n \in 1..(sent[cur] - Len(wire'[cur])) |-> cur]
      OBVIOUS
    <3> DEFINE m == sent[cur] - Len(wire[cur])
    <3>1. Len(wire[cur]) <= sent[cur] /\ content[path] = [n \in 1..m |-> cur]
      BY <1>1, <1>2 DEF Chunks
    <3>2. m \in Nat /\ sent[cur] - Len(wire'[cur]) = m + 1 /\ Len(wire'[cur]) <= sent[cur]
      <4>1. sent[cur] \in Nat /\ Len(wire[cur]) \in Nat /\ Len(wire'[cur]) = Len(wire[cur]) - 1
        BY <1>2, <1>3, <1>4, <1>5 DEF TypeOK
      <4>2. Len(wire[cur]) # 0
        BY <1>3, <1>4
      <4> QED
        BY <3>1, <4>1, <4>2
    <3>3. more = [n \in 1..(m + 1) |-> cur]
      BY <3>1, <3>2, AppendSame
    <3> QED
      BY <3>2, <3>3
  <2> QED
    BY <1>1, <1>2, <1>5, <1>7, <2>1, <2>2, ZenonT(60) DEF Chunks, Before
<1> QED
  BY <1>6, <1>8, <1>9, <1>10, <1>11 DEF Served

LEMMA WriteAgainKeeps == IInv /\ WriteAgain => TypeOK' /\ Served'
<1> SUFFICES ASSUME IInv, WriteAgain PROVE TypeOK' /\ Served'
  OBVIOUS
<1>1. /\ clt.pc = "transfer" /\ request.op = "WRITE_FILE"
      /\ UNCHANGED <<up, entries, numPaths, mutex, nm, forwards, backlog,
                     asked, stage, sent, got, told, served>>
      /\ clt' \in CltRecord /\ clt'.pc \in {"transfer", "post"}
      /\ clt'.client = clt.client /\ clt'.by = clt.by /\ clt'.stripped = clt.stripped
      /\ cur' = cur /\ request' = request /\ path' = path
  BY WriteLoop
<1>2. TypeOK /\ Newcomers /\ Executing /\ ExecutedOnce /\ Opened /\ ReadWhole /\ Chunks
  BY DEF IInv, Served
<1>3. stage[cur] = "gone" /\ wire' = wire
  BY DEF WriteAgain, clientVars
<1>4. content' \in [File -> {Absent} \union Seq(Chunk)] /\ content'[path] # Absent
  <2>1. /\ path \in File /\ content \in [File -> {Absent} \union Seq(Chunk)]
        /\ content[path] # Absent /\ Append(content[path], cur) # Absent
        /\ Append(content[path], cur) \in Seq(Chunk)
    BY <1>1, <1>2, AppendedEffect DEF TypeOK
  <2>2. content' = content \/ content' = [content EXCEPT ![path] = Append(content[path], cur)]
    BY <1>1, AppendedEffect DEF WriteAgain
  <2> QED
    BY <2>1, <2>2
<1>5. TypeOK'
  BY <1>1, <1>2, <1>3, <1>4 DEF TypeOK, CltRecord
<1>6. Newcomers' /\ ExecutedOnce'
  BY <1>1, <1>2, <1>3 DEF Newcomers, Fresh, Queued, ExecutedOnce
<1>7. Executing'
  BY <1>1, <1>2 DEF Executing, Searching, Found
<1>8. Opened' /\ ReadWhole' /\ Chunks'
  BY <1>1, <1>2, <1>3, <1>4 DEF Opened, Before, ReadWhole, Chunks
<1> QED
  BY <1>5, <1>6, <1>7, <1>8 DEF Served

LEMMA ClientThreadKeeps == IInv /\ ClientThread => TypeOK' /\ Served'
  BY CheckKeeps, CompareKeeps, AcceptKeeps, RefuseKeeps, SemaphoreKeeps, OpenKeeps, TruncateKeeps,
     ReadChunkKeeps, WriteChunkKeeps, WriteAgainKeeps DEF ClientThread

-----------------------------------------------------------------------------
(* Steps of the other processes, as clients and clientThread see them.     *)

LEMMA NmKeeps == IInv /\ NmStep => TypeOK' /\ Served'
<1> SUFFICES ASSUME IInv, NmStep PROVE TypeOK' /\ Served'
  OBVIOUS
<1>1. UNCHANGED <<up, clt, backlog, asked, stage, wire, sent, got, told, served>>
  BY NmFrame
<1>2. TypeOK /\ Newcomers /\ Executing /\ ExecutedOnce /\ Opened /\ ReadWhole /\ Chunks
  BY DEF IInv, Served
<1>3. cur' = cur /\ request' = request /\ path' = path
  BY <1>1, SameRequest
<1>4. Newcomers' /\ ExecutedOnce'
  BY <1>1, <1>2, <1>3 DEF Newcomers, Fresh, Queued, ExecutedOnce
<1>5. ASSUME content' = content PROVE Opened' /\ ReadWhole' /\ Chunks'
  BY <1>1, <1>2, <1>3, <1>5 DEF Opened, Before, ReadWhole, Chunks
<1>6. ASSUME entries' = entries PROVE Executing'
  BY <1>1, <1>2, <1>3, <1>6 DEF Executing, Searching, Found
<1>7. ASSUME NEW r \in Forwarded, NmAccept(r) PROVE TypeOK' /\ Served'
  <2>1. UNCHANGED <<content, entries, numPaths, mutex>> /\ nm' = [nm EXCEPT !.pc = "wait", !.req = r]
    BY <1>7 DEF NmAccept, diskVars
  <2>2. forwards' \in 0..MaxForwards
    <3>1. forwards \in 0..MaxForwards /\ forwards < MaxForwards /\ forwards' = forwards + 1
      BY <1>2, <1>7 DEF NmAccept, TypeOK
    <3> QED
      BY <3>1, StorageAssumption
  <2>3. nm' \in [pc : NmPc, req : Forwarded, unlisted : SUBSET File, ack : {"success", "failure"}]
    BY <1>2, <2>1 DEF TypeOK, NmPc
  <2> QED
    BY <1>1, <1>2, <1>4, <1>5, <1>6, <2>1, <2>2, <2>3 DEF TypeOK, Served
<1>8. CASE NmTakeMutex \/ NmReply
  <2>1. UNCHANGED <<content, entries, numPaths, forwards>> /\ mutex' \in {0, 1}
    BY <1>2, <1>8 DEF NmTakeMutex, NmReply, diskVars, TypeOK
  <2>2. nm' \in [pc : NmPc, req : Forwarded, unlisted : SUBSET File, ack : {"success", "failure"}]
    BY <1>2, <1>8 DEF NmTakeMutex, NmReply, TypeOK, NmPc
  <2> QED
    BY <1>1, <1>2, <1>4, <1>5, <1>6, <2>1, <2>2 DEF TypeOK, Served
<1>9. CASE NmPost
  <2>1. UNCHANGED <<content, entries, numPaths, forwards>> /\ mutex' = mutex + 1 /\ nm.pc = "list"
    BY <1>9 DEF NmPost, NmAt, diskVars
  <2>2. mutex' \in {0, 1}
    BY <1>2, <2>1 DEF IInv, Placed, Exclusive, NmIn, TypeOK
  <2>3. nm' \in [pc : NmPc, req : Forwarded, unlisted : SUBSET File, ack : {"success", "failure"}]
    BY <1>2, <1>9 DEF NmPost, TypeOK, NmPc
  <2> QED
    BY <1>1, <1>2, <1>4, <1>5, <1>6, <2>1, <2>2, <2>3 DEF TypeOK, Served
<1>10. CASE NmExecute
  <2>1. /\ nm.pc = "execute" /\ content' = Executed /\ numPaths' = 0
        /\ UNCHANGED <<entries, mutex, forwards>>
    BY <1>10 DEF NmExecute, NmAt
  <2>2. ~CltIn
    BY <2>1 DEF IInv, Placed, Exclusive, NmIn
  <2>3. <<>> \in Seq(Chunk)
    OBVIOUS
  <2>4. content' \in [File -> {Absent} \union Seq(Chunk)]
    BY <1>2, <2>1, <2>3 DEF Executed, TypeOK
  <2>5. Outcome \in {"success", "failure"} /\ {g \in File : Executed[g] # Absent} \in SUBSET File
    BY DEF Outcome
  <2>6. nm' \in [pc : NmPc, req : Forwarded, unlisted : SUBSET File, ack : {"success", "failure"}]
    BY <1>2, <1>10, <2>5 DEF NmExecute, TypeOK, NmPc
  <2>7. numPaths' \in 0..Cardinality(File)
    BY <2>1, FilesFinite
  <2>8. TypeOK'
    BY <1>1, <1>2, <2>1, <2>4, <2>6, <2>7 DEF TypeOK
  <2>9. Opened' /\ ReadWhole' /\ Chunks'
    BY <1>1, <1>2, <1>3, <2>2 DEF CltIn, Opened, Before, ReadWhole, Chunks
  <2> QED
    BY <1>4, <1>6, <2>1, <2>8, <2>9 DEF Served
<1>11. ASSUME NEW g \in File, NmList(g) PROVE TypeOK' /\ Served'
  <2>1. /\ nm.pc = "list" /\ g \in nm.unlisted
        /\ entries' = [entries EXCEPT ![numPaths + 1] = g] /\ numPaths' = numPaths + 1
        /\ nm' = [nm EXCEPT !.unlisted = @ \ {g}]
        /\ UNCHANGED <<content, mutex, forwards>>
    BY <1>11 DEF NmList, NmAt
  <2>2. Present \ Unlisted \in SUBSET File /\ g \in File \ (Present \ Unlisted)
    BY <2>1 DEF Unlisted, Present
  <2>3. numPaths \in Nat /\ numPaths + 1 <= Cardinality(File) /\ Cardinality(File) \in Nat
    BY <2>2, FilesFinite DEF IInv, Placed, Listed
  <2>4. numPaths + 1 \in 1..Cardinality(File)
    BY <2>3
  <2>5. /\ entries' \in [1..Cardinality(File) -> File \union {Absent}]
        /\ \A n \in 1..Cardinality(File) : entries[n] \in File => entries'[n] \in File
    BY <1>2, <2>1, <2>4 DEF TypeOK
  <2>6. nm' \in [pc : NmPc, req : Forwarded, unlisted : SUBSET File, ack : {"success", "failure"}]
    BY <1>2, <2>1 DEF TypeOK
  <2>7. TypeOK'
    BY <1>1, <1>2, <2>1, <2>4, <2>5, <2>6, SMTT(30) DEF TypeOK
  <2>8. Executing'
    BY <1>1, <1>2, <1>3, <2>5 DEF Executing, Searching, Found
  <2> QED
    BY <1>4, <1>5, <2>1, <2>7, <2>8 DEF Served
<1> QED
  BY <1>7, <1>8, <1>9, <1>10, <1>11 DEF NmStep, NmThread

(* A client program does not change what is executed for another one.      *)
LEMMA ProgramRequest ==
  ASSUME IInv, NEW d \in Client, ProgramStep(d), asked'[d] = asked[d] \/ Fresh(d)
  PROVE  /\ cur' = cur /\ path' = path
         /\ clt.by # Absent => request' = request
         /\ clt.by # Absent => asked'[clt.by] = asked[clt.by]
<1>1. clt' = clt /\ \A c \in Client \ {d} : asked'[c] = asked[c]
  BY ProgramFrame DEF IInv
<1>2. clt.by \in Client \union {Absent} /\ (clt.by = d => ~Fresh(d))
  BY DEF IInv, TypeOK, Served, Newcomers
<1>3. clt.by # Absent => asked'[clt.by] = asked[clt.by]
  BY <1>1, <1>2
<1> QED
  BY <1>1, <1>3 DEF cur, path, request

LEMMA ConnectKeeps ==
  ASSUME IInv, NEW d \in Client, HangUp(d) \/ \E a \in Ask : Connect(d, a)
  PROVE  TypeOK' /\ Served'
<1>1. /\ stage[d] = "new" /\ backlog' = Append(backlog, d)
      /\ UNCHANGED <<up, content, entries, numPaths, mutex, nm, forwards, clt, wire, sent, got,
                     told, served>>
  BY DEF HangUp, Connect, diskVars
<1>2. TypeOK /\ Newcomers /\ Executing /\ ExecutedOnce /\ Opened /\ ReadWhole /\ Chunks
  BY DEF IInv, Served
<1>3. Fresh(d) /\ ~Queued(d)
  BY <1>1, <1>2 DEF Fresh, Queued, Newcomers
<1>4. \/ asked' = asked /\ stage' = [stage EXCEPT ![d] = "gone"]
      \/ \E a \in Ask : /\ asked' = [asked EXCEPT ![d] = a]
                        /\ stage' = [stage EXCEPT ![d] = IF a.op = "WRITE_FILE" THEN "sending"
                                                         ELSE "waiting"]
  BY DEF HangUp, Connect
<1>5. /\ asked' \in [Client -> Ask \union {Absent}] /\ stage' \in [Client -> Stage]
      /\ asked'[d] = Absent => stage'[d] = "gone"
      /\ stage'[d] # "new"
      /\ stage'[d] = "sending" => asked'[d].op = "WRITE_FILE"
      /\ \A c \in Client \ {d} : asked'[c] = asked[c] /\ stage'[c] = stage[c]
  <2>1. stage \in [Client -> Stage] /\ asked \in [Client -> Ask \union {Absent}]
    BY <1>2 DEF TypeOK
  <2>2. CASE asked' = asked /\ stage' = [stage EXCEPT ![d] = "gone"]
    BY <2>1, <2>2 DEF Stage
  <2>3. ASSUME NEW a \in Ask, asked' = [asked EXCEPT ![d] = a],
               stage' = [stage EXCEPT ![d] = IF a.op = "WRITE_FILE" THEN "sending" ELSE "waiting"]
        PROVE  <1>5
    BY <2>1, <2>3, StorageAssumption DEF Stage
  <2> QED
    BY <1>4, <2>2, <2>3
<1>6. /\ backlog \in Seq(Client) /\ backlog' \in Seq(Client) /\ Len(backlog') = Len(backlog) + 1
      /\ \A n \in 1..Len(backlog') : \/ n \in 1..Len(backlog) /\ backlog'[n] = backlog[n]
                                     \/ n = Len(backlog) + 1 /\ backlog'[n] = d
  <2>1. backlog \in Seq(Client) /\ backlog' = Append(backlog, d)
    BY <1>1, <1>2 DEF TypeOK
  <2> QED
    BY <2>1, AppendProperties
<1>7. ProgramStep(d)
  BY DEF ProgramStep
<1>8. /\ cur' = cur /\ path' = path
      /\ clt.by # Absent => request' = request /\ asked'[clt.by] = asked[clt.by]
  BY <1>3, <1>7, ProgramRequest
<1>9. clt.pc # "accept" => cur \in Client \ {d}
  BY <1>2, <1>3 DEF Newcomers, TypeOK, cur
<1>10. TypeOK'
  BY <1>1, <1>2, <1>5, <1>6 DEF TypeOK
<1>11. Newcomers'
  <2>1. \A m, n \in 1..Len(backlog') : backlog'[m] = backlog'[n] => m = n
    BY <1>2, <1>3, <1>6 DEF Newcomers, Queued
  <2>2. \A n \in 1..Len(backlog') : stage'[backlog'[n]] # "new"
    <3>1. \A c \in Client : stage[c] # "new" => stage'[c] # "new"
      BY <1>5
    <3>2. \A n \in 1..Len(backlog) : backlog[n] \in Client
      BY <1>6
    <3> QED
      BY <1>2, <1>5, <1>6, <3>1, <3>2 DEF Newcomers
  <2>3. \A c \in Client : Fresh(c)' => Fresh(c)
    BY <1>3, <1>5, <1>6 DEF Fresh, Queued
  <2>4. /\ \A c \in Client : stage'[c] = "new" => asked'[c] = Absent /\ sent[c] = 0
        /\ \A c \in Client : asked'[c] = Absent => stage'[c] \in {"new", "gone"} /\ wire[c] = <<>>
    BY <1>1, <1>2, <1>4, <1>5 DEF Newcomers
  <2> QED
    BY <1>1, <1>2, <1>8, <2>1, <2>2, <2>3, <2>4 DEF Newcomers
<1>12. Executing' /\ ExecutedOnce'
  BY <1>1, <1>2, <1>5, <1>8, <1>9 DEF Executing, Searching, Found, ExecutedOnce
<1>13. clt.pc \in {"truncate", "transfer", "post"} => clt.by # Absent
  BY <1>2 DEF Executing, Found
<1>14. Opened' /\ ReadWhole'
  BY <1>1, <1>2, <1>8, <1>13 DEF Opened, Before, ReadWhole
<1>15. Chunks'
  <2>1. asked[d] = Absent /\ wire[d] = <<>> /\ sent[d] = 0
    BY <1>1, <1>2 DEF Newcomers
  <2>2. \A c \in Client : stage'[c] = "sending" => asked'[c].op = "WRITE_FILE" /\ sent[c] < MaxChunks
    <3>1. sent[d] < MaxChunks
      BY <2>1, StorageAssumption
    <3> QED
      BY <1>2, <1>5, <3>1 DEF Chunks
  <2>3. \A c \in Client : asked'[c] # Absent /\ asked'[c].op # "WRITE_FILE" => wire[c] = <<>>
    BY <1>2, <1>5, <2>1 DEF Chunks
  <2>4. \A c \in Client : \A k \in 1..Len(wire[c]) : wire[c][k] => k = Len(wire[c]) /\ stage'[c] # "sending"
    BY <1>2, <1>5, <2>1 DEF Chunks
  <2> QED
    BY <1>1, <1>2, <1>5, <1>8, <1>9, <1>13, <2>2, <2>3, <2>4 DEF Chunks, Before
<1> QED
  BY <1>10, <1>11, <1>12, <1>14, <1>15 DEF Served

LEMMA SendChunkKeeps ==
  ASSUME IInv, NEW d \in Client, SendChunk(d)
  PROVE  TypeOK' /\ Served'
<1>1. /\ stage[d] = "sending"
      /\ UNCHANGED <<up, content, entries, numPaths, mutex, nm, forwards, clt, backlog, asked, got,
                     told, served>>
  BY DEF SendChunk, diskVars
<1>2. TypeOK /\ Newcomers /\ Executing /\ ExecutedOnce /\ Opened /\ ReadWhole /\ Chunks
  BY DEF IInv, Served
<1>3. PICK last \in BOOLEAN :
        /\ sent[d] + 1 = MaxChunks => last
        /\ wire' = [wire EXCEPT ![d] = Append(wire[d], last)]
        /\ stage' = [stage EXCEPT ![d] = IF last THEN "waiting" ELSE stage[d]]
        /\ sent' = [sent EXCEPT ![d] = sent[d] + 1]
  BY DEF SendChunk
<1>4. wire[d] \in Seq(BOOLEAN) /\ Len(wire[d]) \in Nat /\ sent[d] \in 0..MaxChunks
  BY <1>2 DEF TypeOK
<1>5. sent[d] < MaxChunks /\ asked[d].op = "WRITE_FILE" /\ asked[d] # Absent
  BY <1>1, <1>2 DEF Chunks, Newcomers
<1>6. sent[d] + 1 \in 0..MaxChunks /\ (~last => sent[d] + 1 < MaxChunks)
  BY <1>3, <1>4, <1>5, StorageAssumption
<1>7. /\ Append(wire[d], last) \in Seq(BOOLEAN) /\ Len(Append(wire[d], last)) = Len(wire[d]) + 1
      /\ \A k \in 1..(Len(wire[d]) + 1) :
           \/ k \in 1..Len(wire[d]) /\ Append(wire[d], last)[k] = wire[d][k]
           \/ k = Len(wire[d]) + 1 /\ Append(wire[d], last)[k] = last
  BY <1>4
<1>8. /\ wire' \in [Client -> Seq(BOOLEAN)] /\ wire'[d] = Append(wire[d], last)
      /\ stage' \in [Client -> Stage] /\ stage'[d] = IF last THEN "waiting" ELSE "sending"
      /\ sent' \in [Client -> 0..MaxChunks] /\ sent'[d] = sent[d] + 1
      /\ \A c \in Client \ {d} : wire'[c] = wire[c] /\ stage'[c] = stage[c] /\ sent'[c] = sent[c]
  BY <1>1, <1>2, <1>3, <1>6, <1>7 DEF TypeOK, Stage
<1>9. ProgramStep(d) /\ asked'[d] = asked[d]
  BY <1>1 DEF ProgramStep
<1>10. /\ cur' = cur /\ path' = path
       /\ clt.by # Absent => request' = request
  BY <1>9, ProgramRequest
<1>11. TypeOK'
  BY <1>1, <1>2, <1>8 DEF TypeOK
<1>12. Newcomers'
  <2>1. \A c \in Client : stage'[c] = "new" <=> stage[c] = "new"
    BY <1>1, <1>8
  <2>2. \A n \in 1..Len(backlog) : backlog[n] \in Client
    BY <1>2 DEF TypeOK
  <2>3. \A c \in Client : Fresh(c)' <=> Fresh(c)
    BY <1>1, <2>1 DEF Fresh, Queued
  <2>4. \A c \in Client : Len(wire[c]) = sent[c] => Len(wire'[c]) = sent'[c]
    BY <1>4, <1>7, <1>8
  <2>5. \A c \in Client : asked[c] = Absent => stage'[c] = stage[c] /\ wire'[c] = wire[c]
    BY <1>5, <1>8
  <2>6. \A c \in Client : stage'[c] = "new" => sent'[c] = sent[c]
    BY <1>8
  <2> QED
    BY <1>1, <1>2, <1>10, <2>1, <2>2, <2>3, <2>4, <2>5, <2>6 DEF Newcomers
<1>13. Executing' /\ ExecutedOnce'
  <2>1. \A c \in Client : asked[c] = Absent => stage'[c] = stage[c]
    BY <1>5, <1>8
  <2>2. cur \in Client
    BY <1>2 DEF TypeOK, cur
  <2> QED
    BY <1>1, <1>2, <1>10, <2>1, <2>2 DEF Executing, Searching, Found, ExecutedOnce
<1>14. clt.pc \in {"truncate", "transfer", "post"} => clt.by # Absent
  BY <1>2 DEF Executing, Found
<1>15. Opened' /\ ReadWhole'
  BY <1>1, <1>2, <1>10, <1>14 DEF Opened, Before, ReadWhole
<1>16. Chunks'
  <2>0. cur \in Client
    BY <1>2 DEF TypeOK, cur
  <2>1. \A c \in Client : \A k \in 1..Len(wire'[c]) :
          wire'[c][k] => k = Len(wire'[c]) /\ stage'[c] # "sending"
    <3>1. \A k \in 1..Len(wire[d]) : ~wire[d][k]
      BY <1>1, <1>2 DEF Chunks
    <3>2. \A k \in 1..Len(wire'[d]) : wire'[d][k] => k = Len(wire'[d]) /\ stage'[d] # "sending"
      BY <1>7, <1>8, <3>1
    <3>3. ASSUME NEW c \in Client \ {d}, NEW k \in 1..Len(wire[c]), wire[c][k]
          PROVE  k = Len(wire[c]) /\ stage[c] # "sending"
      BY <1>2, <3>3 DEF Chunks
    <3> QED
      BY <1>8, <3>2, <3>3
  <2>2. \A c \in Client : stage'[c] = "sending" => asked[c].op = "WRITE_FILE" /\ sent'[c] < MaxChunks
    BY <1>2, <1>5, <1>6, <1>8 DEF Chunks
  <2>3. \A c \in Client : asked[c] # Absent /\ asked[c].op # "WRITE_FILE" => wire'[c] = <<>>
    BY <1>2, <1>5, <1>8 DEF Chunks
  <2>4. \A c \in Client : Len(wire[c]) = sent[c] => Len(wire'[c]) = sent'[c]
    BY <1>4, <1>7, <1>8
  <2>5. \A c \in Client : Len(wire[c]) <= sent[c] =>
          Len(wire'[c]) <= sent'[c] /\ sent'[c] - Len(wire'[c]) = sent[c] - Len(wire[c])
    <3>1. Len(wire'[d]) = Len(wire[d]) + 1 /\ sent'[d] = sent[d] + 1
      BY <1>7, <1>8
    <3>2. Len(wire[d]) <= sent[d] =>
            Len(wire'[d]) <= sent'[d] /\ sent'[d] - Len(wire'[d]) = sent[d] - Len(wire[d])
      BY <1>4, <3>1
    <3> QED
      BY <1>8, <3>2
  <2>6. \A c \in Client : stage'[c] # "gone" => stage[c] # "gone"
    BY <1>1, <1>8
  <2> QED
    BY <1>1, <1>2, <1>10, <1>14, <2>0, <2>1, <2>2, <2>3, <2>4, <2>5, <2>6 DEF Chunks, Before
<1> QED
  BY <1>11, <1>12, <1>13, <1>15, <1>16 DEF Served

LEMMA EndKeeps ==
  ASSUME IInv, NEW d \in Client, Leave(d) \/ Show(d)
  PROVE  TypeOK' /\ Served'
<1>1. /\ stage[d] \in {"sending", "waiting", "stopped"}
      /\ UNCHANGED <<up, content, entries, numPaths, mutex, nm, forwards, clt, backlog, asked, wire,
                     sent, got, told, served>>
  BY DEF Leave, Show, diskVars
<1>2. TypeOK /\ Newcomers /\ Executing /\ ExecutedOnce /\ Opened /\ ReadWhole /\ Chunks
  BY DEF IInv, Served
<1>3. PICK st \in {"gone", "stopped", "success", "error"} : stage' = [stage EXCEPT ![d] = st]
  BY DEF Leave, Show
<1>4. /\ stage' \in [Client -> Stage]
      /\ \A c \in Client : /\ stage'[c] = "new" <=> stage[c] = "new"
                           /\ stage'[c] = "sending" => stage[c] = "sending"
                           /\ stage[c] = "gone" => stage'[c] = "gone"
                           /\ asked[c] = Absent => stage'[c] = stage[c]
  BY <1>1, <1>2, <1>3 DEF TypeOK, Stage, Newcomers
<1>5. cur' = cur /\ request' = request /\ path' = path
  BY <1>1, SameRequest
<1>6. cur \in Client /\ \A n \in 1..Len(backlog) : backlog[n] \in Client
  BY <1>2 DEF TypeOK, cur
<1>7. TypeOK'
  BY <1>1, <1>2, <1>4 DEF TypeOK
<1>8. Newcomers' /\ ExecutedOnce'
  <2>1. \A c \in Client : Fresh(c)' <=> Fresh(c)
    BY <1>1, <1>4 DEF Fresh, Queued
  <2> QED
    BY <1>1, <1>2, <1>4, <1>5, <1>6, <2>1 DEF Newcomers, ExecutedOnce
<1>9. Executing'
  BY <1>1, <1>2, <1>4, <1>5, <1>6 DEF Executing, Searching, Found
<1>10. Opened' /\ ReadWhole' /\ Chunks'
  BY <1>1, <1>2, <1>4, <1>5, <1>6 DEF Opened, Before, ReadWhole, Chunks
<1> QED
  BY <1>7, <1>8, <1>9, <1>10 DEF Served

LEMMA ServedStep == IInv /\ [Next]_vars => TypeOK' /\ Served'
<1> SUFFICES ASSUME IInv, [Next]_vars PROVE TypeOK' /\ Served'
  OBVIOUS
<1>1. ASSUME UNCHANGED <<content, entries, numPaths, mutex, nm, forwards, clt, backlog,
                         asked, stage, wire, sent, got, told, served>>, up' \in BOOLEAN
      PROVE  TypeOK' /\ Served'
  <2>1. TypeOK /\ Newcomers /\ Executing /\ ExecutedOnce /\ Opened /\ ReadWhole /\ Chunks
    BY DEF IInv, Served
  <2>2. cur' = cur /\ request' = request /\ path' = path
    BY <1>1, SameRequest
  <2>3. TypeOK'
    BY <1>1, <2>1 DEF TypeOK
  <2>4. Newcomers' /\ ExecutedOnce'
    BY <1>1, <2>1, <2>2 DEF Newcomers, Fresh, Queued, ExecutedOnce
  <2>5. Executing'
    BY <1>1, <2>1, <2>2 DEF Executing, Searching, Found
  <2>6. Opened' /\ ReadWhole' /\ Chunks'
    BY <1>1, <2>1, <2>2 DEF Opened, Before, ReadWhole, Chunks
  <2> QED
    BY <2>3, <2>4, <2>5, <2>6 DEF Served
<1>2. CASE UNCHANGED vars
  BY <1>1, <1>2 DEF vars, IInv, TypeOK
<1>3. CASE BrokenPipe
  BY <1>1, <1>3, PipeFrame DEF BrokenPipe
<1> QED
  BY <1>2, <1>3, NextSteps, ConnectKeeps, SendChunkKeeps, EndKeeps, NmKeeps, ClientThreadKeeps
  DEF ProgramStep

-----------------------------------------------------------------------------
(* The mutex, the disk and the list.                                       *)

(* A step of clientThread outside the mutex, taking it, under it, or       *)
(* giving it back: it never creates or removes a file.                     *)
LEMMA CltAtDisk ==
  ASSUME IInv, ClientThread
  PROVE  /\ \/ ~CltIn /\ ~CltIn' /\ mutex' = mutex
            \/ ~CltIn /\ CltIn' /\ mutex = 1 /\ mutex' = 0
            \/ CltIn /\ CltIn' /\ mutex' = mutex
            \/ CltIn /\ ~CltIn' /\ mutex' = mutex + 1
         /\ Present' = Present
<1> USE DEF CltIn
<1>0. TypeOK /\ clt \in CltRecord
  BY DEF IInv, TypeOK, CltRecord
<1>1. ASSUME content' = content PROVE Present' = Present
  BY <1>1 DEF Present
<1>2. CASE Accept
  BY <1>1, <1>2 DEF Accept, CltAt, diskVars
<1>3. CASE Check \/ Refuse \/ SendAck
  <2>1. clt.pc \in {"check", "refuse", "ack"} /\ mutex' = mutex /\ content' = content
    BY <1>3 DEF Check, Refuse, SendAck, CltAt, diskVars
  <2>2. PICK pc \in {"compare", "refuse", "accept"} : CltGoto(pc)
    BY <1>3 DEF Check, Refuse, SendAck
  <2>3. clt'.pc = pc
    BY <1>0, <2>2 DEF CltGoto, CltRecord
  <2> QED
    BY <1>1, <2>1, <2>2, <2>3
<1>4. CASE Compare
  <2>1. clt.pc = "compare" /\ mutex' = mutex /\ content' = content
    BY <1>4 DEF Compare, CltAt, diskVars
  <2>2. clt'.pc \in {"wait", "check"}
    BY <1>0, <1>4 DEF Compare, CltRecord
  <2> QED
    BY <1>1, <2>1, <2>2
<1>5. CASE CltTakeMutex \/ CltPost
  <2>1. content' = content
    BY <1>5 DEF CltTakeMutex, CltPost, diskVars
  <2>2. \/ clt.pc = "wait" /\ clt'.pc = "open" /\ mutex = 1 /\ mutex' = 0
        \/ clt.pc = "post" /\ clt'.pc = "ack" /\ mutex' = mutex + 1
    BY <1>0, <1>5 DEF CltTakeMutex, CltPost, CltAt, CltGoto, CltRecord
  <2> QED
    BY <1>1, <2>1, <2>2
<1>6. CASE Open
  <2>1. clt.pc = "open" /\ mutex' = mutex /\ content' = content
    BY <1>6 DEF Open, CltAt, diskVars
  <2>2. clt'.pc \in {"post", "transfer", "truncate"}
    BY <1>0, <1>6 DEF Open, CltRecord
  <2> QED
    BY <1>1, <2>1, <2>2
<1>7. CASE Truncate
  <2>1. clt.pc = "truncate" /\ mutex' = mutex /\ content' = [content EXCEPT ![path] = <<>>]
        /\ CltGoto("transfer")
    BY <1>7 DEF Truncate, CltAt
  <2>2. clt'.pc = "transfer" /\ content[path] # Absent
    BY <1>0, <2>1 DEF CltGoto, CltRecord, IInv, Served, Opened
  <2>3. <<>> \in Seq(Client \union {Old})
    OBVIOUS
  <2>4. Present' = Present
    BY <1>0, <2>1, <2>2, <2>3, StorageAssumption DEF Present, TypeOK
  <2> QED
    BY <2>1, <2>2, <2>4
<1>8. CASE ReadChunk
  <2>1. clt.pc = "transfer" /\ mutex' = mutex /\ content' = content
        /\ (clt' = clt \/ CltGoto("post"))
    BY <1>8 DEF ReadChunk, CltAt, diskVars
  <2>2. clt'.pc \in {"transfer", "post"}
    BY <1>0, <2>1 DEF CltGoto, CltRecord
  <2> QED
    BY <1>1, <2>1, <2>2
<1>9. CASE WriteChunk \/ WriteAgain
  <2>1. clt.pc = "transfer" /\ mutex' = mutex /\ clt'.pc \in {"transfer", "post"}
    BY <1>9, WriteLoop
  <2>2. content' = content \/ content' = Appended
    BY <1>9 DEF WriteChunk, WriteAgain
  <2>3. Present' = Present
    BY <1>0, <2>1, <2>2, AppendedEffect DEF Present, TypeOK
  <2> QED
    BY <2>1, <2>3
<1> QED
  BY <1>2, <1>3, <1>4, <1>5, <1>6, <1>7, <1>8, <1>9 DEF ClientThread

LEMMA PlacedStep == IInv /\ [Next]_vars => Placed'
<1> SUFFICES ASSUME IInv, [Next]_vars PROVE Placed'
  OBVIOUS
<1>0. TypeOK /\ Exclusive /\ Listed /\ NoOutcome
  BY DEF IInv, Placed
<1>1. ASSUME UNCHANGED <<mutex, nm, entries, numPaths, content>>, clt' = clt PROVE Placed'
  <2>1. Exclusive' /\ NoOutcome'
    BY <1>0, <1>1 DEF Exclusive, CltIn, NmIn, NoOutcome
  <2>2. Present' = Present /\ Unlisted' = Unlisted
    BY <1>1 DEF Present, Unlisted
  <2>3. Listed'
    BY <1>0, <1>1, <2>2 DEF Listed
  <2> QED
    BY <2>1, <2>3 DEF Placed
<1>2. CASE ClientThread
  <2>1. UNCHANGED <<nm, entries, numPaths>>
    BY <1>2, CltFrame
  <2>2. Exclusive'
    BY <1>0, <1>2, <2>1, CltAtDisk DEF Exclusive, NmIn, TypeOK
  <2>3. Listed' /\ NoOutcome'
    BY <1>0, <1>2, <2>1, CltAtDisk DEF Listed, Unlisted, NoOutcome
  <2> QED
    BY <2>2, <2>3 DEF Placed
<1>3. ASSUME NEW r \in Forwarded, NmAccept(r) PROVE Placed'
  <2>1. /\ nm.pc = "accept" /\ nm'.pc = "wait" /\ nm'.ack = nm.ack
        /\ UNCHANGED <<content, entries, numPaths, mutex, clt>>
    BY <1>0, <1>3 DEF NmAccept, NmAt, diskVars, TypeOK
  <2>2. Exclusive' /\ NoOutcome'
    BY <1>0, <2>1 DEF Exclusive, CltIn, NmIn, NoOutcome
  <2>3. Present' = Present /\ Unlisted' = Unlisted
    BY <2>1 DEF Present, Unlisted
  <2>4. Listed'
    BY <1>0, <2>1, <2>3 DEF Listed
  <2> QED
    BY <2>2, <2>4 DEF Placed
<1>4. CASE NmTakeMutex
  <2>1. /\ nm.pc = "wait" /\ nm'.pc = "execute" /\ nm'.ack = nm.ack /\ mutex = 1 /\ mutex' = 0
        /\ UNCHANGED <<content, entries, numPaths, clt>>
    BY <1>0, <1>4 DEF NmTakeMutex, NmAt, diskVars, TypeOK
  <2>2. Exclusive' /\ NoOutcome'
    BY <1>0, <2>1 DEF Exclusive, CltIn, NmIn, NoOutcome
  <2>3. Present' = Present /\ Unlisted' = Unlisted
    BY <2>1 DEF Present, Unlisted
  <2>4. Listed'
    BY <1>0, <2>1, <2>3 DEF Listed
  <2> QED
    BY <2>2, <2>4 DEF Placed
<1>5. CASE NmExecute
  <2>1. /\ nm.pc = "execute" /\ nm'.pc = "list" /\ content' = Executed /\ numPaths' = 0
        /\ nm'.unlisted = {g \in File : Executed[g] # Absent}
        /\ UNCHANGED <<entries, mutex, clt>>
    BY <1>0, <1>5 DEF NmExecute, NmAt, TypeOK
  <2>2. Unlisted' = Present'
    BY <2>1 DEF Unlisted, Present
  <2>3. Listed'
    BY <2>1, <2>2, FS_EmptySet DEF Listed
  <2>4. Exclusive' /\ NoOutcome'
    BY <1>0, <2>1 DEF Exclusive, CltIn, NmIn, NoOutcome
  <2> QED
    BY <2>3, <2>4 DEF Placed
<1>6. ASSUME NEW g \in File, NmList(g) PROVE Placed'
  <2>1. /\ nm.pc = "list" /\ nm'.pc = "list" /\ g \in nm.unlisted /\ nm'.unlisted = nm.unlisted \ {g}
        /\ entries' = [entries EXCEPT ![numPaths + 1] = g] /\ numPaths' = numPaths + 1
        /\ UNCHANGED <<content, mutex, clt>>
    BY <1>0, <1>6 DEF NmList, NmAt, TypeOK
  <2> DEFINE S == Present \ Unlisted
  <2>2. Present' = Present /\ Unlisted' = Unlisted \ {g} /\ g \in Unlisted
    BY <2>1 DEF Present, Unlisted
  <2>3. S \in SUBSET File /\ g \in File \ S /\ (Present \ Unlisted)' = S \union {g}
    BY <1>0, <2>2 DEF Present, Listed
  <2>4. /\ numPaths' = Cardinality(S \union {g})
        /\ numPaths \in Nat /\ numPaths + 1 \in 1..Cardinality(File)
    <3>1. numPaths = Cardinality(S) /\ Cardinality(S) \in Nat
      BY <1>0, <2>3, FilesFinite DEF Listed
    <3>2. /\ Cardinality(S \union {g}) = Cardinality(S) + 1
          /\ Cardinality(S) + 1 <= Cardinality(File) /\ Cardinality(File) \in Nat
      BY <2>3, FilesFinite
    <3> QED
      BY <2>1, <3>1, <3>2
  <2>5. /\ entries'[numPaths + 1] = g
        /\ \A n \in 1..numPaths : n \in 1..(numPaths + 1) /\ entries'[n] = entries[n]
    BY <1>0, <2>1, <2>4 DEF TypeOK
  <2>6. \A n \in 1..numPaths' : n \in 1..numPaths \/ n = numPaths + 1
    BY <2>1, <2>4
  <2>7. {entries'[n] : n \in 1..numPaths'} = {entries[n] : n \in 1..numPaths} \union {g}
    BY <2>1, <2>4, <2>5, <2>6
  <2>8. Listed'
    BY <1>0, <2>2, <2>3, <2>4, <2>7 DEF Listed
  <2>9. Exclusive' /\ NoOutcome'
    BY <1>0, <2>1 DEF Exclusive, CltIn, NmIn, NoOutcome
  <2> QED
    BY <2>8, <2>9 DEF Placed
<1>7. CASE NmPost
  <2>1. /\ nm.pc = "list" /\ nm'.pc = "reply" /\ nm.unlisted = {} /\ mutex' = mutex + 1
        /\ UNCHANGED <<content, entries, numPaths, clt>>
    BY <1>0, <1>7 DEF NmPost, NmAt, diskVars, TypeOK
  <2>2. Present' = Present /\ Unlisted' = Unlisted
    BY <2>1 DEF Present, Unlisted
  <2>3. Listed' /\ NoOutcome'
    BY <1>0, <2>1, <2>2 DEF Listed, NoOutcome
  <2>4. Exclusive'
    BY <1>0, <2>1 DEF Exclusive, CltIn, NmIn, TypeOK
  <2> QED
    BY <2>3, <2>4 DEF Placed
<1>8. CASE NmReply
  <2>1. /\ nm.pc = "reply" /\ nm'.pc = "accept" /\ nm'.ack = "success"
        /\ UNCHANGED <<content, entries, numPaths, mutex, clt>>
    BY <1>0, <1>8 DEF NmReply, NmAt, diskVars, TypeOK
  <2>2. Exclusive' /\ NoOutcome'
    BY <1>0, <2>1 DEF Exclusive, CltIn, NmIn, NoOutcome
  <2>3. Present' = Present /\ Unlisted' = Unlisted
    BY <2>1 DEF Present, Unlisted
  <2>4. Listed'
    BY <1>0, <2>1, <2>3 DEF Listed
  <2> QED
    BY <2>2, <2>4 DEF Placed
<1>9. CASE UNCHANGED vars
  BY <1>1, <1>9 DEF vars
<1> QED
  BY <1>0, <1>1, <1>2, <1>3, <1>4, <1>5, <1>6, <1>7, <1>8, <1>9, NextSteps, ProgramFrame, PipeFrame
  DEF NmStep, NmThread

LEMMA Inductive == Spec => []IInv
<1>1. Init => IInv
  BY StorageInit DEF WInv
<1>2. IInv /\ [Next]_vars => IInv'
  BY ServedStep, PlacedStep DEF IInv
<1> QED
  BY <1>1, <1>2, PTL DEF Spec

-----------------------------------------------------------------------------
(* Writes and acknowledgments.  These hold if the uninitialised bytesRead  *)
(* is never 0, so that the loop of a write ends with its last chunk only:  *)
(* FALSE \notin LoopsOn is what the build that the runs check does.        *)

(* Who asked for no write, or for nothing, sends no chunks.                *)
LEMMA NoChunks ==
  ASSUME IInv, Found, request.op # "WRITE_FILE"
  PROVE  wire[cur] = <<>> /\ stage[cur] # "sending"
<1>1. cur \in Client /\ clt.pc # "accept"
  BY DEF IInv, TypeOK, cur, Found
<1>2. CASE asked[cur] = Absent
  BY <1>1, <1>2 DEF IInv, Served, Newcomers
<1>3. CASE asked[cur] # Absent
  <2>1. clt.by = cur
    BY <1>1, <1>3 DEF IInv, Served, Executing
  <2>2. asked[cur].op # "WRITE_FILE"
    BY <2>1 DEF request
  <2> QED
    BY <1>1, <1>3, <2>2 DEF IInv, Served, Chunks
<1> QED
  BY <1>2, <1>3

LEMMA TailEmpty ==
  ASSUME NEW S, NEW s \in Seq(S), s # <<>>
  PROVE  Tail(s) = <<>> <=> Len(s) = 1
<1>1. Len(s) \in Nat /\ Len(Tail(s)) = Len(s) - 1 /\ Tail(s) \in Seq(S)
  OBVIOUS
<1>2. Tail(s) = <<>> <=> Len(Tail(s)) = 0
  BY <1>1, EmptySeq
<1> QED
  BY <1>1, <1>2

(* The last chunk of a write is the last one on the wire.                  *)
LEMMA LastChunk ==
  ASSUME IInv, FALSE \notin LoopsOn, WriteChunk, clt'.pc = "post"
  PROVE  wire'[cur] = <<>> /\ stage[cur] # "sending"
<1>1. clt.pc = "transfer" /\ wire[cur] # <<>> /\ wire' = [wire EXCEPT ![cur] = Tail(wire[cur])]
  BY DEF WriteChunk, CltAt
<1>2. cur \in Client /\ wire \in [Client -> Seq(BOOLEAN)] /\ wire[cur] \in Seq(BOOLEAN)
  BY DEF IInv, TypeOK, cur
<1>3. wire[cur][1]
  <2>1. PICK more \in LoopsOn : IF wire[cur][1] \/ ~more THEN CltGoto("post") ELSE UNCHANGED clt
    BY DEF WriteChunk
  <2>2. more
    BY StorageAssumption
  <2> QED
    BY <1>1, <2>1, <2>2
<1>4. 1 \in 1..Len(wire[cur])
  BY <1>1, <1>2
<1>5. 1 = Len(wire[cur]) /\ stage[cur] # "sending"
  BY <1>2, <1>3, <1>4 DEF IInv, Served, Chunks
<1>6. Tail(wire[cur]) = <<>>
  BY <1>1, <1>2, <1>5, TailEmpty
<1> QED
  BY <1>1, <1>2, <1>5, <1>6

(* The acknowledgments already sent stay true.                             *)
LEMMA AcknowledgedStays ==
  ASSUME Acknowledged,
         \A d \in Client : stage'[d] = "success" => stage[d] = "success" \/ told[d] = "success",
         \A d \in Client : told'[d] = "success" <=> told[d] = "success",
         \A d \in Client : told[d] = "success" /\ stage'[d] # "gone" =>
           /\ stage[d] # "gone" /\ (stage'[d] = "sending" => stage[d] = "sending")
           /\ wire'[d] = wire[d] /\ (served[d] = 1 => served'[d] = 1)
  PROVE  Acknowledged'
  BY DEF Acknowledged

LEMMA ClientThreadComplete ==
  ASSUME WInv, FALSE \notin LoopsOn, ClientThread
  PROVE  Taken' /\ Acknowledged' /\ WriteWhole'
<1>0. /\ IInv /\ TypeOK /\ clt \in CltRecord /\ cur \in Client
      /\ Executing /\ Taken /\ Acknowledged /\ WriteWhole
      /\ Chunks
  BY DEF WInv, IInv, Served, TypeOK, CltRecord, cur
<1>1. asked' = asked /\ stage' = stage /\ sent' = sent
  BY CltFrame
<1>2. ASSUME told' = told, wire' = wire, served' = served PROVE Acknowledged'
  BY <1>0, <1>1, <1>2 DEF Acknowledged
<1>3. ASSUME clt'.pc \notin {"post", "ack"} PROVE Taken' /\ WriteWhole'
  BY <1>3 DEF Taken, WriteWhole
<1>4. CASE Accept \/ Check \/ CltTakeMutex \/ Truncate
  <2>1. told' = told /\ wire' = wire /\ served' = served
    BY <1>4 DEF Accept, Check, CltTakeMutex, Truncate, clientVars
  <2>2. clt'.pc \notin {"post", "ack"}
    <3>1. CASE Accept
      BY <3>1 DEF Accept
    <3>2. CASE Check \/ CltTakeMutex \/ Truncate
      BY <1>0, <3>2 DEF Check, CltTakeMutex, Truncate, CltGoto, CltRecord
    <3> QED
      BY <1>4, <3>1, <3>2
  <2> QED
    BY <1>2, <1>3, <2>1, <2>2
<1>5. CASE Compare
  <2>1. told' = told /\ wire' = wire /\ clt.pc = "compare"
    BY <1>5 DEF Compare, CltAt
  <2>2. clt'.pc \in {"wait", "check"}
    BY <1>0, <1>5 DEF Compare, CltRecord
  <2>3. served' = served \/ served' = [served EXCEPT ![clt.by] = IF @ < 2 THEN @ + 1 ELSE @]
    BY <1>5 DEF Compare
  <2>4. \A d \in Client : served[d] = 1 => served'[d] = 1
    <3>1. clt.by # Absent => served[clt.by] = 0
      BY <1>0, <2>1 DEF Executing, Searching
    <3>2. \A d \in Client : served[d] = 1 => d # clt.by
      BY <3>1, StorageAssumption
    <3> QED
      BY <1>0, <2>3, <3>2 DEF TypeOK
  <2>5. Acknowledged'
    BY <1>0, <1>1, <2>1, <2>4, AcknowledgedStays
  <2> QED
    BY <1>3, <2>2, <2>5
<1>6. CASE Refuse
  <2>1. /\ clt.pc = "refuse" /\ wire' = wire /\ served' = served
        /\ told' = [told EXCEPT ![cur] = "failure"] /\ CltGoto("accept")
    BY <1>6 DEF Refuse, CltAt
  <2>2. clt'.pc = "accept"
    BY <1>0, <2>1 DEF CltGoto, CltRecord
  <2>3. \A d \in Client : told'[d] = "success" <=> told[d] = "success"
    BY <1>0, <2>1 DEF Executing, TypeOK
  <2>4. Acknowledged'
    BY <1>0, <1>1, <2>1, <2>3, AcknowledgedStays
  <2> QED
    BY <1>3, <2>2, <2>4
<1>7. CASE SendAck
  <2>1. /\ clt.pc = "ack" /\ wire' = wire /\ served' = served
        /\ told' = [told EXCEPT ![cur] = clt.ack] /\ CltGoto("accept")
    BY <1>7 DEF SendAck, CltAt
  <2>2. clt'.pc = "accept"
    BY <1>0, <2>1 DEF CltGoto, CltRecord
  <2>3. /\ \A d \in Client \ {cur} : told'[d] = told[d]
        /\ told'[cur] = clt.ack /\ told[cur] = "none"
    BY <1>0, <2>1 DEF Executing, TypeOK
  <2>4. clt.ack = "success" /\ stage[cur] # "gone" =>
          served[cur] = 1 /\ wire[cur] = <<>> /\ stage[cur] # "sending"
    <3>1. stage[cur] # "gone" => clt.by = cur /\ served[clt.by] = 1
      BY <1>0, <2>1, StorageAssumption DEF Executing, Found
    <3> QED
      BY <1>0, <2>1, <3>1 DEF Taken
  <2>5. Acknowledged'
    BY <1>0, <1>1, <2>1, <2>3, <2>4 DEF Acknowledged
  <2> QED
    BY <1>3, <2>2, <2>5
<1>8. CASE Open \/ ReadChunk
  <2>1. told' = told /\ wire' = wire /\ served' = served /\ Found
    BY <1>8 DEF Open, ReadChunk, CltAt, Found, clientVars
  <2>2. clt'.client = clt.client /\ clt'.by = clt.by
    <3>1. CASE Open
      BY <1>0, <3>1 DEF Open, CltRecord
    <3>2. CASE ReadChunk
      BY <1>0, <3>2 DEF ReadChunk, CltGoto, CltRecord
    <3> QED
      BY <1>8, <3>1, <3>2
  <2>3. cur' = cur /\ request' = request /\ path' = path
    BY <1>1, <2>2, SameRequest
  <2>4. clt'.pc = "post" /\ clt'.ack = "success" => request.op # "WRITE_FILE"
    <3>1. CASE ReadChunk
      BY <3>1 DEF ReadChunk
    <3>2. CASE Open
      BY <1>0, <3>2 DEF Open, CltRecord
    <3> QED
      BY <1>8, <3>1, <3>2
  <2>5. clt'.pc # "ack"
    BY <1>0, <1>8 DEF Open, ReadChunk, CltAt, CltGoto, CltRecord
  <2>6. Taken' /\ WriteWhole'
    BY <1>0, <1>1, <2>1, <2>3, <2>4, <2>5, NoChunks DEF Taken, WriteWhole
  <2> QED
    BY <1>2, <2>1, <2>6
<1>9. CASE WriteChunk \/ WriteAgain
  <2>1. /\ clt.pc = "transfer" /\ clt'.pc \in {"transfer", "post"}
        /\ told' = told /\ served' = served
        /\ cur' = cur /\ request' = request /\ path' = path /\ request.op = "WRITE_FILE"
    BY <1>0, <1>9, WriteLoop
  <2>2. Acknowledged'
    <3>1. \A d \in Client \ {cur} : wire'[d] = wire[d]
      BY <1>0, <1>9 DEF WriteChunk, WriteAgain, TypeOK, clientVars
    <3>2. told[cur] = "none"
      BY <1>0, <2>1 DEF Executing
    <3> QED
      BY <1>0, <1>1, <2>1, <3>1, <3>2, AcknowledgedStays
  <2>3. ASSUME clt'.pc = "post" PROVE Taken' /\ WriteWhole'
    <3>1. wire'[cur] = <<>> /\ stage[cur] # "sending"
      BY <1>0, <1>9, <2>3, LastChunk DEF WriteAgain, clientVars
    <3>2. ASSUME stage[cur] # "gone" PROVE content'[path] = [n \in 1..sent[cur] |-> cur]
      <4>1. WriteChunk
        BY <1>9, <3>2 DEF WriteAgain
      <4>2. /\ path \in File /\ content' = [content EXCEPT ![path] = Append(content[path], cur)]
            /\ wire[cur] # <<>> /\ wire' = [wire EXCEPT ![cur] = Tail(wire[cur])]
        BY <1>0, <2>1, <4>1, AppendedEffect DEF WriteChunk
      <4>3. content'[path] = Append(content[path], cur) /\ wire'[cur] = Tail(wire[cur])
        BY <1>0, <4>2 DEF TypeOK
      <4>4. Len(wire[cur]) = 1
        <5>1. wire[cur] \in Seq(BOOLEAN)
          BY <1>0 DEF TypeOK
        <5> QED
          BY <3>1, <4>2, <4>3, <5>1, TailEmpty
      <4>5. content[path] = [n \in 1..(sent[cur] - 1) |-> cur] /\ 1 <= sent[cur]
        BY <1>0, <2>1, <3>2, <4>4 DEF Chunks
      <4>6. sent[cur] - 1 \in Nat /\ (sent[cur] - 1) + 1 = sent[cur]
        BY <1>0, <4>5 DEF TypeOK
      <4> QED
        BY <4>3, <4>5, <4>6, AppendSame
    <3> QED
      BY <1>1, <2>1, <2>3, <3>1, <3>2 DEF Taken, WriteWhole
  <2> QED
    BY <1>3, <2>1, <2>2, <2>3
<1>10. CASE CltPost
  <2>1. /\ clt.pc = "post" /\ told' = told /\ wire' = wire /\ served' = served /\ CltGoto("ack")
    BY <1>10 DEF CltPost, CltAt, clientVars
  <2>2. clt'.pc = "ack" /\ clt'.client = clt.client /\ clt'.ack = clt.ack
    BY <1>0, <2>1 DEF CltGoto, CltRecord
  <2>3. Taken' /\ WriteWhole'
    BY <1>0, <1>1, <2>1, <2>2 DEF Taken, WriteWhole, cur
  <2> QED
    BY <1>2, <2>1, <2>3
<1> QED
  BY <1>4, <1>5, <1>6, <1>7, <1>8, <1>9, <1>10 DEF ClientThread

LEMMA NmStepComplete ==
  ASSUME WInv, NmStep
  PROVE  Taken' /\ Acknowledged' /\ WriteWhole'
<1>1. UNCHANGED <<clt, asked, stage, wire, sent, told, served>>
  BY NmFrame
<1>2. cur' = cur /\ request' = request /\ path' = path
  BY <1>1, SameRequest
<1>3. Taken' /\ Acknowledged'
  BY <1>1, <1>2 DEF WInv, Taken, Acknowledged
<1>4. CltIn => content' = content
  <2>1. NmExecute => ~CltIn
    BY DEF WInv, IInv, Placed, Exclusive, NmIn, NmExecute, NmAt
  <2>2. NmExecute \/ content' = content
    BY DEF NmStep, NmThread, NmAccept, NmTakeMutex, NmList, NmPost, NmReply, diskVars
  <2> QED
    BY <2>1, <2>2
<1>5. WriteWhole'
  BY <1>1, <1>2, <1>4 DEF WInv, WriteWhole, CltIn
<1> QED
  BY <1>3, <1>5

LEMMA ProgramComplete ==
  ASSUME WInv, NEW d \in Client, ProgramStep(d)
  PROVE  Taken' /\ Acknowledged' /\ WriteWhole'
<1>0. /\ IInv /\ TypeOK /\ Newcomers /\ Executing /\ Chunks
      /\ Taken /\ Acknowledged /\ WriteWhole
  BY DEF WInv, IInv, Served
<1>1. /\ UNCHANGED <<content, clt, told, served>>
      /\ \A c \in Client \ {d} : /\ asked'[c] = asked[c] /\ stage'[c] = stage[c]
                                 /\ wire'[c] = wire[c] /\ sent'[c] = sent[c]
  BY <1>0, ProgramFrame
<1>2. cur' = cur /\ cur \in Client
  BY <1>0, <1>1 DEF cur, TypeOK
<1>3. /\ told[d] = "success" => wire'[d] = wire[d]
      /\ \/ stage[d] = "new" /\ Fresh(d) /\ told[d] = "none"
         \/ stage[d] = "sending" /\ asked'[d] = asked[d] /\ stage'[d] \in {"sending", "waiting"}
            /\ told[d] = "none"
         \/ stage[d] # "gone" /\ asked'[d] = asked[d] /\ wire'[d] = wire[d] /\ sent'[d] = sent[d]
            /\ stage'[d] \in {"gone", "stopped", "success", "error"}
            /\ (stage'[d] = "success" => told[d] = "success")
      /\ stage[d] \notin {"success", "gone"}
      /\ stage'[d] = "success" => told[d] = "success"
  <2>1. CASE HangUp(d) \/ \E a \in Ask : Connect(d, a)
    <3>1. stage[d] = "new" /\ Fresh(d) /\ wire' = wire
      BY <2>1 DEF HangUp, Connect, Fresh
    <3>2. stage'[d] # "success"
      BY <1>0, <2>1 DEF HangUp, Connect, TypeOK
    <3> QED
      BY <1>0, <3>1, <3>2 DEF Newcomers
  <2>2. CASE SendChunk(d)
    <3>1. stage[d] = "sending" /\ asked' = asked /\ told[d] = "none"
      BY <2>2 DEF SendChunk
    <3>2. stage'[d] \in {"sending", "waiting"}
      BY <1>0, <2>2, <3>1 DEF SendChunk, TypeOK
    <3> QED
      BY <3>1, <3>2
  <2>3. CASE Leave(d) \/ Show(d)
    <3>1. asked' = asked /\ wire' = wire /\ sent' = sent /\ stage[d] \in {"sending", "waiting", "stopped"}
      BY <2>3 DEF Leave, Show
    <3>2. PICK st \in {"gone", "stopped", "success", "error"} :
            stage' = [stage EXCEPT ![d] = st] /\ (st = "success" => told[d] = "success")
      BY <2>3 DEF Leave, Show
    <3>3. stage'[d] = st
      BY <1>0, <3>2 DEF TypeOK
    <3> QED
      BY <3>1, <3>2, <3>3
  <2> QED
    BY <2>1, <2>2, <2>3 DEF ProgramStep
<1>4. Acknowledged'
  <2>1. \A c \in Client : stage'[c] = "success" => stage[c] = "success" \/ told[c] = "success"
    BY <1>1, <1>3
  <2>2. \A c \in Client : told[c] = "success" /\ stage'[c] # "gone" =>
          stage[c] # "gone" /\ (stage'[c] = "sending" => stage[c] = "sending") /\ wire'[c] = wire[c]
    BY <1>1, <1>3
  <2> QED
    BY <1>0, <1>1, <2>1, <2>2, AcknowledgedStays
<1>5. CASE cur = d /\ clt.pc # "accept"
  <2>1. ~Fresh(d)
    BY <1>0, <1>5 DEF Newcomers
  <2>2. asked'[d] = asked[d]
    BY <1>3, <2>1
  <2>3. path' = path /\ (clt.by # Absent => request' = request)
    BY <1>0, <2>2, ProgramRequest
  <2>4. clt.pc = "post" => clt.by # Absent
    BY <1>0 DEF Executing, Found
  <2>5. Taken'
    BY <1>0, <1>1, <1>2, <1>3, <1>5, <2>1 DEF Taken
  <2>6. WriteWhole'
    BY <1>0, <1>1, <1>2, <1>3, <1>5, <2>1, <2>3, <2>4 DEF Taken, WriteWhole
  <2> QED
    BY <1>4, <2>5, <2>6
<1>6. CASE ~(cur = d /\ clt.pc # "accept")
  <2>1. clt.pc # "accept" => stage'[cur] = stage[cur] /\ wire'[cur] = wire[cur] /\ sent'[cur] = sent[cur]
    BY <1>1, <1>2, <1>6
  <2>2. asked'[d] = asked[d] \/ Fresh(d)
    BY <1>3
  <2>3. path' = path /\ (clt.by # Absent => request' = request)
    BY <1>0, <2>2, ProgramRequest
  <2>4. clt.pc = "post" => clt.by # Absent
    BY <1>0 DEF Executing, Found
  <2>5. Taken' /\ WriteWhole'
    BY <1>0, <1>1, <1>2, <2>1, <2>3, <2>4 DEF Taken, WriteWhole
  <2> QED
    BY <1>4, <2>5
<1> QED
  BY <1>5, <1>6

LEMMA CompleteStep ==
  ASSUME FALSE \notin LoopsOn, WInv, [Next]_vars
  PROVE  Taken' /\ Acknowledged' /\ WriteWhole'
<1>1. ASSUME UNCHANGED <<content, clt, asked, stage, wire, sent, told, served>>
      PROVE  Taken' /\ Acknowledged' /\ WriteWhole'
  <2>1. cur' = cur /\ request' = request /\ path' = path
    BY <1>1, SameRequest
  <2> QED
    BY <1>1, <2>1 DEF WInv, Taken, Acknowledged, WriteWhole
<1>2. CASE BrokenPipe
  BY <1>1, <1>2, PipeFrame
<1>3. CASE UNCHANGED vars
  BY <1>1, <1>3 DEF vars
<1> QED
  BY <1>2, <1>3, ClientThreadComplete, NmStepComplete, ProgramComplete, NextSteps

LEMMA WriteInductive ==
  ASSUME FALSE \notin LoopsOn
  PROVE  Spec => []WInv
<1>1. Init => WInv
  BY StorageInit
<1>2. WInv /\ [Next]_vars => WInv'
  BY ServedStep, PlacedStep, CompleteStep DEF WInv, IInv
<1> QED
  BY <1>1, <1>2, PTL DEF Spec

-----------------------------------------------------------------------------
(* What the naming server sees of nmThread.                                *)

phase == CASE nm.pc = "accept" -> "idle"
           [] nm.pc \in {"wait", "execute"} -> "taken"
           [] OTHER -> "done"
list == CASE nm.pc = "list" -> Present
          [] nm.pc = "reply" -> {entries[n] : n \in 1..numPaths}
          [] OTHER -> {}
ServiceStep == Service!Execute \/ Service!Answer \/ \E r \in Forwarded : Service!Take(r)

LEMMA ServiceInit == Init => Service!Init
<1> SUFFICES ASSUME Init PROVE Service!Init
  OBVIOUS
<1>1. Present = Range(InitFile)
  <2>1. <<Old>> \in Seq(Client \union {Old})
    OBVIOUS
  <2> QED
    BY <2>1, InitialFiles, StorageAssumption DEF Present, Init
<1>2. nm.pc = "accept" /\ nm.ack = "success" /\ nm.req \in Forwarded
  BY StorageAssumption DEF Init
<1> QED
  BY <1>1, <1>2 DEF Service!Init

LEMMA ServiceSame ==
  ASSUME Present' = Present, nm'.req = nm.req, nm'.ack = nm.ack, phase' = phase, list' = list
  PROVE  UNCHANGED Service!vars
  BY DEF Service!vars, phase, list

(* nmThread executes what it took in one step, and its other steps change  *)
(* nothing that the naming server is told.                                 *)
LEMMA NmService ==
  ASSUME IInv, NmStep
  PROVE  ServiceStep \/ UNCHANGED Service!vars
<1>0. /\ nm \in [pc : NmPc, req : Forwarded, unlisted : SUBSET File, ack : {"success", "failure"}]
      /\ Listed /\ NoOutcome
  BY DEF IInv, Placed, TypeOK
<1> USE DEF phase, list
<1>1. ASSUME NEW r \in Forwarded, NmAccept(r) PROVE Service!Take(r)
  <2>1. /\ nm.pc = "accept" /\ nm'.pc = "wait" /\ nm'.req = r /\ nm'.ack = nm.ack
        /\ content' = content
    BY <1>0, <1>1 DEF NmAccept, NmAt, diskVars
  <2>2. Present' = Present
    BY <2>1 DEF Present
  <2> QED
    BY <2>1, <2>2 DEF Service!Take
<1>2. CASE NmTakeMutex
  <2>1. /\ nm.pc = "wait" /\ nm'.pc = "execute" /\ nm'.req = nm.req /\ nm'.ack = nm.ack
        /\ content' = content
    BY <1>0, <1>2 DEF NmTakeMutex, NmAt, diskVars
  <2>2. Present' = Present
    BY <2>1 DEF Present
  <2> QED
    BY <2>1, <2>2, ServiceSame
<1>3. CASE NmExecute
  <2>1. /\ nm.pc = "execute" /\ nm'.pc = "list" /\ nm'.req = nm.req /\ nm'.ack = Outcome
        /\ content' = Executed
    BY <1>0, <1>3 DEF NmExecute, NmAt
  <2>2. nm.req.type \in {"CREATE_FILE", "DELETE_FILE"} /\ nm.req.arg \in File
    BY <1>0, StorageAssumption
  <2>3. content \in [File -> {Absent} \union Seq(Chunk)] /\ <<>> # Absent
    <3>1. <<>> \in Seq(Client \union {Old})
      OBVIOUS
    <3> QED
      BY <3>1, StorageAssumption DEF IInv, TypeOK
  <2>4. /\ content'[nm.req.arg] = IF nm.req.type = "CREATE_FILE" THEN <<>> ELSE Absent
        /\ \A f \in File \ {nm.req.arg} : content'[f] = content[f]
    BY <2>1, <2>2, <2>3 DEF Executed
  <2>5. Present' = Service!After
    BY <2>2, <2>3, <2>4 DEF Present, Service!After
  <2>6. nm'.ack = IF nm.req.type = "CREATE_FILE" \/ nm.req.arg \in Present THEN "success" ELSE "failure"
    BY <2>1, <2>2 DEF Outcome, Present
  <2>7. Service!Execute
    BY <2>1, <2>5, <2>6 DEF Service!Execute
  <2> QED
    BY <2>7 DEF ServiceStep
<1>4. ASSUME NEW g \in File, NmList(g) PROVE UNCHANGED Service!vars
  <2>1. /\ nm.pc = "list" /\ nm'.pc = "list" /\ nm'.req = nm.req /\ nm'.ack = nm.ack
        /\ content' = content
    BY <1>0, <1>4 DEF NmList, NmAt
  <2>2. Present' = Present
    BY <2>1 DEF Present
  <2> QED
    BY <2>1, <2>2, ServiceSame
<1>5. CASE NmPost
  <2>1. /\ nm.pc = "list" /\ nm'.pc = "reply" /\ nm'.req = nm.req /\ nm'.ack = nm.ack
        /\ nm.unlisted = {} /\ UNCHANGED <<content, entries, numPaths>>
    BY <1>0, <1>5 DEF NmPost, NmAt, diskVars
  <2>2. Present' = Present
    BY <2>1 DEF Present
  <2>3. {entries[n] : n \in 1..numPaths} = Present
    BY <1>0, <2>1 DEF Listed, Unlisted
  <2>4. list' = list
    BY <2>1, <2>3
  <2> QED
    BY <2>1, <2>2, <2>4, ServiceSame
<1>6. CASE NmReply
  <2>1. /\ nm.pc = "reply" /\ nm'.pc = "accept" /\ nm'.req = nm.req /\ nm'.ack = "success"
        /\ content' = content
    BY <1>0, <1>6 DEF NmReply, NmAt, diskVars
  <2>2. Present' = Present
    BY <2>1 DEF Present
  <2>3. Service!Answer
    BY <2>1, <2>2 DEF Service!Answer
  <2> QED
    BY <2>3 DEF ServiceStep
<1> QED
  BY <1>1, <1>2, <1>3, <1>4, <1>5, <1>6 DEF NmStep, NmThread, ServiceStep

LEMMA StepService == IInv /\ [Next]_vars => ServiceStep \/ UNCHANGED Service!vars
<1> SUFFICES ASSUME IInv, [Next]_vars PROVE ServiceStep \/ UNCHANGED Service!vars
  OBVIOUS
<1>1. ASSUME Present' = Present, UNCHANGED <<nm, entries, numPaths>> PROVE UNCHANGED Service!vars
  BY <1>1, ServiceSame DEF phase, list
<1>2. ASSUME content' = content PROVE Present' = Present
  BY <1>2 DEF Present
<1>3. CASE ClientThread
  BY <1>1, <1>3, CltFrame, CltAtDisk
<1>4. CASE BrokenPipe \/ UNCHANGED vars \/ \E d \in Client : ProgramStep(d)
  BY <1>1, <1>2, <1>4, PipeFrame, ProgramFrame DEF vars, IInv
<1> QED
  BY <1>3, <1>4, NmService, NextSteps

-----------------------------------------------------------------------------
(* What a storage server does, for any clients, files and requests.        *)

(* Every variable keeps its type: the list never outgrows the files there  *)
(* are, and the semaphore is 0 or 1 although both threads post it          *)
(* (server.c:26-244).                                                      *)
THEOREM StorageType == Spec => []TypeOK
<1>1. IInv => TypeOK
  BY DEF IInv
<1> QED
  BY <1>1, Inductive, PTL

(* A read that succeeded sent the file as it is: nobody truncated, wrote   *)
(* or removed it between the packets (server.c:202-210).                   *)
THEOREM StorageReadWhole == Spec => []ReadWhole
<1>1. IInv => ReadWhole
  BY DEF IInv, Served
<1> QED
  BY <1>1, Inductive, PTL

(* The list that nmThread sends after it gave the mutex back is of the     *)
(* files on the disk, each once, whatever clientThread does meanwhile      *)
(* (server.c:101-113).                                                     *)
THEOREM StorageListing == Spec => []ListingOfDisk
<1>1. IInv => ListingOfDisk
  <2> SUFFICES ASSUME IInv, nm.pc = "reply"
               PROVE  /\ numPaths = Cardinality(Present)
                      /\ {entries[n] : n \in 1..numPaths} = Present
    BY DEF ListingOfDisk
  <2>1. Unlisted = {} /\ Present \ {} = Present
    BY DEF Unlisted
  <2> QED
    BY <2>1 DEF IInv, Placed, Listed
<1> QED
  BY <1>1, Inductive, PTL

(* A request is executed once at most, although a recv that returns 0      *)
(* leaves the previous request in the buffer (server.c:162).               *)
THEOREM StorageExecutedOnce == Spec => []ExecutedOnce
<1>1. IInv => ExecutedOnce
  BY DEF IInv, Served
<1> QED
  BY <1>1, Inductive, PTL

(* What the naming server sees of a forwarded request is one step: the     *)
(* outcome and the list it is sent are of one moment, in which no client   *)
(* took part (server.c:79-116).                                            *)
THEOREM StorageForwards == Spec => ForwardedAtOnce
<1>1. Init => Service!Init
  BY ServiceInit
<1>2. IInv /\ [Next]_vars => [ServiceStep]_(Service!vars)
  BY StepService
<1> QED
  BY <1>1, <1>2, Inductive, PTL DEF Spec, ForwardedAtOnce, Service!Spec, ServiceStep

(* If the loop of a write ends with its last chunk only, then a write that *)
(* succeeded left exactly the chunks its client sent, all of them and in   *)
(* one piece, when it gives the mutex back (client_request_helper.c:142).  *)
THEOREM StorageWriteWhole ==
  ASSUME FALSE \notin LoopsOn
  PROVE  Spec => []WriteWhole
<1>1. WInv => WriteWhole
  BY DEF WInv
<1> QED
  BY <1>1, WriteInductive, PTL

(* If the loop of a write ends with its last chunk only, then a client     *)
(* that prints "Success!" (client.c:310) had its own request executed, and *)
(* all it wrote was taken, although ack is never cleared and a recv that   *)
(* returns 0 leaves it as it was.                                          *)
THEOREM StorageSuccessIsTrue ==
  ASSUME FALSE \notin LoopsOn
  PROVE  Spec => []SuccessIsTrue
<1>1. WInv => SuccessIsTrue
  BY DEF WInv, Acknowledged, SuccessIsTrue
<1> QED
  BY <1>1, WriteInductive, PTL
=============================================================================
