# A verification of the distributed network file system

This directory holds TLA+ models of the program under `src/`, the TLC
configurations that check them, and theorems about them checked by TLAPS. It is
written for somebody who has the repository at hand: every module says which
functions it translates, and `PROJECT.json` maps each definition to its lines.

## 1. The system

Three programs talk over TCP:

* the **naming server** `nm` (`src/NamingServer/`) knows which storage server
  has which path. One thread registers storage servers, one accepts clients, and
  each client has a thread of its own;
* a **storage server** `server` (`src/StorageServers/`) serves the directory it
  is started in. `nmThread` executes what the naming server forwards,
  `clientThread` serves clients, each of them one connection at a time;
* a **client** `client` (`src/Clients/`) reads commands from its user and sends
  each to the naming server, which refuses it, executes it through a storage
  server (CREATE, DELETE, LIST_ALL) or sends the client there (READ_FILE,
  WRITE_FILE, GET_INFO).

### Components, their state and operations

| component | state | operations | correct when |
|---|---|---|---|
| path trie (`nm_helper.c:364-476`) | nodes by character; `storage_server` (-1: none or deleted), `isEndOfWord` | `trieinsert`, `search_trie`, `delete_from_trie` | a path that a server announced is found unless it, or a directory it lies in, was deleted |
| lru (`nm_helper.c:329-362`) | `MAX_CACHE_SIZE` entries of hash, server, rank | `findStorageServer` | each lookup gets the server of its own path (with two threads it may not); the least recent entry is replaced |
| clients' connections (`nm.c:35-82, 208-300`) | `client_fds`, `clientRequest` on each thread's stack | accept loop, `recv`, the sends of an answer | a client reads the answer to its own request, a request is executed once, a slot is freed |
| registration (`new_srv_helper.c`, `nm.c:123-205`) | `servers[]` (paths, `online`), `num_servers_running`, `servers_initialized` | `registerNewServer` | a server is routed to only once registered; clients are let in once the first servers are up |
| client requests (`nm.c:35-82`, `nm_helper.c:104-315`) | the request and the connection on each thread's stack | `handleClientRequest`, `forwardClientRequestToServer` | every request is answered, the answer is true, and the three copies of what is where agree with the disks |
| storage server threads (`server.c`) | `serverDetails`, `serverDetails_mutex` | `nmThread`, `clientThread` | reads and writes are whole, the list is that of the disk, everybody is served |
| reader-writer locks (`client_request_helper.c:12-51`) | `readers`, two semaphores | acquire and release | a writer is alone, nobody is stuck |
| disk operations (`client_request_helper.c:61-335`) | the files | create, delete, list, read, write, stat | they do what they acknowledge |
| client program (`src/Clients/`) | its sockets | one command after the other | it reads the answer it is sent |
| alive threads (`nm.c:98`, `server.c:14`) | none | return at once | `online` follows the process (it does not) |
| logging, build files, sample data | none of interest | | |

### How they interact

A storage server sends the naming server its `ServerDetails` (the ID it was
given on its command line, its ports and its paths) when it starts, waits for an
acknowledgment and then listens. The paths go into `servers[]` and, one by one,
into the trie. A client's request is looked up in the lru, which asks the trie
on a miss. A create or delete is sent to that server over a new connection; the
answer is an acknowledgment and the server's whole list of paths, which replaces
the old one and is inserted into the trie again; then the client gets the
acknowledgment; then a deleted path is marked in the trie. Nothing tells the lru.

`servers[]`, the trie and the lru are written by all client threads and by the
registration thread without a lock (`num_servers_running_mutex` is taken by the
registration thread alone). In the storage server everything is done under
`serverDetails_mutex`, except that `clientThread` searches the list of paths
before it takes it.

### What is hard about it

* **no lock in the naming server**: lists merged in another order than they
  were taken; lru entries half written; nodes made twice;
* **three copies** of what is where, updated at different times;
* **storage servers stop and come back** while requests are under way; `recv`
  returns 0 then, which the code takes for data, so that what a thread's stack
  still holds becomes the answer;
* **clients leave** while the storage server waits for them with its mutex held,
  or while a thread of the naming server has packets for them: `recv` returns 0
  and the buffer still holds a request, a `send` raises SIGPIPE;
* **one key for different things**: "/x" lies on the way to "/xy" in a trie of
  characters, and a hash stands for a path;
* **bounds**: slots, paths, descriptors, ranks.

`PROJECT.json` lists the hazards line by line, with the properties that cover
each or the reason why none does.

## 2. The modules

    PathTrie ──── TrieService ───── MCTrie            PathIndex (abstract)
       │               └─ TrieThreads ─ MCTrieThreads, TrieProofs
       └───────── NamingServer ──── MCNaming
                    │    ├─ NamingProofs ── OneThreadProofs
                    │    │        └──────── SessionsProofs ─ AnswersProofs
                    │    └─ Sessions ───── MCSessions
    RecencyCache ───┘
       ├───────── RecencyService (abstract)
       └───────── LRUCache ──────── MCLRU, LRUProofs
    RWLock ────── RWLockProofs                        SharedExclusive (abstract)
    StorageServer ─ MCStorage, StorageProofs          ForwardService (abstract)

**PathTrie** has the three functions of the trie as operators on a function from
texts to marks. A text is a sequence of characters, as in the code, because what
one path does to another depends on which is a prefix of which. Nodes that no
path of interest ends at are left out, `isEndOfWord = false` and "no such node"
are one mark: a search does not tell them apart. **TrieService** calls them in
any order. **PathIndex** is the abstract specification, a directory tree that
knows nothing of characters; `TreeIndex` says that the one implements the other.

**TrieThreads** is the same three functions as threads really run them: node by
node, each read of a link or a mark and each write of `children`,
`storage_server` and `isEndOfWord` a step of its own. `node` and `link` are the
heap; `call` is where each thread is. The module also carries `trie`, which is
what TrieService's calls make of the same calls one after the other in the order
of their returns, so that `NodesFollow` can compare the two, and what each
search could have returned at a moment of its call (`moments`), so that
`SearchesAgree` can say that a search is one step in effect. `Way` is the nodes
along a path, from which `Marks` reads the marks that TrieService has; `Relink`
is the write of a link. Two insertions that overlap can lose a subtree
(`nm_helper.c:398-400`); `UndisturbedFound` says what they cannot lose. Where a
deletion overlaps an insertion (`torn`) the insertion may leave a directory behind
it deleted, so that a search which had passed it before finds what the insertion
marks below it afterwards: no moment had that.

**RecencyCache** is the lru as a list in order of recency. **LRUCache** is
`findStorageServer` access by access, with the array of ranks and any number of
threads; with one thread it implements **RecencyService** (`RecencyList`).
NamingServer has the writes and the reads of a lookup (`Receive`, `Fill`,
`ReadBack`) with the entries by hash and server, and leaves open which entry is
replaced: it keeps no rank, so that every choice of the ranks is among its steps.

**NamingServer** is the naming server, the `nmThread` of each storage server and
what is on the disks. `disk` is each server's directory, `state` its process,
`queue` the connections at its `nmThread`; `online`, `paths`, `trie`, `lru`,
`running`, `open` are the naming server's variables; `pc`, `req`, `slot`, `route`,
`conn`, `stale`, `reply` belong to a client thread. The actions:

| action | code |
|---|---|
| `SSStart`, `SSListen`, `SSStop` | the `main` of a storage server and its end |
| `RegisterServer`, `RefuseServer`, `AckServer`, `AckFails` | `registerNewServer` |
| `RegisterUnheard` | `receiveServerDetails` when nothing was sent, and `registerNewServer` |
| `SSExecute`, `SSSendAck`, `SSSendDetails` | `nmThread`, from accept to the release of the mutex and its two sends |
| `Receive`, `Fill`, `ReadBack` | `recv` and `findStorageServer`: the scan, which hits an entry or writes the hash of the path to one; the search of the trie and the write of the server; the read of the server, which another thread may have written meanwhile |
| `AnswerDirectly` | the branches of `handleClientRequest` that need no storage server |
| `Forward`, `ForwardFails`, `Merge` | `forwardClientRequestToServer` |
| `Unlink` | `delete_from_trie` after it |

`Merge` reads what the thread received. If the storage server stopped in
between, `recv` returned 0 and nothing was written. The acknowledgment is then
the one that came before, or, if none came, whatever `nmAck` has on the stack
(`nm_helper.c:120`): any outcome, a success included, since SUCCESS_ACK is 0. (On
the compiled program it was a failure each time it was tried.) The list is what
the thread's last forward left on the stack (`stale`): that the second forward of
a thread finds the list of the first at the same place was observed on the
compiled program.

**Sessions** puts the clients on the other side of those threads. Each of its
actions takes one step of NamingServer, or none, together with what happens to a
client's connection: `SessionsImplementNaming` proves that nothing else happens
to the variables of NamingServer. `backlog` and `holder` are the accept queue
and `client_fds`; `buffer` is `clientRequest`, `stacks` the requests that ended
threads left where a new thread has its own; `stream` and `sent` are what is
under way in each direction, packet by packet; `rest` is what a thread has still
to send of an answer it began; `link` is the state of the connection. `misread`
has the clients that took the beginning of a path for the status of a LIST_ALL:
from then on they may be one packet behind the naming server. What they read
follows the byte counts: the status is a recv of 408 bytes, a path is a packet of
1026, so that 618 bytes of the first path are left, and the next recv takes them
with what has come of the packet after it (`AfterRecv`). `lastChunk` is false until
a recv reaches it (`client.c:204`). Bytes of a path that are read as a status may
say anything.

| action | code |
|---|---|
| `Connect`, `AskFor`, `ReadRefusal`, `ReadFirst`, `ReadSecond`, `ReadList`, `ReadDetails` | the client's `main`, recv by recv (`client.c:99-240`) |
| `Leave` | the client quits at its prompt, is done with a storage server, or is killed |
| `Accept` | the loop of `listenClientRequests` |
| `TakeRequest`, `TakeAgain`, `EndThread` | the recv of `handleClientCommunication`: data, 0, an error |
| `LookUp` | the rest of `findStorageServer` |
| `AnswerClient`, `SendRest`, `ForwardRequest`, `RefuseClient`, `MergeAndAnswer`, `UnlinkPath` | `handleClientRequest` and `forwardClientRequestToServer`, send by send |

What a `send` does is the kernel's part (`Send`). To a connection its client
finished, the first send is accepted and answered by a reset and the next raises
SIGPIPE; a client that closes with data unread resets the connection at once,
so that the next `recv` fails and the thread ends. These outcomes were observed
on the compiled program: the naming server dies of SIGPIPE when a client exits
on a refusal, quits at its prompt without having asked (the blank request is
looked up twice first), or quits after a DELETE_DIR (the storage server executed
it a second time first); it survives, and frees the slot, when a client that was
redirected exits with part of the `ServerDetails` unread.

**RWLock** is the reader-writer lock, semaphore by semaphore, with any number of
threads; **SharedExclusive** is what it promises. In the program one thread takes these locks, while it holds the mutex, so that none
is ever waited for: the module says what the lock is worth on its own, StorageServer
leaves it out, and there is no run of it: what it promises is proved.

**StorageServer** is one storage server with its two threads and its clients,
step by step from one semaphore operation, shared access or message to the next.
`content` is the files by chunks, each chunk named after the client that wrote
it. `entries` and `numPaths` are `accessible_paths` and `num_paths`: the entries
beyond `numPaths` keep what they held, as in the code. The actions are named for
what `clientThread` (`Accept` ... `SendAck`), `nmThread` (`Nm...`) and the
clients (`Connect`, `HangUp`, `SendChunk`, `Leave`, `Show`) do; `BrokenPipe` is
the SIGPIPE of a send to a client that has gone, which ends the process. After a
client that ended without a word `recv` returns 0 and `clientRequest` holds the
request of the client before: `clt.by` says whose request is served, `served`
counts. **ForwardService** is what the naming server sees of `nmThread`: it
takes a request, executes it in one step and answers with the outcome and the
files of that step. That is `SSExecute` of NamingServer, and `ForwardedAtOnce`
is the reason why it may be one step there although the storage server makes the
list entry by entry and sends it after it gave its mutex back.

## 3. The runs

| run | instance | shows |
|---|---|---|
| `trie_tree` | 3 texts (a directory and two files in it), 2 servers, 2 threads, 3 calls | one call after the other the trie is a directory tree (`TreeIndex`, `FoundUnlessDeleted`); in threads without a lock the nodes follow it while no two writers overlap (`NodesFollow`), what was inserted undisturbed stays found although nodes are lost below the same directory (`UndisturbedFound`), and searches are as good as one step unless a node was lost or a deletion overlapped an insertion (`SearchesAgree`) |
| `trie_prefix` | `/x`, `/xy`, `/y` | **violation** of `FoundUnlessDeleted`: deleting `/x` hides `/xy` |
| `lru` | 1 thread, 4 paths, 3 slots | the ranks are a list in order of recency (`RecencyList`), lookups answer their own path |
| `nm_one` | 1 thread, 2 servers, one of which may stop, 7 requests on a file and a directory with a file | the routes (`RoutesOnline`, `RoutesKnown`), the copies between two requests (`ListingFresh`, `RoutedFilesExist`, `FilesFound`) and what a SUCCESS means (`EffectVisible`); every request that was taken ends (`EveryRequestEnds`) |
| `nm_race` | 2 threads, 1 server | **violation** of `ListingFresh`: the older of two lists is merged last |
| `sessions` | 2 threads, 2 clients that may leave anywhere, 2 requests in all, out of 3 and the blank one; 1 server that may stop | answers stay in step (`AnswersInStep`) with clients that were given no paths to list, requests are executed once (`DoneOnce`), only a client that left ends the naming server (`EndedByLeaver`); and `RoutesOnline` with two threads |
| `sessions_answered` | 1 thread, 2 clients that may leave, 3 requests, 1 server that may stop | whoever waits is answered, or waits for a slot that a client holds (`EveryClientAnswered`) |
| `sessions_gone` | 1 thread, 1 client, 1 request | **violation** of `SlotFreed`: the slot of a client that left is not freed before the naming server has ended |
| `sessions_list` | 1 thread, 1 client, 3 requests; the server with the last ID has two paths | **violation** of `StatusIsOwn`: a client that was given paths to list prints the status of an earlier request |
| `storage` | 2 clients, one may leave or be suspended; create and delete of the file they use | transfers are whole (`WriteWhole`, `ReadWhole`), the naming server sees one step (`ForwardedAtOnce`, `ListingOfDisk`), a request is executed once (`ExecutedOnce`) and "Success!" is true (`SuccessIsTrue`), all are served unless a client left (`ServedUnlessGone`) |
| `storage_search` | 1 client, 1 forwarded request | **violation** of `FoundIfThere`: a file that stays is not found during a re-listing |
| `storage_hang` | 1 client that may leave, 1 forwarded request | **violation** of `ForwardedIsAnswered`: a client that ends or is suspended in a write blocks the server for ever |

**Bounds, and why they are enough.** Texts: `trie_tree` has a directory and two
files in it, which share the way to the directory and its mark; `trie_prefix`
has a pair in which one name starts the other. The second file is there because
with one no node is missing, and none can be lost, once the file was inserted
undisturbed: one call inserts the first file, and two at once lose a node of the
second, below the directory that both lie in. The case that `torn` excludes from
`SearchesAgree` needs a third thread, a search under way while the two others
overlap: with three threads and one file TLC finds the property violated without
`~torn`. (All that `trie_tree` checks is proved for all sizes, what concerns
finding a path under `PrefixFree`.) The requests and disks of `nm_one` and
`nm_race` satisfy the conditions at the end of NamingServer (`UniqueFiles`,
`UniqueArguments`, `NamesApart`, `DirsByText`, `RootKept`, `FilesApart`;
MCNaming assumes them, so TLC evaluates them): section 5 says why they are
there. Servers: two in `nm_one`, so that a path can change hands and one can
stop while the other serves; `NumInitServers` is 1 as in `constants.h:19`.
`CacheSize` 2 against more paths than that, so that entries are evicted, hit
after a deletion and missed; 3 in `lru`, the least where the order in the middle
matters; 1 where two threads are to meet in one entry (`sessions`). `EmptyRank`
stands for 1e9 and is 2, `MaxRank` stops the lookups when an entry was not asked
for during 7 others: long before that every entry has been filled, hit and
replaced in every order. Two threads are what a race of two needs, and in
`sessions` they are the two slots: a slot is freed and taken by another client,
a thread serves a client that is gone beside one that is there, and a new thread
finds the request of an ended one on its stack. `MaxAsks` 2 gives one client two
requests, where an answer to the first could be taken for that to the second, or
each client one; 3 in `sessions_list`: a listing and the two requests of which
one gets the other's status. In `sessions_answered` there is one slot for two
clients, so that one waits to be accepted while the other stays, leaves in good
order or is killed, and 3 requests, so that a client asks again after an answer.
`MaxChunks` 2 makes a write that can be interrupted between chunks and one that
cannot; `MaxForwards` 2 gives a delete and a create around a transfer. Where
clients, calls, forwards or ranks are finite (storage, lru, trie threads,
sessions) the instance ends in a state where all are done, or the naming server
has ended, and the deadlock check is off. In the other runs there is no
deadlock.

**Fairness.** `NamingServer`: the registration thread, the client threads and
the threads of a storage server that runs go on; nobody has to start, stop or ask.
For the storage server's `SSExecute` this assumes that its mutex becomes free,
which `storage_hang` shows is false when a client ends, or just waits, in a write;
`EveryRequestEnds` (`nm_one`) is to be read with that. `Sessions`: the storage
servers that run, the accept loop and the threads go on; nothing is assumed of
clients, who need not read, ask or leave. `StorageServer`: both threads go on, and
a client that stays finishes its write (its user types the final empty line). The
semaphores of the C library promise no order; weak fairness of the threads is
enough because the clients and forwards of the run are finitely many, so that one
side runs out of requests.

Each property of a passing run has a mutant in `PROJECT.json`: a slip in one
definition (the operators marked "A slip" in the modules, used nowhere else)
that makes TLC report the property violated.

### What the violations say

* **Prefixes** (`nm_helper.c:444`). A deletion leaves -1 in the node of the
  path, and every search through that node stops. The README's "all paths are
  unique" is not enough: no file's name may begin with another's.
* **Lists out of order** (`nm_helper.c:139-145`), for want of a lock in the naming
  server: the list that was taken first is merged last, and what was created or
  deleted in between is undone in the accessible paths.
* **A client that leaves** (`nm.c:47`). `recv` returns 0, which the loop does not
  take for the end: the request in the buffer is executed again, also if it is a
  deletion, and the second packet sent to the connection ends the naming server.
  Nothing else does (`SessionsEndedByLeaver`), and no client that is still there
  has its request executed twice (`SessionsDoneOnce`).
* **A status sent after what it is about** (`nm_helper.c:275`). The naming
  server sends a lister the paths and then SUCCESS_ACK; the client reads the
  status first (`client.c:194`) and leaves its loop at a `lastChunk`
  (`client.c:217`), which only the last path of the server with the last ID
  carries. TLC's trace has that server with two paths. The client takes 408 bytes
  of the first for the status, a recv of its own for the other 618, which does not
  reach `lastChunk`, and then the second path, whole and with `lastChunk` set: the
  SUCCESS_ACK stays unread and is taken for the first answer to the next request,
  and so on. `SessionsAnswersInStep` proves that this is the only way to get out
  of step.
* **The unlocked search** (`server.c:171`) refuses clients while any create or
  delete is being executed.
* **A client that ends or is suspended in a write**
  (`client_request_helper.c:144`). Confirmed on the compiled program for one that
  ends: the file grew by megabytes a second and a create that was forwarded
  meanwhile was not answered.

What the passing runs leave out because the code plainly does otherwise:

* **Half-written entries** (`nm_helper.c:357-361`). An entry of the lru has its new
  hash before its new server, a second thread hits it in between and is given the
  server of the path that was evicted. Its request is then forwarded to a server
  that may never have announced the path. With a second thread in `lru.cfg` TLC
  reports `AnswersItsPath` violated; it and `RoutesKnown` are properties of one thread.
* **A deleted directory** (`server.c:91`, `nm_helper.c:297`). DELETE_DIR prints a
  line and succeeds, and the naming server marks the directory as deleted: what
  lies in it is on the disk and not found until the next merge of that server.
  With one thread and the conditions of section 5 this is the only way a file is
  lost sight of (`FilesFound`, `OneFilesFound`).
* **A restart** (`nm.c:98`, `new_srv_helper.c:45`). Nothing clears `online` when a
  storage server ends, so that it is refused when it comes back (`RefuseServer`),
  although `structs.h:49` describes `online` as "whether the server is online or
  not". A connection to the registration port that is closed without a word takes
  the place of server 0 in the same way (`RegisterUnheard`).

## 4. The proofs

TLAPS checks these for all values of the constants, under the `ASSUME`s of the
modules (texts are closed under the directories on the way, marks are distinct,
a disk holds the directories its entries lie in, sets of threads are finite
where a count needs it).

* **TrieProofs**, the calls one after the other. `TrieTypeCorrect`.
  `PrefixFreeNamesAreFound` and `TrieImplementsTree` have the hypothesis
  `PrefixFree`, that no file's text is a prefix of another text, which is exactly
  what `trie_prefix` lacks. The key lemma is `BlockerIsDirectory`: under it a node
  that stops a search is the path itself or a directory on the way, so that a
  search reads what the tree reads (`SearchIsLookup`).

  The same module, the calls node by node in any number of threads. What a walk
  finds is defined by recursion over the steps of a path; the lemmas about it
  (`WayDefined`, `WayShared`, `WayKept`, `WayStands`) go up from step to step with
  `UpTo`, which is the least-number principle for a set. The invariant `Base` has
  four parts. `TypeInv`: each call fits its path (`Fit`), a link leads to a node
  of its own. `Shape`: whoever comes to the node of a call has taken its steps
  (`Agree`), and words end at texts only (`EndsAtTexts`). `Alone`: what `alone`,
  `mixed` and `torn` say of who writes. `Places`: a writing call that is alone,
  and any call while no node is lost, is where its path leads; a node once lost
  is never found again (`LostForGood`), which is why that can be invariant.
  `ThreadsTypeCorrect` needs `TypeInv` alone. `NodesFollowCalls` adds
  `AloneMarked`, what an insertion that is alone has done so far, and `Follows`,
  where the marks are behind the calls. `UndisturbedAreFound` adds `Dues`: the
  way to a path that is due stands and is marked with servers throughout, and no
  call that saw a link of it NULL is still about to write it, however many nodes
  the threads lose beside it. `SearchesAnswerAsOfAMoment` adds `Owned` (an
  insertion about to end the word of a directory finds a server there),
  `Watched`, and `Agreeing`: a search that has passed a node which was deleted
  since could have found its path at some moment, or has a deleted node before
  it (`Seen`), because an insertion opens the directories on its way before it
  marks what lies below (`Opened`). The last two theorems have the hypothesis
  `PrefixFree`, and need it: with "/x" and "/xx" TLC finds both properties
  violated. The invariant was checked by TLC, with three threads and one file, before it was proved. The proof found two defects of the model: `Arrived` was
  a CASE whose guards overlapped, and `SearchesAgree` lacked `~torn`.
* **RWLockProofs.** `readers` is not the number of readers at all times, so the
  invariant `IInv` counts, by program counter, the threads that are counted in,
  and adds who holds `lock` and who holds `writeLock`; the threads are finitely many. `RWLockExcludes` and
  `RWLockImplements` follow from it.
* **NamingProofs.** `RoutesOnline` holds for any number of threads, half-written
  entries included; its invariant `IInv` adds `Processes` (a process that serves is
  registered, and only the listener's current one waits), `Waiting` (the queue of
  a storage server holds different threads, each at the right stage and routed to
  it) and `Outcomes` (what each connection can be in, and that one which came to
  its end belongs to a server that will never serve again).
  `RoutesKnown` is for one thread (`Alone`). It is not inductive: a merge makes
  routes of a list that came over a connection, or of one that was left on a
  stack. `KInv` adds `OwnEntries` (the entry that a lookup is at has its own
  path, which a second thread would break) and `ListsKnown` (a list under way is
  part of what its server knows). Whatever is merged after an end of connection
  is merged for a server that never serves again: the refusal of the restart, a
  defect otherwise, is what keeps it harmless. No forwarded create makes a path
  that its server did not have at the start: it is routed by looking up the very path.
* **SessionsProofs.** `SessionsImplementNaming` is the refinement: every step of
  Sessions is a step of NamingServer or leaves its variables alone, so that
  `RoutesOnline`, and for one slot `RoutesKnown`, hold with clients that come and go.
  `SessionsEndedByLeaver` needs to know who can be hit by SIGPIPE: the invariant
  `SInv` adds that a connection is finished, broken or reset only if its client
  has gone (`Departed`) and that a thread at a request, or with an answer still
  to send, holds a client (`Served`).
* **AnswersProofs.** `SessionsAnswersInStep` and `SessionsDoneOnce` rest on the
  same invariant, the conversation itself: for each client that is there and its
  thread, `InStep` lists where the two can be and, packet by packet, what is due
  between them (`AtPrompt`, `Asking`, `LookedUp`, `Forwarding`, `BeingListed`,
  `Leaving`). `Seated` adds that a client has one thread or waits once to be
  accepted, `Linked` that its connection is open as long as it is there,
  `Newcomers` that a new one was told nothing, `Counted` how often a request was
  executed by where its thread is. A success that is due or was told means that
  the request was executed or that its server is `Lost`: a storage server that
  ended after it registered never serves again (`LostStay`), and only then can an
  acknowledgment be one that was never sent. Clients in `misread` are out of
  step; `DoneOnce` still bounds what is executed for them.
* **OneThreadProofs.** What the copies of the naming server are worth when one
  client thread works on them (`Alone`), for any servers, paths and requests,
  with servers that register and stop at any moment. With two threads
  `ListingFresh` is false (`nm_race`).
  `OneListingFresh` needs nothing else: `FreshLists` and `FreshPaths` say that a
  running server's listing is up to date or on its way, `Blocks` that every -1 in
  the trie comes of a request that unlinks, `ClosedDisks` that disks stay closed
  under the directories on the way.
  `OneFilesFound` (with `UniqueFiles`, `DirsByText` and `NamesApart`) adds
  `FilesMarked`, that a file is marked for its server or in a listing on its way,
  and `FilesGone`. That only a directory can stop the search before the mark is
  `NamesApart`: no deleted file's text starts the text of another file.
  `OneRoutedFilesExist` (with `RootKept`, `FilesApart`, `ShortTexts`) adds
  `MarksExist`, that a marked file is there or its deletion is under way. The
  step that matters is `Unlink`: it must find the node of the path, which it does
  because the listing that was merged just before opened the way to it
  (`MergeOpens`, `UnlinkFinds`). That the blocker nearest to a path exists is
  well-founded induction over the lengths of texts (`LongestText`), which is where
  `MAX_PATH_LEN` comes in (`ShortTexts`).
  `OneEffectVisible` (with `UniqueArguments` instead of `UniqueFiles`) adds
  `Effects`, what a SUCCESS means from the moment the storage server decides it.
* **LRUProofs.** `LRUType` is for any number of threads at once, and is not
  obvious: a thread writes to the slot that its scan left in `maxRankIdx`, so
  `TInv` says that a scan has a victim by its end whatever others wrote behind it.
  `LRUAnswers` and `LRUImplementsList` are for one thread (`Alone`); section 3
  says why they are false for two. The list of the refinement mapping is
  the slots by rank and, where ranks are equal, from the last to the first;
  `Position` counts the slots ahead of one, and the lemmas say how the positions
  move when one rank becomes 0 and the others grow.
* **StorageProofs.** The invariant `IInv` is who has the mutex (`Exclusive`), the
  list by what `readdir` has still to give (`Listed`), a client's way from the
  backlog to its acknowledgment (`Newcomers`, `Executing`, `Opened`), and the
  chunks from the wire to the file (`Chunks`). From it follow `StorageType`,
  `StorageReadWhole`, `StorageListing`, `StorageExecutedOnce` and the refinement
  `StorageForwards`: `nmThread`, which makes the list entry by entry and answers
  without the mutex, executes in one step for the naming server.
  `StorageWriteWhole` and `StorageSuccessIsTrue` add `Taken` and `Acknowledged`,
  that what is acknowledged is complete. They have the hypothesis
  `FALSE \notin LoopsOn`: the `bytesRead` that is never set
  (`client_request_helper.c:125, 158`) is not 0 by chance; else the loop of a write
  may end after its first chunk.

Only model-checked: all liveness (`EveryRequestEnds`, `EveryClientAnswered`,
`ServedUnlessGone`), which needs ENABLED. Every invariant, action
property and refinement of a passing run is stated by a theorem: most of them for
all values of the constants, the others under the hypotheses named above.

## 5. What is assumed and what is left out

* Hashes of paths are injective and none is 0 but that of the empty text. The
  real hash is a rolling hash modulo 1e9+7.
* Server IDs are valid indices of `servers[]`; the person who starts a server
  gives it (src/README.md:47), and the code does not check it. (The order of
  the two ports in src/README.md:35 is the reverse of that in `server.c:248`.)
* A message to the naming server or a storage server, and an acknowledgment,
  arrive whole: a `send` of a struct is one `recv`, which TCP does not promise.
  The exceptions are those that matter on a local network: a client takes as
  much of the megabyte of `ServerDetails` as has come (`ReadDetails`), a lister
  reads out of frame (`ReadList`), and one `recv` may take the information of a
  file together with the acknowledgment (`TakesAckToo`).
* A merge is one step in NamingServer and Sessions, and so is the search of the
  trie within a lookup; TrieThreads takes the walks of both apart. A walk in
  TrieThreads reads each link once, although the code reads it to test it and
  again to follow it: a link never becomes NULL again.
* Nothing is modelled after the naming server's process has ended: clients and
  storage servers would have to be started again. A client that takes bytes of
  paths for an answer outside a LIST_ALL, or leaves its loop with such bytes
  unread (`astray`), reads garbage from then on; it does nothing but leave. One
  that has read all that had come, with only acknowledgments still to come, goes
  on asking (`misread`). Which paths a listing names is decided when it begins.
* The first free slot, and the client that connects next, are chosen by symmetry.
  The list a forward leaves on a thread's stack stays with its slot.
  A buffer that never received anything names no listed path; after that it
  holds what was received last.
* "All paths are unique" (src/README.md:49), of which the code checks nothing, is
  taken by the theorems of OneThreadProofs only as far as each needs it, and is
  made precise at the end of NamingServer. Without `UniqueFiles` and
  `UniqueArguments` the server that registers last takes over a path of the
  other, and a file that is on a disk is looked up elsewhere. Without `DirsByText`
  a DELETE_DIR of a file's text, for which the storage server only prints a line
  and the naming server marks the text as deleted, takes the mark of a file that is
  there, and without `NamesApart` the deletion of a file hides those whose text it
  starts (`FilesFound`). Without `RootKept` the deletion of the root marks it -1, a
  later deletion that the lru still routes is then not unlinked, and the merge of
  another server's list opens the root again: the trie leads to a file that is
  gone (`RoutedFilesExist`, `EffectVisible`). `FilesApart` is the lesson of
  `trie_prefix` for deletions.
* There is a client of the storage server (`Client # {}` in StorageServer), and
  `Absent` is no file, client, request or content.
* Descriptors: none runs out, and the number that `connectToStorageServer`
  leaves behind is not reused before its caller's send fails.
* `rank` does not overflow, `accessible_paths` does not.
* `bytesRead` in `write_file_in_ss` is never set. The build of the Makefile
  leaves a nonzero value in it, so the runs take `LoopsOn = {TRUE}`.
* A client that was suspended is not resumed. (It may still be ended.)
* Parsing of the command line, logging and printing; the alive threads, which
  return at once.

## 6. Plan

1. *(done)* the trie with its abstract tree; the lock with its abstract lock;
   the naming server with its storage servers; the lru with its abstract list;
   the storage server; the proofs of TrieProofs, RWLockProofs and NamingProofs.
2. *(done)* the clients' sessions and their proofs; the trie node by node;
   the storage server's `nmThread` as the one step that NamingServer takes.
3. *(done)* StorageProofs, LRUProofs, AnswersProofs and OneThreadProofs.
4. *(done)* TrieProofs for the nodes of TrieThreads.
5. What remains without a proof are the liveness properties, for the reason given
   in section 4.
