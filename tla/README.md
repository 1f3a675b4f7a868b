# A TLA+ model of alba

Alba is a distributed object store. This directory holds TLA+ modules that model
its protocols, TLC configurations that check them on small instances, and
theorems with proofs that TLAPS checks for every instance. `PROJECT.json` maps
every definition to the lines of source it models.

## 1. The system

Paths are relative to `ocaml/src/` unless they say otherwise.

| part | source | state | operations |
|---|---|---|---|
| namespace manager (NSM) | `nsm_model.ml` | names, manifests, gc epochs, active OSDs, keys to be deleted, device index, sizes, buckets, preset | put / delete / update of objects, sequences, enabling and disabling of epochs, marking keys deleted, linking OSDs |
| NSM host | `nsm_host_plugin.ml`, `nsm_host_protocol.ml` | many namespaces on one Arakoon cluster, `next_msg` | optimistic transactions (compute on a snapshot, assert, retry), message delivery |
| alba manager | `albamgr_plugin.ml`, `albamgr_protocol.ml` | namespaces, OSDs and their links, presets, message queues, work items, leases, participants | creating and deleting namespaces, claiming, decommissioning and purging OSDs, marking messages delivered and work completed, updating presets |
| client: upload | `alba_client_upload.ml` | one thread per upload | write fragments, commit the manifest after enough of them, retry, epilogue, gc tag cleanup |
| client: download | `alba_client_download*.ml` | caches | read with a cached manifest, fall back to other fragments |
| maintenance | `maintenance.ml`, `repair.ml`, `maintenance_helper.ml` | one thread per task | repair, rebalance, rewrite, purge, garbage collection, deletion of obsolete keys, work items |
| maintenance coordination | `maintenance_coordination.ml` | lease counter, participants | becoming master, registering, finding one's position |
| message delivery | `alba_client_message_delivery*.ml` | - | manager to NSM hosts and OSDs |
| OSDs | `asd_server.ml`, `osd.ml`, `alba_osd.ml`, `proxy_osd.ml`, `kinetic_client.ml` | keys and values per namespace | sequences of asserts, sets and deletes |
| caches | `manifest_cache.ml`, `fragment_cache*.ml` | cached manifests and fragments | lookup, insertion, eviction, drop of a namespace |
| proxy | `proxy_server.ml`, `proxy_protocol.ml` | sessions, caches | the client's operations for other processes |
| C++ client: proxy session | `cpp/src/lib/generic_proxy_client.cc`, `proxy_protocol.cc`, `manifest.cc`, `*_transport.cc` | a message builder, a socket or RDMA connection | one call after the other: write a request, read the answer, under a deadline |
| C++ client: cached reads | `cpp/src/lib/rora_proxy_client.cc`, `manifest_cache.cc`, `lru_cache.h`, `encryption.cc` | manifests of objects and of cached fragments, failures | find the fragments of a slice, read them from the ASDs, decrypt, or go to the proxy |
| C++ client: ASD access | `cpp/src/lib/osd_access.cc`, `asd_access.cc`, `asd_client.cc` | table of OSDs and alba levels, pools of connections | fill the table, partial reads over pooled connections |
| ASD server | `asd_server.ml`, `tools/alba_partial_read_stubs.c` | blobs, connections | here: the loop of a connection and `PartialGet` |

How the parts interact. An upload asks the manager (through a cache) where the
namespace lives, reads the gc epochs of the namespace (cached), writes each
fragment with its recovery info and a gc tag to an OSD in one sequence, and
stores the manifest at the NSM. Repairs do the same for single fragments and
update the manifest. The NSM lists what became unreachable; cleaners delete it.
Fragments of uploads that never committed are found by their gc tag: a collector
opens a new epoch, closes the old ones, and deletes the tagged fragments that no
manifest links. Creating and deleting namespaces and adding and removing OSDs is
driven by messages and work items that the manager queues and that maintenance
processes and clients deliver and execute.

An application reads and writes through a proxy. The C++ library speaks the
proxy's protocol; its `RoraProxy_client` also keeps the manifests the proxy
sends along, and reads parts of fragments straight from the ASDs with them,
several threads of a process sharing one manifest cache, one table of OSDs and
one pool of connections per ASD.

What is hard about it: none of these threads hold a lock, any of them may die,
a write may land after its sender gave up, cached epochs and manifests are stale,
and deletions are decided on what was read earlier. In the C++ client, what is
shared is partly read without a lock, connections are reused after an exchange
that may not have ended, and two programs in two languages have to agree on every
field of a message. The hazards are listed, with
their lines, in `PROJECT.json`.

## 2. Modules

| module | models |
|---|---|
| `Nsm` | the namespace manager of one namespace, one atomic action per operation |
| `NsmIndexes` | the same operations with their bookkeeping: device index, sizes, buckets, and the check of buckets against the preset |
| `FragmentStore` | `Nsm` composed with the OSDs and the uncoordinated writers, collectors and cleaners |
| `MessageQueue` | what the manager relies on when it sends messages: an abstract queue |
| `MessageDelivery` | the manager's message log of one destination, and the agents that deliver and mark |
| `OsdReclaim` | `MessageDelivery` with an OSD that is purged and claimed again |
| `DedupedDelivery` | threads of one client that share rounds of delivery |
| `Llio` | a field on the wire and reading it |
| `Wire` | the messages of the proxy's protocol, as the C++ side and the OCaml side each write and read them |
| `ProxySession` | one C++ client and the proxy's loop for its connection, with the formats of the messages as parameters; `MCProxySession` gives it those of `Wire` |
| `DirectRead` | threads reading from ASDs over pooled connections, and the ASDs' end of them |
| `Slices` | pure: where a slice of an object lies, and partial decryption |
| `Rora` | `Slices` composed with the manifest caches of client and proxy, the table of OSDs, and writers on other hosts |
| `MC...` | model values, symmetry and bounds of a module |
| `NsmProofs`, `NsmIndexesProofs`, `FragmentStoreProofs`, `DirectReadProofs`, `ProxySessionProofs` | theorems about the module they are named after |
| `DeliveryProofs` | theorems about `MessageDelivery` and `DedupedDelivery` |
| `RoraProofs`, `RoraReadProofs` | theorems about `Slices` and `Rora`; reads are in the second |

**Nsm.** A manifest keeps per slot (chunk, fragment) the OSD and the version the
fragment is stored under. The OSD keys of a fragment (data and recovery info) are
always written and deleted together and are one *place*: OSD, object, slot,
version. A failing check of the code is a guard that is not met: the code raises
an `Err` and changes nothing. Operations are atomic because Arakoon applies
their updates in one sequence whose asserts cover what was read.

**NsmIndexes.** `Reindex` is what `cleanup_for_object_id` takes away and
`put_object` adds; `IndexedUpdate` is the rest of `update_manifest_generic`. All
objects share one encoding scheme, so a bucket is a fragment count and a number
of disks per node.

**FragmentStore.** Writers have a `job` that is at most one upload, rewrite,
repair, rebalance or purge. `Begin` sends all writes of an attempt; `OsdWrite`
lets one of them land at any later time, also after its writer went away. A
rewrite may be retried with the same object id (`RetryRewrite`), other uploads
draw a fresh one. `CommitUpload` stores a manifest once `MinFragments` of every
chunk are acknowledged; `Epilogue` adds late ones with version 0. Collectors go
through `GcEnable`, `GcDisable`, `GcList`, `GcRead` and `GcDelete`, with the
manifest read one step before the deletion; the OSD applies the deletion only
while the tag is still there. One collector stands for one thread, so the
parallel `garbage_collect_device` threads of one process are several collectors.
Cleaners go through `CleanList`, `CleanDelete`, `CleanMark`. An OSD is unlinked
(`DecommissionOsd`), found free of fragments (`OsdRepaired`, the work item
`WaitUntilRepaired`) and then emptied. Any thread may stop at any point. `sent`,
`used`, `stored` and `attempt` are history: the properties and the invariant
refer to them, no guard of the code's behaviour depends on them except that a
random object id is fresh.

**MessageDelivery.** One destination, a namespace host or an OSD (`is_osd`,
fixed by `Init`).
A message is its id: what the destination does with it (`handle_msg`, the
`AddNamespace` of an OSD) is one increment of `handled`. An agent fetches a
batch, delivers it and marks it; every request is an action, and between any two
of them it may stop (`Fail`), leaving its request to arrive at any later time and
any number of times (`late`, `Arrive`). A namespace host takes a batch at once
(`DeliverMsgs`) or message by message (`DeliverMsg`); which one depends on its
version, and both are always possible here, as are both ways of marking. An OSD
knows nothing of messages: the agent reads `next_msg_id` (`ReadNextMsgId`,
`DoOne`) and writes under the assertion that it has not changed (`ApplyOne`).
Whether a host is lost may come from a cache, so an agent may think it alive.
`MaxInt32` stands for 2^31-1, where the keys of the log change their form.

**DedupedDelivery.** The table entry of one OSD is `{}` or a singleton of the set
of threads waiting. A round is taken to deliver what was sent before it started.

**Wire.** A message is a sequence of typed fields. What a function of
`proxy_protocol.cc`, `manifest.cc`, `osd_info.cc` or `llio.h` writes or reads is a
*format*, a value that `To` and `From` interpret; the formats of the OCaml side
(`ml_...`) are written down separately, from the OCaml source. Nothing in the
code ties the two together. Lists are where they differ most: OCaml writes them
back to front, C++ reads them into the back of a vector (`vector_from`) and
writes them in the same fashion (`vector_to`). Numbers keep the point where their
encoding changes (`MAX_INT32` in `x_uint64_t`), strings and checksums only their
identity. A field of the wrong kind is an exception of the reader; in the readers of
`llio.h` that are declared `noexcept` it ends the process (`Terminates`).

**ProxySession.** One call at a time: `Call` fills the message builder, `Output`
sends it, `ReadSize` and `ReadBody` take the answer, each under a deadline. On
TCP a deadline closes the socket; on RDMA it does not, and a transfer under way
returns as if complete, so that the bytes of an answer may be read by the next
call (`late`). The proxy's loop (`Serve`) parses, acts, and answers with a value
or an error; it may know fewer requests than the client (`OldProxy`) or more
compressions. `objects` is what the sequences of updates change. What a request
or an answer looks like on the wire is a parameter (`Request`, `RequestFrom`,
`Response`, `ResponseFrom`), so that the session can be reasoned about without the
recursive operators that interpret formats. The assumption `FormatsAgree` says
that a single message is read as it was written; TLC evaluates it for the formats
of `Wire`, all arguments and answers of the run and all contents of the objects,
and then runs whole sessions with them. Arguments and answers are samples of the
formats chosen so that neighbouring fields differ.

**DirectRead.** A thread's read is a *plan*: per ASD a list of slices.
`GetConnection` pops a pooled connection or decides to make one, `MakeOne`
connects and compares the id the ASD sends, `SendRequest`, `ReadHeader`,
`ReadBytes` and their failures are one exchange of `partial_get`, and
`CountFailure`, `ReportFailure` and `ReleaseConnection` what follows. A
connection is a record of both its ends: requests and answers under way and the
ASD's job for it (`Serve`, `worker_partial_read`, with the C stub that may send
a part of what the header promised). `report_failure` takes no lock, and is a
read and a write here. Bytes are `<<asd, key, position>>`, so wrong, shifted or
missing ones show.

**Slices.** `get_location` (chunk by chunk, then fragment and offset),
`resolve_slice` (its repetition over a slice) and `partial_decrypt` with a
counter of two words of `Word` values each.

**Rora.** A call goes through the steps of `read_objects_slices`: levels of alba
backends (`Update`, `Wait`, `Fill`, `Answer`, `Push`, `Levels`, `Copy`; the
vector is cleared and refilled while others copy it), resolving with cached
manifests down the levels (`Resolve`), the direct read, decryption, and what is
left through the proxy (`Lookup`, `Get`), whose answer fills the cache
(`Process`, `Add`, `Insert`). Reading from the ASDs is one step with what
`DirectRead` shows: all bytes or a failure. Writes and deletes by this process
and by others, the proxy's own cache with look-ups that take a while,
`invalidate_cache` and `drop_cache` run next to it. The epilogue of an upload
whose fragments were not all stored goes on after the answer: it updates the
manifest in the namespace manager and then puts it in the proxy's cache once more
(`EpilogueUpdate`, `EpilogueAdd`), also when the object was overwritten or the cache
invalidated in between. A call is *quiet* when it starts with no other call and no
epilogue under way and none starts before it ends (`quiet`); `floor` is the version
the last quiet change left, which later reads have to see. Both are history.

## 3. Runs

| run | question | properties |
|---|---|---|
| `nsm` | any requests to one namespace manager: do names, manifests and indexes agree | types, `NamesMatchObjects`, `FragmentVersionsBounded`, `DeviceObjectsMatch`, `BucketsMatch`, `SizesMatch`, `VersionsAndEpochsGrow` |
| `store` | every kind of writer on two objects of two fragments, an OSD being removed | `StoreInv`, `ListedKeysAreUnlinked`, `NoUntrackedGarbage`, `RetiredOsdsStayUnused`, `UnlinkedKeysAreListed` |
| `store_maintenance` | two collectors with stale epochs, and a cleaner: safety and liveness | `LinkedFragmentsWrittenOnceExist`, `NoUntrackedGarbage`, `LatestEpochIsValid`, `CollectedEpochsAreClosed`, `ListedKeysGetDeleted`, `ClosedEpochsGetCollected` |
| `store_lost` | expected violation, see section 5 | `LinkedFragmentsExist` |
| `deliver` | racing agents, late requests, a host or an OSD, a host declared lost: safety and liveness; and threads that share rounds: fresh answers, no waker lost or used twice | `DeliveryInv`, `HandledOnceInOrder`, `NeverTooFarOff`, `AnswersAreFresh`, `WaitersAreKnownOnce`, `ImplementsQueue`, `MessagesGetThrough` |
| `osd_reclaim` | expected violation, see section 5 | `MarkedWereHandled` |
| `deduped_stuck` | expected violation, see section 5 | `CallersAreAnswered` |
| `session` | do both sides of the proxy's protocol agree, over both transports, with deadlines | `RequestsArriveAsSent`, `AnswersBelongToTheirCall`, `NoCallFailsToParse`, `CallsEnd` |
| `sequence_order` | expected violation, see section 5 | `LastUpdateTakesEffect` |
| `direct_read` | pooled connections under failures, restarts and changes of capacity | `ReadInv`, `ReadsAreRight`, `ConnectionsHaveOneOwner`, `PooledConnectionsAreIdle`, `PoolsFitCapacity` |
| `rora` | two clients with shared caches, other writers, collected fragments | `ReadsAreOfOneVersion`, `QuietChangesAreSeen`, `LevelsAreKnown`, `CacheIsSound` |
| `invalidate` | expected violation, see section 5 | `InvalidationsAreSeen` |

What the passing runs show, beyond the type invariants:

- `store`, `store_maintenance`: no fragment a manifest links is deleted unless two
  attempts wrote its key, and nothing is stored that nobody will ever delete. On an
  OSD that stays active what is listed gets deleted; what a collector closed it
  collects, unless its round ends or a thread of another round is at that OSD;
- `nsm`: indexes that are kept by differences stay what the manifests say;
- `deliver`: racing agents deliver each message once, in order. The module
  `MCMessageDelivery` has a second, independent part with the threads of
  `DedupedDelivery`; a behaviour has steps of one part only;
- `session`: on a connection on which no RDMA deadline has passed, what one side
  reads is what the other wrote, for every request and for old and new proxies.
  After an RDMA deadline this does not hold, and the properties do not claim it:
  the answer to the call that gave up may be read by the next one;
- `direct_read`: the client ignores the `success` of an answer and relies on the
  length of what follows; this is enough, because a connection whose exchange did
  not end is never pooled;
- `rora`: whatever mix of cached manifests, direct reads and fall-backs a read
  goes through, its bytes are right and of one version. How new that version is
  is only certain for changes made while no other call and no epilogue was under
  way (`QuietChangesAreSeen`). The first
  alba level is always there, except after a fill that failed, or when a second
  fill clears the unlocked vector while it is being copied (`LevelsAreKnown`).

**Bounds.** `MaxEpoch` and `MaxVersion` bound the epochs that may be enabled and
the versions a manifest may reach, `MaxAttempts` the number of attempts started
(a retry of a rewrite comes on top); all three only stop new work. Two epochs and
two versions are enough for an old one and a new one to race. `store` has two
attempts on two objects of two fragments and no collectors or cleaners;
`store_maintenance` has those, one attempt, and three epochs (0 to 2), so that
each of its two collectors can open one and meet the other's. Everything at once,
in any size, is left to the theorems. In `nsm` two of three OSDs share a node, so that
both parts of a bucket can change alone; its view leaves out `keys_to_be_deleted`,
which no guard or index reads.

`deliver` has two agents, three messages (`MaxMsgs`) and batches of two
(`MaxBatch`, 10 in the code): a batch that is full and one that is not, batches
that overlap because one agent fetched before the other marked, and messages
sent in between. `MaxLate` bounds the different requests that are delayed,
`MaxFailures` the failures of the maintenance process; the other agent fails as
often as it likes. Ids stay below `MaxInt32` (see section 5). Next to them there are
three threads that call twice, so that one runs a round, one waits for the second and one comes after
both.

`session` makes two calls (`MaxCalls`), so that one can spoil the next; the first
is every request with every one of three samples, among them empty lists, lists
of two, numbers on both sides of `MAX_INT32`, and sessions that ask for a version of
manifests twice, without a value or under another key. `direct_read` has two threads,
two ASDs with a fragment of the same name, and two connections, with plans of two
slices of one ASD and of one that can be read from directly and one that cannot,
a pool whose capacity drops from 2 to 1, one restart (`MaxRestarts`) after which
the ASDs may have swapped addresses, and one read per thread (`MaxReads`); time
is one bit, the last failure is recent or not. `rora` has two clients, one object
of two versions with different layouts (two chunks; two fragments, encrypted, with a
counter that wraps), a cache of two entries, three calls, and one event from
outside (a write by another host, a collected version, an eviction by the proxy, a
read of an OSD that fails, an upload whose epilogue has work to do); that time
passes is not counted. Blocks of the cipher have one byte (`Block`): starting inside
one is left to `PartialDecryptIsRight`. With two levels the request is one slice and
there is no local fragment cache.

Symmetry is used on object ids, OSDs, threads and clients, in runs without
liveness properties only. `CHECK_DEADLOCK FALSE` where it appears: once the
attempts, calls or reads are used up there is nothing to do.

Sizes: `nsm` has 17,490 distinct states, `store` 1,432,704, `store_maintenance`
28,514, `deliver` 331,751, `session` 2,010,448, `direct_read` 2,628,432, `rora`
2,165,794.

**Fairness.** Only maintenance is assumed to be fair. Its loops run for ever and
retry after failures, and visit every *active* OSD (`get_namespace_info` names those
and no others); a round may be interrupted, but not every time, hence strong
fairness of a cleaner's steps and of listing an active OSD. A collector comes by an
OSD when no thread of an earlier round is still there, as the table `threads` of
`garbage_collect_namespace` has it, and one that is collecting goes on (weak
fairness of its own steps). Nothing is assumed of OSDs that were decommissioned. No
client is assumed to make progress. Delivery needs one maintenance process that
takes its next step (`run_forever` in `maintenance_for_all_x` starts a round for
every destination each minute) and in the end stops failing; the other agents
may stop or interfere for ever. A message whose handling always fails is not
covered: it would hold up the ones behind it. In `DedupedDelivery` every round
that was started ends. In `ProxySession` the timer of a TCP deadline goes off, and
a write to a closed socket fails at once; of the proxy and the network nothing is
assumed, so `CallsEnd` rests on the client's own deadlines alone.

## 4. Proofs

The theorems hold for every value of the constants, in particular any number of
objects, OSDs, slots, writers, collectors, cleaners, agents, threads and
connections, under the assumptions named in the modules (`None` and `NoConn` are
no member of the sets they are told apart from; bounds are natural numbers;
plans are lists of slices per OSD; a word and a block are not empty; for the
indexes, objects, chunks and fragments are finitely many and there is a chunk; the
proxy's list of alba levels has the backend and at most one cache; a read asks for
at least one object, one slice of each and one byte of each slice; a chunk is padded
to fragments of one length, and an encrypted fragment has no more blocks than a word
counts; the two sides of a session agree on the format of single messages).

`NsmProofs`: `NsmCorrect`, `NsmBoundsFragmentVersions`, `NsmForgetsNothing`,
`NsmNeverGoesBack`.

`NsmIndexesProofs`: `IndexesImplementNsm` (with the indexes hidden, the manager
implements `Nsm`, so that `IndexesKeepNames` inherits its theorems),
`IndexesAreTyped`, `DeviceObjectsAlwaysMatch`, `BucketsAlwaysMatch` and
`SizesAlwaysMatch`. The four index properties together with `NsmInv` are
inductive. The work is in the sums: the code adds and subtracts differences, and
the invariant says that the result is the sum over all objects there are. `Total`
is a fold over a finite set; that it does not depend on the order, and what
adding, removing or replacing an element does to it, is proved by induction. The
library's induction rules take an operator and cannot be instantiated, so
induction is stated with sets: a set with 0 that is closed under successor has
all natural numbers (`SetInduction`, from the library's theorem that a
well-founded order has minimal elements), and so for finite sets
(`FiniteSetInduction`).

`FragmentStoreProofs`: `StoreInvariant` (`Spec => []StoreInv`) and what follows
from it: `StoreTypeCorrect`, `LinkedFragmentsAreSafe`, `DeletionsAreSafe`,
`GarbageIsTracked`, `EpochsStayValid`, `EpochsAreSafe`, `RetirementIsSafe`.

None of the properties is inductive alone. `StoreInv` adds:

- `EpochInv`: a collector that is collecting has disabled the epochs it collects,
  however stale its cache was;
- `SentInv`: the writes of one attempt carry one epoch;
- `RemovedInv`: a write that landed is still there, or its key was written by
  two attempts, or its key is *dead*, or its epoch is closed, or its OSD is
  retired. A commit needs an open epoch and a key that is not dead, so it links
  only what is there. This is the argument of
  `docs/alba_storage_protocol.txt`, made precise;
- `ObsoleteInv`: everything listed for deletion is dead: its object has had a
  manifest, and the present one, if any, has a newer version and does not link
  it. Dead places stay dead because updates write under the next version, the
  epilogue fills slots that are still empty at version 0, and an object id is
  not stored twice unless the object it replaces is still live (`JobInv`);
- `TagInv`, `PickInv`: a collector's picked tag belongs to a closed epoch, so the
  same place can only get linked by another attempt;
- `GarbageInv`, `RetiredInv`: what is untagged or marked is tracked otherwise;
  unlinked OSDs do not become active again.

`DeliveryProofs`, about `MessageDelivery`: `DeliveryCorrect` (`Spec => []DeliveryInv`),
`HandledExactlyOnce`, `DeliveryIsAQueue` (the refinement of `MessageQueue`) and,
for OSDs, `TooFarOffIsDead`; for any number of agents, messages, failures and
late requests, any batch size and any `MaxInt32`. That messages are handled once
and marked only afterwards is not inductive: `deliver_msgs` accepts every batch
and would skip ids if the batch had a hole. `DeliveryInv` adds that whatever an
agent or a late request carries is *hole-free* (`HoleFree`: all ids from the one
the destination expects up to any of its own are in it), which holds of a prefix
of the log because everything that has left the log was handled, and stays true
as the destination moves on; and that what is about to be marked lies below the
id the destination expects.

About `DedupedDelivery`: `DedupedAnswersAreFresh` and `DedupedWaitersAreKnownOnce`.
`DedupedInv` adds that whoever runs a first round holds the table entry and asked
before the round began (`FirstOK`), and that the threads waiting are exactly those
in the entry or in one second round that began after they asked (`WaitersOK`).

`RoraProofs`, about `Slices`: `LocationsAreExact` (the part `get_location` returns
lies in one fragment, is not empty, and starts at the byte asked for),
`SkipIsAdvance` (two words with one carry add modulo the square of the word) and
`PartialDecryptIsRight` (every byte is decrypted with the key stream byte it was
encrypted with). About `Rora`: `RoraLevelsAreKnown`, from `LevelsInv`: as long as no
fill failed or followed another, whoever is about to use the levels finds them
there, and whoever waits for a fill does so while it goes on or after it
succeeded; and `RoraCacheIsSound`, from what erasing, relocating and inserting do
to a list with one entry per key (`CacheInv`).

`RoraReadProofs`: `RoraReadsAreOfOneVersion` and `RoraQuietChangesAreSeen`, for any
number of clients, objects and versions, any layouts and any requests. What a read
returns is compared with the objects only when it ends, so the invariant
(`ReadInv`, on top of the two above) has to say what every intermediate step
leaves behind:

- `ReadOk`: while an object is resolved, through one level of manifests or two,
  every byte asked for is in a location found so far or in a look-up still to be
  made, all of them of one version of the object (`Resolving`, `Located`). This
  rests on `LocationsAreExact`, and on locations that follow each other covering a
  slice. Once the fast path has failed only objects read from the proxy count
  (`Fetched`), whatever is in the buffers of the others;
- `SeenOk`, `World`: manifests on their way to a cache, those in the
  `ManifestCache` and those in the proxy's cache are never older than what has to
  be seen (`floor`), and each is filed under the name and the level it belongs to;
- `QuietInv`: while a call has the process for itself nobody else is between
  looking a manifest up and storing it, and no epilogue of an earlier upload is
  pending. When it ends and `floor` is raised, the caches hold what it left there,
  which is as new or nothing. Its own epilogue, and those of later uploads, cache
  versions that are at least as new. With a second call or an earlier epilogue under
  way this fails: it is what `invalidate` shows.

`ProxySessionProofs`: `SessionRequestsArriveAsSent`,
`SessionAnswersBelongToTheirCall`, `SessionNoCallFailsToParse` and
`SessionFirstUpdateTakesEffect`, for any number of calls, any arguments and answers,
and any formats that satisfy `FormatsAgree`. None of them is inductive: that an
answer belongs to the call that reads it depends on all that is under way. So
`SessionInv` says, of a connection on which no RDMA deadline has passed:

- `Requests`: each message under way is the request of one call, and what the
  proxy parsed last, if it is of the present call, is its request. This holds on a
  closed connection too, where the proxy still works on what it was sent;
- `Link`, for an open connection: what is in `_mb` and in both directions at each
  point of a call (`Outgoing`, `Incoming`). There is at most one answer under way,
  and one that succeeded only while its call waits for it and the objects are as
  the call left them; an error may be there before any call, from the handshake.
  A call that has returned has the result its answer stands for (`Returned`);
- `Closed`: nothing is returned from a closed socket.

That the proxy's reversal and the filter for doubles leave the first update of
each name in effect is proved for sequences of any length (`TakenEffect`).

`DirectReadProofs`: `ReadInvariant` (`Spec => []ReadInv`) and from it
`ReadsAreRightAlways`, `OneOwnerAlways`, `PooledAreIdleAlways`,
`PoolsFitAlways`. That a successful read is right needs to know, at every point of
an exchange, what is on the wire; so `ReadInv` adds to the three properties of
connections and pools:

- `HoldInv`: a thread has a connection exactly between getting and releasing it,
  and it leads to the ASD of its plan, because `MakeOne` compares ids and a pool
  holds only connections to its own ASD;
- `ExchangeInv`: before a request nothing is under way on the connection; after
  it there is the request, or a header followed by the first bytes of this very
  slice, the rest still with the ASD's job or never to come (`Arrived`). A
  connection is only released in the first of these states, which is why pooled
  connections are idle;
- `ProgressInv`: what a thread has got, together with what is left of its plan,
  is what it was asked for; when the plan is empty, it has everything.

Ownership of connections is proved once for abstract hands, pools and existing
connections (`Owned` and its lemmas: taking from a pool, making, dropping,
putting back, shrinking a pool), and each action is one of these moves.

Not proved, only model-checked: the liveness properties `CallsEnd`,
`MessagesGetThrough` and those of `store_maintenance` (the prover does not handle
fairness), and that the formats of `Wire` satisfy `FormatsAgree` (formats are
interpreted by recursive operators, which the prover does not handle, and what
they do for every value would need induction over data). `ReadInv` of
`RoraProofs` and `SessionInv` have quantifiers without a bound, so TLC checks what
follows from them, not the invariants themselves.

## 5. Differences between documentation and code

### A linked fragment that is deleted (`store_lost`)

`docs/alba_storage_protocol.txt:15` promises that "all fragments linked from the
manifest should exist". `store_lost` finds a run that violates it:

1. an object is uploaded; a repair writes the fragment under version 1, tagged
   with epoch 0, and dies before it updates the manifest;
2. a second repair writes the same key, now tagged with epoch 1;
3. a collector of epoch 0 reads the manifest: version 1 is not linked;
4. the second repair updates the manifest;
5. the collector deletes the key. The OSD checks that the tag of epoch 0 is
   still there (`maintenance.ml:844-876`), which it is.

The window is the time between two requests of the collector. The theorem
`LinkedFragmentsAreSafe` shows that a key written by two attempts is the only
way to get there.

### An OSD that is claimed again misses messages (`osd_reclaim`)

Purging an OSD drops its log; when it is added and claimed again it gets a new
`osd_id` and a log that starts at 0, but `claim_osd` (`alba_client_osd.ml:44`)
leaves the `next_msg_id` on the OSD as it was. Messages below it are skipped and
marked delivered, against `docs/architecture.org:381`. `MarkedWereHandled` is proved
for an OSD that keeps its claim.

### Callers of the shared rounds wait for ever (`deduped_stuck`)

The finalizer of a first round that found threads waiting leaves an empty list
in the table and starts a second round (`alba_client_message_delivery.ml:216`).
Nobody removes the entry when that one ends. Later callers find it, wait for a
round, and none is started.

### An invalidated cache that returns old versions (`invalidate`)

`cpp/include/proxy_client.h:117-121` says that reads after an `invalidate_cache`
are at least as new as its processing by the proxy. The run finds this:

1. the epilogue of an upload updates the manifest of version 1 in the NSM;
2. the object is overwritten, and another client's `invalidate_cache` returns;
3. the epilogue adds its manifest of version 1 to the proxy's cache
   (`alba_client_upload.ml:785`), under the epoch of that moment
   (`manifest_cache.ml:75`);
4. a read with `consistent_read::F` that starts after the invalidation gets
   version 1.

Without epilogues there are other ways: a look-up in the NSM and the insertion of
what it found are two steps as well (`manifest_cache.ml:123`), and the C++ client
erases its own cache before it asks the proxy to (`rora_proxy_client.cc:533-536`), so
that a read in between puts an old manifest back. `QuietChangesAreSeen` shows that
it takes an overlapping call or a pending epilogue.

### The first of two updates takes effect (`sequence_order`)

`nsm_model.ml:1738-1740` says that of several updates of a name in a sequence "only
the last update for the name has effect". That is so for the list the namespace
manager gets; `with_alba_sequence_updates` of the proxy conses the updates of the
request onto a list (`proxy_server.ml:156-177`), which reverses them. For the caller
of `apply_sequence` it is the first update of a name that has effect
(`SessionFirstUpdateTakesEffect`, proved for sequences of any length).

### Smaller ones, not runs of their own

- `mark_msgs_delivered` (`albamgr_plugin.ml:646`) scans up to a key that ends in
  four bytes; from id 2^31-1 on keys have twelve, and sort after it. Such messages
  are fetched again in every round and never removed. With `MaxInt32` = 2 in
  `MCDeliver.cfg`, `MessagesGetThrough` fails.
- A cached manifest of an older, smaller version makes `get_location` read past
  the end of `chunk_sizes`; the model ends such a call as undefined.
- A thread that waited for a fill of the OSD table which failed is told it
  worked, and takes the first element of an empty vector.
- `posix_fadvise` returns its error as a positive number, which the C stub does
  not raise (`tools/alba_partial_read_stubs.c:153`).
- `remove` of `tools/cache.ml:121` does not subtract the weight of what it
  removes. The weights are not in the model.

## 6. Not modelled

- The contents of fragments (erasure coding, compression, checksums), command line
  tools, benchmarks, set-up, logging and statistics.
- The optimistic transactions below the operations of the NSM host: an operation
  is one step. Which values each handler reads but does not assert would have to
  be transcribed handler by handler.
- The manager's registers of namespaces, OSDs, work items and presets. What they
  send is covered by `MessageDelivery`, and the work that matters for safety by
  `FragmentStore`, where it may be done any number of times.
- Maintenance coordination: the lease is about clocks on different hosts. That
  two masters are harmless is what the runs with two collectors and two agents
  show.
- The ASD's writes and its recovery of blob directories; Kinetic drives, proxies
  and alba backends used as OSDs, of which `FragmentStore` assumes the OSD
  interface.
- `deliver_messages_to_most_osds`; how maintenance chooses objects, and how
  devices are chosen: random choices and floating point scores.
- Two managers claiming one OSD (one write with an assert on the OSD), and the
  answer to `mark_work_completed` being lost, so that work is done twice.
- In the C++ client: more than one namespace, `_use_null_io`, `set_slowness` and
  `get_version` of an ASD, name resolution and connecting; a manifest cache of
  capacity 0, which its constructor refuses. The answers of the namespace manager
  to look-ups with `No_guarantees` are taken to be up to date. A read with
  `consistent_read::T` uses cached manifests like any other when there is no local
  fragment cache (`rora_proxy_client.cc:402`), and no property asks more of it.
- Steps that are taken as one or in one order, where no property tells the
  difference: the proxy reads the objects of a request with fewer than eight slices
  in parallel (`proxy_server.ml:41-48`), here one after the other; `find` of the
  `ManifestCache` takes two locks in turn; the write of a fragment that `osd_access`
  sends again after an `End_of_file` is one write; `_check_deadline` arming its timer
  again (`tcp_transport.cc:127`).
- An ASD with `write_blobs = false`, which tests use and which answers reads with
  arbitrary bytes. A blob shorter than the slice asked for makes the C stub call
  `sendfile` for ever (`tools/alba_partial_read_stubs.c:94-119`): in the model this is
  a job that makes no progress, and the client's deadline ends the read.
- Hazards no property covers, or that a property covers in part, are in
  `PROJECT.json` with the reason.
