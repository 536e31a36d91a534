# Verification of RustDDS

This directory holds TLA+ specifications of the Rust DDS/RTPS implementation in
`src/`, the TLC configurations that check them and TLAPS proofs about them.
`PROJECT.json` is the machine-readable index: components, runs, the map from
definitions to source lines, mutants, findings, hazards and theorems. Paths
below are relative to the repository's `src/`.

## The system

A *participant* owns one event loop thread (`rtps/dp_event_loop.rs`), which
runs all RTPS Writers and Readers, and one discovery thread
(`discovery/discovery.rs`). Application threads and futures use DataWriters and
DataReaders (`dds/with_key/`), which talk to the event loop through bounded
channels, shared wakers and a shared cache.

| Part | State | Operations | Talks to |
|---|---|---|---|
| DataWriter (`datawriter.rs`) | `available_sequence_number` (atomic), sending end of the command channel (16 places), one waker slot | `write`, `async_write`, `dispose`, `wait_for_acknowledgments` and its async form | Writer, through channel, waker and status channel |
| Writer (`writer.rs`) | history buffer, a proxy per matched Reader, HEARTBEAT counter, timers, at most one waiter | commands, HEARTBEAT tick, ACKNACK, repair timers, cache cleaning, match/loss of a Reader | Readers, over UDP |
| RtpsReaderProxy | `all_acked_before`, `unsent_changes`, `pending_gap`, `frags_requested`, `repair_mode` | called by the Writer | - |
| Reader (`reader.rs`) | a proxy per matched Writer, fragment assemblers | DATA, DATAFRAG, HEARTBEAT, GAP, match/loss of a Writer | Writers over UDP, TopicCache |
| RtpsWriterProxy | `ack_base`, `changes`, `received_heartbeat_count` | called by the Reader | - |
| FragmentAssembler | per sample, bytes and fragments received | add a fragment, garbage collection after 10 s | Reader |
| TopicCache (`dds_cache.rs`) | samples, index, reliability marker per Writer | add, mark, range queries, garbage collection | Readers and DataReaders of a topic, under a mutex |
| SimpleDataReader, DataReader | read pointers, key map, waker, sample cache | take/read, by condition or instance, streams | TopicCache, Reader's notifications |
| MessageReceiver | interpreter state (source, destination, time, protection) | dispatch and decoding of submessages | Readers directly, Writers through a channel |
| Discovery, DiscoveryDB | participants with leases, endpoints, topics, attic | SPDP/SEDP samples, lease cleanup, commands, shutdown | event loop through a channel, application |
| QoS (`qos.rs`) | - | merging, compatibility, parameter lists | creation of endpoints, announcements, matching |
| Authentication, Secure Discovery | handshake states, stored messages, status of each remote | handshake, resends, key exchange | plugins, DiscoveryDB, event loop |
| Access control | governance and permissions documents | checks of participants, topics, endpoints | Secure Discovery |
| Cryptography | keys and handles by endpoint pair | register, tokens, encode, decode | Writers, Readers, MessageReceiver |
| Status channels | bounded channel, waker, poll event | best-effort send, receive | application |

What is hard to get right: application threads, discovery and the event loop
interleave at single locks, channel operations and wakers; the network loses,
repeats and reorders; both sides of a match appear and vanish independently, so
messages of an earlier match arrive in a later one; leases expire while news of
the same participant is on its way; the Writer removes history on the word of
proxies that may be stale; fragments, requests and garbage collection race; each
side of a match decides on its own, from what it was told. What makes each part
correct:

- proxy of a Writer: `ack_base` claims all that was received or declared
  irrelevant, and nothing else;
- Writer and Reader: no sample that a Reader is due is skipped, acknowledged
  means received and complete, history is kept as long as somebody needs it,
  everything arrives in the end;
- DataWriter: numbers are unique, in order and without holes, calls return,
  waits tell the truth;
- TopicCache and DataReader: samples are taken in order, without holes, shown
  once; no wake-up is lost;
- Discovery: what is matched is known, what is announced is matched, a lease
  survives two losses, peers are told the truth (of what could be written) and all
  is taken back in the end;
- QoS: what is announced is what is read, and both sides decide alike;
- security: both ends of a handshake agree, only the permitted are matched and
  given keys, those in order get them; what reaches a Reader is what was sent.

## Modules

| Module | Models |
|---|---|
| `SequenceNumber` | sequence numbers, the walks over consecutive ones |
| `RtpsMessages` | DATA, HEARTBEAT, GAP, ACKNACK, the network as the sets of all that was sent, GAP building, the window of a NumberSet |
| `RtpsWriterProxy`, `RtpsReaderProxy` | the two proxies as records, one operator per method |
| `StatefulWriter`, `StatefulReader`, `ReliableRtps` | a Writer, its Readers and the network; the safety properties and their inductive invariant `IInv` |
| `WriterProxyTracking` | one writer proxy against any remote Writer |
| `Fragmentation` | cutting a payload into DATAFRAGs and putting it together, byte by byte |
| `LossyDelivery` | one Writer, one Reader, losses, fragments, timers; liveness |
| `DataWriter` | tasks, command channel, wakers, waits |
| `TopicCache`, `DataSampleCache` | the two caches as records, one operator per method |
| `DataReading` | event loop, TopicCache, SimpleDataReader, DataReader, streams: one step per lock; the refinement mapping |
| `ReliableDelivery` | abstract: what a reliable DataReader promises about one Writer |
| `DiscoveryDB`, `DPEventLoop` | the database and the event loop's endpoints and proxies as records |
| `Discovery` | the discovery thread, the event loop, the application and the other participants |
| `QosPolicies`, `DiscoveryData`, `Matching` | QoS, announcements and parameter lists, the decisions of both sides, as pure operators |
| `Authentication`, `CryptoKeys`, `AccessControl` | the plugins behind their handle caches, one participant's view of another |
| `SecureDiscovery` | two participants that authenticate, exchange keys and match |
| `RtpsProtection`, `MessageReceiver`, `SecureMessaging` | protection of payloads, submessages and messages; the interpreter; endpoints of several participants that send and receive |
| `WriterProxyProofs`, `ReliableRtpsProofs`, `LossyDeliveryProofs`, `DataWriterProofs`, `DataReadingProofs`, `DiscoveryProofs`, `SecureDiscoveryProofs`, `SecureMessagingProofs` | the proofs, each with the inductive invariant it needs |
| `MC...` | instances for TLC |

The proxies are shared by `ReliableRtps`, `WriterProxyTracking`,
`LossyDelivery` and `DataReading`: what is proved about their operators holds in
all four.

**How state corresponds to code.** Variables, fields and operators keep the
source's names (`ack_base`, `all_acked_before`, `cc_upload_waker`,
`participant_cleanup`, `compliance_failure_wrt`, ...). Each action is a whole
handler of the event loop, which is single-threaded; where several threads run
(`DataWriter`, `DataReading`, `Discovery`), each action is the stretch between
two operations on shared state: an atomic, a lock, a channel, a waker. A thread
that blocks on a full channel stays in the middle of its handler (`todo` in
`Discovery`). Variables marked *ghost* or *history* are read by properties only.

**Abstractions.**

- A sample is its number, with bytes in `Fragmentation`, key and kind in
  `DataReading` and addressees in `SecureMessaging`.
- In `RtpsMessages` a message once sent may be received at any later time, any
  number of times or never. This contains loss, duplication, delay and
  reordering. A datagram with several submessages is a separate sending of each.
- `ReliableRtps` has samples that fit a single DATA, `LossyDelivery` has both
  sorts. `LossyDelivery` keeps the newest HEARTBEAT only (a Reader ignores
  older counts) and leaves out cache cleaning (which removes acknowledged
  samples only, `HistoryKeepsUnacked`).
- In `ReliableRtps` the cache holds every number stored, ever, one cache per
  Reader; collection, limits and sharing are in `DataReading`, which in turn
  keeps of a remote Writer what the network can bring.
- `Write` of the Writer requires growing numbers, with holes allowed. That is
  what one writing task delivers; see *Findings* for several threads.
- A closed status channel wakes the poll of a blocking wait, as in `mio_extras`;
  an executor polls a future when it is started and after its waker was woken.
  These are marked external in the map.
- In `Discovery` a tick is the clock of leases and announcements together: each
  participant that can be heard announces once per tick or the sample is lost.
  The messages about life signs go with it. Only the remote participant is
  audible in the run (our own broadcast is a constant away).
- Where a call of `Discovery` gives up on a full channel whose reader is not part
  of the model, failing is a choice: the built-in DataWriters' `write` (100 ms,
  16 places) in `write_single_endpoint_info` and `write_topic_info`, `try_send` of
  a new Reader, and `remove_reader` and `remove_writer` (20 ms). `dispose` waits.
- A QoS is a function on the policies that are set, a parameter list a function
  from parameter ids to their values in order: the way `to_map` looks at it.
- Keys, secrets, ciphertexts and MACs are symbols: opened by the key they were
  made with and no other. Certificates verify or do not. A topic expression is
  the set of names it matches. An error in a check of access control is a
  refusal, as every caller treats it. The clock of access control stands still
  within a behaviour: grants are valid or expired from the start, and do not
  expire between a check and the match.
- `SecureMessaging` takes the transport of key tokens as given (the subject of
  `SecureDiscovery`): a token arrives at any time after it was made. Registering
  a participant (Discovery) and matching the endpoints of the volatile topic (event
  loop) are two steps. Participant C has no plugins; D is an addressee only.
- In `SecureDiscovery` a write to the volatile topic may fail and is then kept and
  tried again by the resend timer; each such failure counts against the losses of
  the situation. A write of a handshake message that fails is a lost message: it is
  sent again by the same timer. Registering a remote's keys fails, at any of its
  endpoints, only while the loss of that participant is on its way between
  the two threads, the one case in which its handles can be gone.

## Runs

| Run | Checks | Instance |
|---|---|---|
| `writer_proxy` | `AckBaseExact`, `KnownIsResolved`, `AckBaseMonotone`, and that the closed form of the GAP loop equals the loop (`GapListLoop`) | all messages over 1..4, contradictory ones too |
| `reliable_volatile` | `WaitIsTruthful`, `IInv` | 2 samples, 1 Reader, 3 HEARTBEATs, one loss of a match, one wait |
| `reliable_transient_local` | `NoLoss`, `AckedIsReceived`, `HistoryKeepsUnacked`, `InOrderDelivery` | 2 samples, 2 reliable Readers, single-Reader samples, cleaning with depth 1 |
| `datawriter` | `NumbersConsecutive`, `WaitCoversOwnWrites`, `CallsReturn` | one thread with blocking calls, channel of 2, the Writer may go; two tasks with async writes and both waits |
| `lossy_repair` | `AckedIsComplete`, `EventuallyAcked`, `RepairEnds` | two DATAs with unlimited losses; a sample of 2 fragments, 2 DATAFRAGs lost; one with garbage collection |
| `reading` | `NotificationPending`, `SamplesAreIndexed`, `NeverTwice`, `DataIsRead`, `ImplementsReliableDelivery` | a late stream, a Writer lost and found, undecodable samples, two instances, best effort without keys |
| `discovery` | `MatchedIsKnown`, `AnnouncedIsMatched`, `ToldIsTrue`, `ShutdownDisposesAll`, `LeaseSurvivesTwoLosses`; `DecideAlike`, `AnnouncementsSurvive` | a remote participant with a Writer, a local Reader and a local Writer, channels of 1 and 2, leases of 3 ticks; QoS with one policy or all set |
| `security` | `HandshakeMirrored`, `SecretsAgree`, `RefusedGetsNoKeys`, `MatchedIsPermitted`, `KeysAreExchanged`; `DecisionsAgree` | fourteen situations: losses, open topics, untimely messages, lease outages, an outage together with failing writes, missing trust, grants that are absent, expired, different or without the right, incompatible attributes, unauthenticated remotes |
| `secure_messaging` | `DeliveredAsSent`, `NothingInClear`, `AddresseesGetIt` | eight situations: nothing protected; messages encrypted; submessages and payloads encrypted; messages and payloads signed, submessages encrypted; submessages signed; payloads encrypted; submessages encrypted for two Readers of one participant; the volatile topic. All but the first, the sixth and the seventh with origin authentication |
| `datawriter_duplicate`, `lossy_three_losses`, `qos_matching` | findings, below | |

`DecideAlike`, `AnnouncementsSurvive` and `DecisionsAgree` compare pure
operators over the inputs that constants name (`Situations`, `Bindings`,
`Credentials`, `Settings`, `SecurityInfos` of `Matching`; `RuleTexts`, `Handles`
of `AccessControl`): small sets in the runs, any in the proofs. They have the
form `Init => ...`, so that TLC evaluates them once. `DecideAlike` is about
DataReaders with no QoS but their topic's and about the built-in endpoints; for
Readers with a QoS of their own the sides differ, which is a finding. The built-in
topics are those with a QoS of their own (participants, participant messages,
stateless and volatile messages) and those without (all others); a remote may say
that its Reader of participant messages is best effort.

`ToldIsTrue` speaks of an endpoint that exists only if its announcement could be
written: `write_single_reader_info` and `write_single_writer_info` log a failure
and nothing repeats the announcement. What it says of endpoints that are gone has
no exception, because `dispose` waits for room.

`DeliveredAsSent` says of what was sent to one Reader that no other gets it, with
one exception the code makes: the HEARTBEAT that follows fragments carries the
Reader's entity id but no INFO_DST (`writer.rs:816-835`), so a Reader with that
id at another participant may take it too.

**Bounds.** `MaxSN` numbers, `MaxHB` HEARTBEATs, `MaxTimers` counted timers,
`MaxLost` losses of a match, `MaxWaits` waits. A window (`Window`) of 1 instead
of 256 makes every set with two members too large, so truncation happens all the
time; channels of 1 or 2 instead of 16, 32 and 64 fill up at once. Two samples
are the least for which order, holes, cleaning and late joining differ; for
more, and for more Readers, the safety properties of `ReliableRtps` are proved. A
fragmented sample has a header of 4 bytes and a value of 3, cut at 5: two
fragments, the last one shorter; for other sizes `AckedIsComplete` is proved. Up to two and three DATAFRAGs are lost because
a fragment has exactly three copies on its way: pushed, repaired, requested.
Garbage collection of fragments runs once because without clocks it could run
again and again, where the code waits for 10 s of silence. `MaxMissed` is 4 for a
lease of 3 ticks, so that leases break and do not. `GcModulus` 2 instead of the
code's interval of time makes the collection of the TopicCache happen. A
*situation* (`Situations`, `Starts`, `Settings`, `Applications`) fixes
configuration, workload and faults of one behaviour; a run has several, chosen so
that each fault meets each phase.

Deadlock is not checked where the system really may stop: applications that
write nothing more, a Writer with everything acknowledged, a participant that
has shut down or has been rejected.

**Fairness.** `DataWriter!FairSpec`: the event loop keeps serving the channel
(its readiness is registered with mio), and a thread or a woken future that can
run does. `LossyDelivery!FairSpec`: timers of the Writer fire (weak fairness:
`handle_timed_event` sets them again), and a message sent again and again is
received at some time (strong fairness on each reception). `DataReading`: the
event loop ends what it began, threads run, and an application calls again when
it was notified or got an item; it need not otherwise. `SecureDiscovery`: both
threads run, timers fire, what is sent and not lost arrives, in the situations that
`KeysAreExchanged` is about (`Timely`): those without an outage, in which losses
are fewer than resends. In the others nothing is promised and nothing is fair. Nothing forces an
application to write. `Discovery` states what must happen as invariants of
states in which all channels and readers are served (`Served`): no fairness is
needed.

**Refinement.** `ReliableDelivery` has two steps: a number is given up, or a
later number is handed over once all between are handed over or given up.
`DataReading` maps what a DataReader has taken and what was given up (removed
by the Writer, before the match of a volatile Reader, cut off by the limit of
the TopicCache) to it, for the pair `TheReader` and `TheWriter`; `reading` checks
and `DeliveryIsReliable` proves that every step of event loop and threads is one
of these steps or none.

## Findings

Three runs show behaviour that contradicts what the repository says;
`PROJECT.json` quotes the places.

- `datawriter_duplicate`: with two writing threads, a time-out gives back a
  number the other thread uses, and it is issued twice.
- `lossy_three_losses`: a fragmented sample of which one fragment was lost three
  times is never completed, because NACKFRAGs are dropped on reception and
  partially received samples are not requested by ACKNACK.
- `qos_matching`: what is announced of a Reader is its topic's QoS and not its
  own, so Writer and Reader decide differently; and the order on Liveliness
  ignores the kind.

Seen on the way, without a run:

- an asynchronous write stores its waker after finding the channel full, and
  sleeps for ever when the channel is emptied in between (`datawriter.rs:992`);
  the asynchronous wait returns `Pending` without a waker (`datawriter.rs:1106`);
- two threads may enqueue in the other order than they took their numbers
  (`datawriter.rs:365`, `374`); an asynchronous write that times out keeps its
  number (`datawriter.rs:993-1003`), so numbers have holes;
- a blocking wait returns `Ok(false)` at once when its command does not fit or a
  later wait displaces it (`writer.rs:644`);
- a late fragment of a complete sample opens a new assembly buffer
  (`reader.rs:622`);
- no pre-emptive ACKNACK is ever sent, since `ack_base` is never 0
  (`rtps_writer_proxy.rs:130`), and with a best-effort Reader or none the history
  is never cleaned (`writer.rs:1350`);
- an unknown key hash makes the take loop run for ever (`simpledatareader.rs:377`);
- DATA without contents is asked for again and again (`reader.rs:559`);
- local Readers of one topic share the cache's marker (`dds_cache.rs:201`): one
  that is not matched finds samples it is not notified of; its garbage
  collection removes unread samples also for a reliable KeepAll Reader
  (`dds_cache.rs:350`);
- the sample cache of a DataReader is ordered by reception, not by sequence
  number (`datasample_cache.rs:232`);
- after a rediscovery the endpoints of the participant may not be matched again
  (`discovery.rs:983-990`), and an endpoint made after an announcement was
  handled is not matched with it (`pubsub.rs:1169`); an endpoint whose removal
  overtakes its addition stays (`dp_event_loop.rs:461`), and so does one whose
  removal finds the channel full for 20 ms (`pubsub.rs:676`, `1298`);
- the announcement of an endpoint that does not get into the built-in Writer's
  channel within 100 ms is logged and never repeated (`discovery.rs:1723`, `1798`);
- `find_topic` may miss a topic that arrives at the last moment or without a
  notification (`participant.rs:1303-1320`), and an automatic liveliness lease
  below 2 s lapses between two ticks (`discovery.rs:1346`);
- with security, event loop and Discovery may block on each other's full
  channels (`dp_event_loop.rs:734`, 64 and 32 places); keys are sent once per
  remote endpoint, whichever local endpoint it is matched with
  (`secure_discovery.rs:2424`);
- with security, the second Reader of one participant on a topic is never
  registered, and encoding for all Readers fails (`crypto_key_factory.rs:28`).

## Proofs

TLAPS proves the theorems below for every value of the constants that satisfies
the named assumptions. These say what sort of thing a constant is (`MaxSN` is a
positive number, `Reliable` a set of Readers, a channel has at least one place)
and that tasks, endpoints and participants are finitely many. What a theorem
assumes beyond that is in its statement.

None of the safety properties is inductive. Each proof module states an
invariant `IInv` as a conjunction of named parts (that of `ReliableRtps` is in the
module itself, where the runs check it too), which TLC checked first, shows
that every action preserves it (one lemma per action, below it one step per part
the action can disturb), and derives the properties from it.

**`WriterProxyProofs`**: `AckBaseIsExact`, `KnownNumbersAreResolved`,
`AckBaseIsMonotone`, `TrackingTypeCorrect`, `GapLoopIsClosedForm`. The invariant
`TrackingIInv` adds that the proxy is `Consistent`: `ack_base` itself is never
among `changes`, so it cannot be advanced further. The lemmas say for each
operator which numbers are known afterwards; the proofs about `ReliableRtps` and
`DataReading` cite them. That the loop over a GAP's list equals the closed form
the models use is an induction: the set of numbers up to which the two agree has
no least exception (`InductionOverSet`), and adding one number to the list of the
closed form is one `set_irrelevant_change`, for which `Consistent` is needed.

**`ReliableRtpsProofs`**: `InvariantHolds`, `TypeCorrect`, and `Safety` with its
corollaries `AckedSamplesArrived`, `HistoryIsKept`, `WaitsAreTrue` and
`TakenInOrder`. A Reader skips a sample when a GAP or HEARTBEAT says so, and such
a message may be old, so `IInv` must speak of every message ever sent. The idea
is one notion, `Settled(r, s)`: number `s` has been written, and if Reader `r` is
due to it, `r` has it. Whatever lets a side give up on a number (proxies, ACKNACK
bases, HEARTBEAT's first number, GAPs, the cache's marker, a completed wait) is
shown to speak of settled numbers only, and a settled number stays settled
(`SettledStable`). This is why stale, repeated and out-of-order messages are
harmless, also across a new match. A new match owes numbers that come later, so
it cannot unsettle an old one; with TRANSIENT_LOCAL stored samples are due at all
times, matched or not.

**`LossyDeliveryProofs`**: `InvariantHolds` and `AcknowledgedIsComplete`, for any
sizes of payload and fragment. The bytes of the fragments cover the payload, each
byte lies in the fragment its position says (`EveryByte`), and what the receiver
copies for a fragment is what the sender cut (`SliceBytes`). Hence the invariant
of a buffer: where a fragment is marked as received, the bytes of its span are
those written (`BufferInv`); when all are marked, the sample is as written
(`CompleteIsWritten`), and dropping a buffer or opening it again for a late copy
does no harm. A fragmented sample never travels as DATA and a DATA is never
fragmented (`NetInv`), so nothing else makes a number known (`AssembledInv`). On
the Writer's side, the base of every ACKNACK is the Reader's `ack_base`, also
when it is sent for partially received samples (`HeartbeatAnswer`, `AckInv`).

**`DataWriterProofs`**: `InvariantHolds`, `TypeCorrect`, `NumbersAreConsecutive`,
`WaitsCoverOwnWrites`. A number is at any time in exactly one place: the history,
a place in the channel, or the hands of a task that is *in flight*. That breaks
only where `undo_sequence_number` gives back a number another thread has passed,
hence the case distinction in the property, which is the one of the finding
`datawriter_duplicate`: without blocking writes or with one task, numbers are
unique. For waits the order of the channel decides: a wait stands behind all its
task has written, and its task writes nothing while it waits.

**`DataReadingProofs`**: `InvariantHolds`, `IndexesHold` and `NothingTwice` for
any Readers of a topic; `NoWakeUpLost` and `DeliveryIsReliable` for a topic with
one Reader (`ASSUME Readers = {TheReader}`), because the Readers of a topic
overwrite each other's marker in the shared cache. The parts of the invariant:
the two maps of the TopicCache agree and time stamps lie in the past
(`CacheInv`); each sample of a DataReader is in the index of its instance, which
respects the depth (`SampleInv`); of a reliable Writer nothing above the read
pointer is in the sample cache or was shown, and no number is there twice
(`OnceInv`), which makes it irrelevant that the TopicCache forgets and is filled
again; a number the proxy knows is stored or given up (`KnownInv`). With one
Reader the same holds of all numbers below the marker (`MarkerInv`), and this is
the step of the refinement: what the read pointer passes over is below the
marker and not stored, so given up. For wake-ups, a stream that looks a second
time has set its waker (`WakerInv`), so whatever it then misses comes with a
wake-up.

**`DiscoveryProofs`**: `InvariantHolds`, `MatchedAreKnown`,
`AnnouncedAreMatched`, `AnnouncementsAreTrue`, `ShutdownDisposes`; and
`LeaseSurvives` for leases of at least two announcement periods (the code's own
lease is five, `discovery.rs:1329`; with one period a single loss is too many).
The notifications in the channel, followed by those the blocked discovery thread
has yet to send, are one queue, and the invariant says how it ends for each
endpoint: for one the database forgot, with its loss; for one it knows and the
event loop should match, with the update. The commands of the application are a
second queue with the same argument; of an endpoint in Discovery's database the
others were told, or its announcement failed. For leases, the age of a life sign is at
most the number of announcements lost since.

`AnnouncementsComeBack` and `DecisionsAlike` are about the pure operators, for any
QoS, locators, tokens and names: what is announced is what is read, and both sides
decide alike if the DataReader has no QoS but its topic's. A list holds a QoS if it
says of each policy what `to_parameter_list` says, whatever else it holds
(`Says`); names of members and policies are apart (`NamesApart`); the policies
left out of announcements are none that compliance looks at
(`ComplianceOfAnnounced`). From these, and from facts about built-in endpoints
(a QoS complies with itself if none of its values is below itself, and with the
one that asks for best effort instead, `SelfComplies`;
`BuiltinComplies`), about proxies (`ParticipantIsReached`) and about the keys of
disposals (`KeyIsThere`), `EndpointsDecideAlike` and `AnnouncementsDoSurvive` prove
what the run checks, for any sets of QoS, locators, tokens and security
information of the right sort.

**`SecureDiscoveryProofs`**: `InvariantHolds`, `HandshakeIsMirrored`,
`SecretsDoAgree`, `RefusedGetNoKeys`, `MatchedArePermitted`, for any documents,
faults and numbers of messages. A lease that expires starts a new handshake while
messages of the old one are around. A challenge is named after the message that
carried it first and names grow, so the order of events can be read from them: a
request made after a final message is answered after the reply that final message
was for (`OrderInv`). It follows that once `q` has completed, `p` has completed
with the same secret or asks anew (`CompletedInv`). `HandshakeMirrored` allows
one difference, which the code has: after a reply whose certificate is refused
the plugin has fallen back while Secure Discovery still waits
(`ReplyRefused`, `authentication.rs:700`). `DecisionsDoAgree` is about access
control: for any documents the decisions on topics, endpoints, remote Readers and
joining agree, because the rule whose verdict counts is one that applies
(`FirstApplicable`). `AccessDecisionsAgree` adds how rules are read: a rule in
the order of the schema is split into three stretches, each ending where the
next kind of element begins (`LeadingCounts`), so no element is lost
(`RuleKeepsAll`).

**`SecureMessagingProofs`**: `InvariantHolds`, `ReceivedIsAsSent`,
`NothingIsSentInClear`, for any participants, rules of the domain, endpoints and
number of messages, and whatever is lost, repeated, reordered or received while
keys are still being exchanged. The invariant follows a submessage from the
sender's hands to the receiver's. Each message on its way is of one that was
sent, in clear or under the sender's keys for the receivers named (`NetInv`); the
keys to decode with are those of the remote endpoint for this participant, or the
one of the pair on the volatile topic, and no endpoint of a participant without
plugins is matched where protection is demanded (`KeysInv`); what a
MessageReceiver has still to handle is the rest of such a message (`RxInv`); an
ACKNACK in the channel to the Writers is one that was sent to them (`AckInv`);
what was handed over is right (`LogInv`). The crux is the interpreter's state:
source, destination and timestamp hold for what *follows*, so `RxInv` must say
that the INFO submessages of a message come before its first other submessage or
SEC_PREFIX, that none of them is protected (a receiver would accept it,
`message_receiver.rs:939`, but no sender makes one), and that those no longer in the queue have been applied (`Ordered`).
With this it does not matter whether a submessage was decoded on the way, and
`reset` at the start of the next message is what keeps messages apart. For
`NothingInClear` each submessage of a message is looked at (`ClearOk`): the INFO
submessages may be in clear, and the special case for built-in topics contains
none of the user's.

**Only model-checked.**

- Liveness (`CallsReturn`, `EventuallyAcked`, `RepairEnds`, `DataIsRead`,
  `KeysAreExchanged`): the prover has no rule for fairness or ENABLED.
- `AddresseesGetIt` of `SecureMessaging`, in the eight situations of the run. It
  is about instances, not a law of the code: of a protected submessage to all
  Readers of a participant only the first is given it (`message_receiver.rs:877`).
  That nobody is passed over in the situation with two such Readers is because
  the Writer cannot register the second and then encodes nothing for both. Some
  situations also send only when keys are exchanged, which is said with ENABLED.
- That filtering a list of locators twice is filtering it once: `SelectSeq` is a
  recursion over the list. `AnnouncementsSurvive` therefore compares the proxy of
  an endpoint that names no locators with that of one naming its participant's.

Every other safety property that a run checks is stated by a theorem.

## Not modelled

- Deadline, lifespan and liveliness: timers that report to the application and
  change no protocol state; `ManualAssertLiveliness`, `AssertTopicLiveliness` and
  the participant messages with them.
- Counting status events, and `find_topic`'s thread, which only read.
- Wire formats, sockets, CDR, XML, X.509 and the ciphers: bytes without protocol
  state; what depends on their outcome is a choice in the models.
- Pull mode of the Writer (never switched on) and `mark_frags_requested` (never
  called).
- The ROS2 layer, the examples, the C++ relay and generated code: users of the
  library.

## Plan

1. *Done*: proxies, reliable protocol, loss and fragments, DataWriter; reading
   with its refinement; discovery and QoS; authentication, key exchange, access
   control and message protection; the proofs above.
2. Open: further action properties from the invariants above (what a step may
   never undo); liveliness and deadlines with a clock; two local Readers on one
   TopicCache.
