# A TLA+ model of Aurora core

This directory models Aurora core in TLA+, checks the models with TLC on small
instances, and proves the main results about six of them with TLAPS for every
value of the constants.  `PROJECT.json` lists the components, the runs, a mutant
for each property that shows it can fail, the lines every definition stands for,
the hazards and the theorems.

## The system

A client process (`cmd/aurorac`, or an application through `mobile/auroracore`)
takes a one-time entry from its provisioning wallet, validates it against the
trust it was given, opens a carrier (HTTP/2) to the first hop of a relay, runs a
handshake with a token from an issuer, and then exchanges sealed packets.
Packets carry frame blocks; frames open, feed and close flows.  On the client, a
local proxy or a TUN adapter turns connections into flows; at the exit, flows
become sockets.

| Part | Module | Where it is hard |
|---|---|---|
| packet receiver (`packet/receiver.go`) | Receiver, PacketWindow | the mutex is released to decrypt; protectors are replaced in use; the ring wraps |
| key directions and session (`packet/key_update.go`, `session/`) | DirectionState, Session | entropy is read without the mutex; updates cross; late acknowledgements |
| replay cache (`admission/replay_cache_retention*.go`) | RetentionCache | torn writes, failed syncs, reused file identities, power loss, clocks that differ |
| wallet (`cmd/aurorac/wallet_state*.go`) | Wallet | crash and power loss; the clock is read before the lock |
| first-hop handshake (`handshake/`) | CoverHandshake, BootstrapPadding | ambiguous delivery, replayed records, restarts, spends that fail half way |
| handshake handle and provisioned session (`handshake/client_resume.go`, `client/provisioned_session.go`) | ClientHandshake, ProvisionedSession | Complete, Close, timers and contexts from any goroutine |
| first-hop server (`server/first_hop.go`) | FirstHop | cancellation at every point, limits, Shutdown |
| carrier and duplex (`transport/`) | H2Carrier, PacketDuplex | Open against its context, Close against its users, both ends waiting on each other |
| route hops (`route/`) | RouteRelay, RouteClient | two caches swept by a clock that was read earlier; rotation with a draining route |
| exit session (`relay/`, `flow/flow.go`) | FlowManager, SocketEgress, ExitSession | a flow ID reused while the old pump runs; Close against everything |
| scheduler (`flow/scheduler.go`) | Scheduler | starvation |
| local proxy (`client/tcp_proxy_runtime.go`) | ProxyRuntime | several goroutines may close a flow |
| packet adapter (`client/packet_adapter.go`) | PacketAdapter, FragmentReassembly | sequence numbers, refused frames, closes owed, fragments in any order |
| local DNS (`flow/dns.go`, the allocator of `flow/flow.go`) | FakeIP | probing that collides, spellings of a name |
| client process (`cmd/aurorac/main.go`, `linux_tun.go`) | ClientProcess | every step of set-up and undo may fail |
| native library (`mobile/auroracore/session.go`) | NativeSessions | calls on a handle being closed |
| device exchange (`server/packet_device_exchange.go`) | DeviceExchange | Close against a reader and writers |
| trust and provisioning (`trust/`, `client/native_provisioning*.go`) | SeedTrust, Provisioning | objects of different signers, validity that passes between parse and use |
| issuer (`issuerd/`) | Issuer | a clock that moves between the checks of one request |
| key schedule (`handshake/binding.go`, `keys.go`, `admission/`, `crypto/`) | KeySchedule | what every hash and key binds |
| codecs (`wire/`, `protocol/`, stored containers) | WireCodec, ProtocolRecords, StoredRecords | encoder and decoder are separate functions |

The remaining packages are checklists, tools, platform bindings and test
deployments; `components` says so for each.

## Modules

An action is one critical section of the code, or one step between two points
where another goroutine, process, message or failure can intervene.

**PacketWindow** is what a receiver promises for each packet-number space: a
number is accepted once, inside a sliding window, until the space is forgotten.
**Receiver** is `packet.Receiver`: `windows` and `cached` are its maps, `uses`,
`retired` and `erased` the life of each protector, `op[o]` where goroutine `o` is
between `PrepareOpen` and `CommitPreparedOpen`.  Decryption is an action of its
own because the mutex is not held.  `ImplementsWindow` maps the ring bitmap to the
numbers it represents.

**DirectionState** holds the operators of `packet.DirectionState`; derived keys
are tuples of what they are derived from.  **Session** composes two
`session.Application` endpoints.  `InitiateKeyUpdate` and the handler of a
received update are two actions each, with the reservation held in between.
`settings` is a record of limits and bounds chosen initially, so that one run
covers several kinds of session.

**RetentionCache** is one cache file and the processes that use it; an operation
runs under the file lock and is one action, and how far it got before a failure
or a crash is its outcome.  `survivors` of a power loss are the states that no
completed sync superseded.  **Wallet** is the state file and the recovery loop of
each process.  The file systems assumed are stated at the head of each.

**CoverHandshake** runs `ClientDriver.Connect` against `RelayDriver.Begin` and
`RelayHandshake.Finish`.  A transcript, binding or key is the connection it was
made on.  `spentHints`, `spentTokens` and `seenBootstraps` are the relay's replay
admission, spent in the code's order with a failure possible between them.
**BootstrapPadding** is the loop that grows a record into its envelope, by
lengths.

**ClientHandshake** is the handle an application begins, completes and closes:
`pc[c]` is where each caller is, `connect` the goroutine of `Connect`.
**ProvisionedSession** extends it by the session that owns the handle, its timers
and its context.

**FirstHop** is the handler under an HTTP/2 server: `pc[r]` is where request `r`
is, `holds[r]` the slots, registrations and contexts it must give back.
**H2Carrier** is the client's carrier, with `opener`, `trip` (the round trip),
`hook` (the context's AfterFunc), `user` (reads, writes) and `closing`.
**PacketDuplex** is `RunPacketDuplex` at both ends of one carrier with bounded
queues and a bounded wire.

**RouteRelay** opens route preludes: wrap nonce first, then the access hint, both
with the clock value of the call.  **RouteClient** verifies answers, activates and
rotates routes.

**FlowManager**, **SocketEgress**, **ExitSession**: the table of `flow.Manager`,
the sockets and pumps of `relay.SocketEgress`, and the session that drives both.
`h` is the frame handler (the session's mutex allows one), `sock[i]` the i-th
socket with its pump, `shut` the progress of Close.

**Scheduler** is `flow.Scheduler`; `waited` counts for each class the chunks
served before its head.  **ProxyRuntime** is `client.TCPProxyRuntime` with as much
of the relay as decides what it answers; `serve[f]` is the goroutine of a
connection, `pump[f]` its write pump, `hd` the frame handler.

**PacketAdapter** is the flow table between a device and the session; a TCP payload
is one byte named by its position, sequence numbers wrap, and `stack` is a local TCP
that numbers, resends and closes.  **FragmentReassembly** is its treatment of IPv4
and IPv6 fragments, **FakeIP** the local answers to name queries, **ClientProcess**
the attempts of `aurorac tun` and `aurorac proxy` with the undo list of routes,
**NativeSessions** the registry behind the mobile interface, **DeviceExchange** the
exchanger of a server with its device.

**SeedTrust** is the store of signed seeds; a signature is the key material that
made it.  **Provisioning** extends it by what a client verifies of a bundle; each
object has a ghost operator that no check reads.  **Issuer** is the token issuer
with its slots, its metadata intervals and its cache of spent tokens.
**KeySchedule** has every hash and key as the tuple of its inputs.
**ProtocolRecords** and **StoredRecords** list, separately, the fields each record's
encoder writes and its decoder reads; **WireCodec** is the encoder and the reader
under them, with a first error that sticks.

`MCReceiver`, `MCSession`, `MCExitSession` and `MCProxyRuntime` instantiate one
system each.  `MCCarrier`, `MCAdmission`, `MCDevice` and `MCServices` hold several
systems side by side: `part` says which one moves in a behaviour, and the variables
of the others rest.  A part that shares state in the program is composed in one
module instead (two session ends, both ends of a duplex, client and relay of a
handshake, the exit's table and sockets, the session around its handshake).

## Runs

| Run | What it shows | States |
|---|---|---|
| `receiver` | two opens, protectors replaced and destroyed, five numbers over a ring of three slots: a number is accepted once (`AcceptedOnce`), no key is erased in use (`PinnedNotErased`), the ring implements PacketWindow | 283 thousand |
| `session` | crossing and superseding updates over an unreliable carrier, two priorities over an ordered one: nonces are unique, the ends agree on keys, nothing is accepted twice, a drain has a timer, and only a late acknowledgement ends a session | 938 thousand |
| `exit_sockets` | a flow ID opened twice, drains, time to live, stale block times: no socket is lost and data reaches the socket of its own flow | 2.6 million |
| `exit_close` | Close against the handler and the pumps at every point, with cancelled contexts and a sink that fails or stays full: Close returns and releases everything | 535 thousand |
| `proxy` | connections and a UDP association that compete for slots and budget: a drain delivers what the relay sent and has somebody to end it | 1.3 million |
| `carrier` | the handshake handle, the HTTP/2 carrier and both ends of a duplex: every call returns, a session has one owner, a failed Open or a finished Close leaves nothing open, the ends do not wait for each other | 81 thousand |
| `admission` | wallet, replay cache, handshake, first hop, provisioned session and route hops: a credential, a hint and a token are used once, both ends agree, what is admitted is given back, a cancellation reaches its session, a route is accepted only on its relay's answer | 834 thousand |
| `device` | scheduler, packet adapter, fragments, fake addresses, process, native registry, device exchange: streams arrive exactly, closes are owed until sent, packets are whole, an address means its name, routes and sessions are given back | 559 thousand |
| `services` | codecs and padding, key schedule, seed trust, provisioning, issuer: what is sent is what is read and fits its envelope, keys bind their inputs, revocation stands, operators do not mix, tokens verify and are spent once | 210 thousand |
| `late_ack` (violation) | a late acknowledgement ends a session | |
| `proxy_leak` (violation) | a local write that fails during a drain keeps its bytes in the shared budget | |
| `tun_backpressure` (violation) | a packet dropped for want of room is followed by the next one of its window, and the gap ends the session | |

`PROJECT.json` gives the properties of each run; the comment above each says in
words what it states and which code it is about.

**Bounds.**  The ring of `receiver` has three slots for five numbers, so that a
slot is reused after a jump that skips one; with fewer numbers an off-by-one in
the slots to clear goes unseen.  Two key updates of one end are what it takes to
supersede a drain; packets are at most three or four in a queue, with the
smallest reserve the code accepts.  Of two session ends that are alike one closes.
`exit_sockets` opens one ID twice, the least that lets an old pump meet a new
flow, and its clock covers a drain and a time to live.  In `proxy` two connections
share a budget of one chunk; loss of the carrier and Close are in the settings
with one flow.

In `admission`, two processes share a wallet of three entries that expire one after
the other, of which the state file keeps two; two share a replay cache with two
compactions and two file identities, so that an identity comes back.  Two handshakes
run with one credential and token, or with two credentials and one token; two
requests meet the first hop on one connection or on two; envelopes of a route share a
hint, a nonce or neither while the clock passes both expiries and four epochs; three
routes of two hops, two of them asked for.

In `carrier`, queues and wire hold one packet: with four packets a way while nothing
ends, both pumps of both ends block; when an end may stop, one or two suffice.  In
`device`, the adapter's queue takes two frames and its sequence numbers wrap at eight
from three; a packet has up to three fragments and two packets may share a key; two
of three names probe from the same one of two addresses; a process makes two attempts
on hosts with and without a route of their own; a device is read four times through a
queue of two.  In `services`, a record has its fields empty, at one element or at its
limit; two sessions differ in up to two inputs; ten seeds in any order; envelopes and
bodies of up to nine bytes with a guard of two; the issuer's clock passes every
interval of its metadata.

Symmetry is used for openers, protectors, materials, connections, and the processes and
file identities of the replay cache, and only in runs without liveness.

**Deadlock** is checked in `receiver` and `session`.  The others may stop for good: an
exit session after Close, a proxy whose connections have ended, a handshake that is
over, a wallet that is empty.

**Fairness.**  `exit_close` and `carrier` check liveness.  `exit_close` assumes that
pumps, the handler and Close run when they can: each is a goroutine, and a blocked
Read ends at the latest with its idle deadline, or at once by the deadline that
cancelling the flow sets.  Nothing is assumed of the sink, which may stay full for
ever.  `carrier` assumes the same of the pumps and callers of a duplex, of `Connect`
and the callers of a handshake handle, and of Open and Close.  The peer may
stay silent for ever: a dial, a round trip and a record that is read or written are
assumed to end only once `runContext` is cancelled, which is what cancelling it does.
The methods of the HTTP/2 carrier get strong fairness, because they
wait on a `sync.Mutex`, which hands itself to a waiter that starves.

Other promises that something eventually happens are invariants that name who is
responsible: `DrainsTimed` (a draining key has an armed timer), `DrainOwned` (a
draining connection has a pump or a handler that will close it), `ClosesOwed` (a close
the queue refused is still pending), `NothingOrphaned` (an open session is registered
or in the hands of a call).

## Proofs

Theorems hold for every value of the constants under named assumptions.  TLC
evaluates those on the instances above: `Receiver` and `Scheduler` ASSUME theirs, the
instances of the others are ASSUMEd in the MC modules.

- `ReceiverProofs!ReplaySafe`: a number is accepted at most once.  Assumed: a window
  of at least one, natural packet numbers, finitely many openers, distinct markers.
  `AcceptedOnce` alone is not inductive, since a commit decides by the ring.  The
  invariant adds `RingExact`: inside the window a slot is set exactly when its number
  was accepted.  It is preserved because two numbers of one window never share a slot
  (`SlotUnique`), by the cases of `Mark`: first number, above, inside.
- `ReceiverProofs!RingImplementsWindow`: `Spec => ImplementsWindow`.  Since the ring
  is exact, the numbers it represents are the accepted ones in the window
  (`RecordedAccepted`); a commit is then an `Accept` of PacketWindow, forgetting and
  destroying are `Forget` and `Close`, and all else stutters.
- `ReceiverProofs!KeysOwned`: no protector is erased under an open that pinned it, and
  none is left behind.  The invariant counts the opens that hold each protector
  (`PinCount`), so that a count of zero means nobody does.  `TypeCorrect` is there too.
- `SchedulerProofs!StarvationFree`: realtime data waits for at most two chunks of other
  classes, interactive for the burst and two, bulk for the burst, for every burst of at
  least two.  The bound is on a history variable; `Waiting` ties it to the counters that
  decide.  `TypeCorrect` is there too.
- `HandshakeProofs!OwnedOnce`: for any number of callers of Complete and Close, the
  session has one owner and no proof is left in a closed provider (`SessionOwned`).
  Assumed: the names of the callers are distinct.  The invariant says that at most one
  Complete is past the claim (`OneClaim`), that only calls of Complete are handed the
  result (`CompletersWait`), that a session exists only once Connect stored it
  (`StoredOnce`), and that while a closed handle may still hold one, some caller is on its
  way to close it (`Watched`).
- `FakeIPProofs!NamesKept`: an address means its name for ever, for every pool, hash and
  set of names.  The invariant is that the two maps are inverse and agree with what was
  handed out.  Its core is that probing from any hash visits the whole pool
  (`ProbeCovers`), so that it finds a free address when there is one (`NextIsFree`).
- `PaddingProofs!PaddedExactly`: the padding loop, for every envelope, body, guard and
  number of attempts of at least two (`PaddingExact`).
- `SeedTrust!RevocationStands`: a revocation is ended only by an update in a seed never
  accepted before (`RevocationKept`), since a promotion keeps every record its updates
  do not name.

All other properties are only model-checked.  Liveness stays with TLC, as do facts
that need induction over data, such as the byte account of the scheduler
(`BytesExact`, a sum over queues), and everything in WireCodec, whose encoder and
reader are recursive operators.

## Disagreements between code and documents

Three are runs, with the sources in `findings`: `late_ack`, `proxy_leak`,
`tun_backpressure`.  The modules state more that the code does not keep.  To see a
counterexample, name the statement as an invariant (or the specification given).

- `Session!AckAlwaysFits` (`session/key_update.go:258`, "always covers one pending
  update plus this acknowledgement"): acknowledgements queued earlier use the control
  reserve too.
- `ExitSession!RacedPeerCloseIsDropped` (`relay/relay.go:440`, "Such frames are dropped,
  not fatal."): the handler of a FLOW_CLOSE looks the flow up and marks it in two
  critical sections; a flow that ends in between ends the session.
- `ExitSession!EveryCloseAnnounced` (`relay/socket_egress.go:649`): a pump that finds its
  context cancelled at the head of its loop sends no FLOW_CLOSE.
- `ExitSession!ObserverMarksOwnFlow` (`relay/socket_egress.go:755`): the close is reported
  by ID and may mark a later flow.
- `Wallet!NeverReused` (`cmd/aurorac/main.go:522`): the clock is read before the wait for
  the lock, so an entry that expires meanwhile may be used again.
- `Wallet!SpecReplaced` (with two sources, `UsedOnceWhileValid`): the state file is bound
  to the digest of the wallet (`cmd/aurorac/wallet_state.go:181`), so that a replaced
  wallet file lets an entry be used twice, against "An access hint has one use"
  (`docs/superpowers/plans/2026-08-13-linux-carrier-recovery.md:11`).
- `ProxyRuntime!DrainNotCut` (`client/tcp_proxy_runtime.go:397`): data from the local
  client during a drain closes the connection.
- `ProxyRuntime!RetiredFramesDropped` (`client/tcp_proxy_runtime.go:1033`): a frame for a
  flow closed after the lookup ends the carrier.
- `ProxyRuntime!RefusalSparesCarrier` (`client/tcp_proxy_runtime.go:680`): data queued
  behind a refusal's FLOW_CLOSE makes the relay end the session.
- `ClientProcess!DeviceOutlivesRoutes` (`cmd/aurorac/main.go:770`): the AfterFunc of a
  frame block being handled (`client/packet_tun_runtime.go:146`) closes the device when
  the carrier ends, before the routes are undone.
- `BootstrapPadding!GuardCoversSignatures` (`handshake/padding.go:139`): a prelude that
  reaches its minimum unpadded gets no guard, and a shorter signature leaves it outside.

Other things met while modelling, without a statement of their own:

- packet adapter: a reset that arrives while pending closes find no room is dropped in
  the prologue (`client/packet_adapter.go:332`, against the comment at 1215); a reset
  after a FIN is dropped (760), and a later use of the port ends the session (704);
  pending closes are flushed only by the next Ingress.
- issuer and native timers: a timer that fired before Stop closes a session that was
  just established (`mobile/auroracore/session.go:412`,
  `client/provisioned_session.go:148`).
- issuer: the origin chosen at start (`issuerd/service.go:400`) may be out of date at use.
- first hop: a failure before the headers, after the write deadline was cleared, serves
  the cover without one (`server/first_hop.go:654`).
- handshake: a bootstrap failure after the token was spent leaves it spent
  (`admission/replay.go:215`); a relay without a post-quantum signer refuses an
  adversarial policy only after that (`handshake/client.go:318`).
- wallet: an expired seed, descriptor, template or metadata of one entry rejects the whole
  wallet, where the comment says that expired entries are discarded.
- client process: an `ip` command killed by its context after it took effect leaves a
  change that is not recorded for undoing.

## Abstractions

Bytes are counted in packets or chunks, except in the codecs, the padding and the
fragments, where lengths matter.  Ciphertext is the record of what was sealed;
signatures, hashes and derivations are the tuples of their inputs.  Time is a small
clock; a call's reading of it may be old where the code reads it once, and a process's
reading may lag by a bounded amount where readings of different processes are compared.
Dialling, name resolution, TLS, the HTTP and SOCKS handshakes with local clients and the
cover response are choices between success and failure.  The policy cohort refused by
strict policies is a choice in KeySchedule.

## Not modelled

- The primitives of `crypto/` and the key shares: algebra, not control.
- HTTP classification of a request, the reverse proxy to the cover origin, the builders
  of requests: one request at a time, without state between requests.
- Parsing and checksums of IP packets and DNS messages, the output of `ip`, flags, key
  files and configuration.
- The conformance checklists, `evidence/`, `evaluation/`, `perf/`, `release/`,
  `vectors/`, `cover/`, `policy/` scores, `failure/` classes, `cmd/auroractl`,
  `cmd/auroralab` and `internal/labfixture`: offline tools, tables and test deployments.
- `platform/` and the Windows files: system calls of a platform behind interfaces that
  are modelled.
- The append-only replay cache on disk without deadlines, the entropy reader's own
  goroutine and its timeout, `issueWork` of the native library and the one-time import of
  a bundle over HTTP.
