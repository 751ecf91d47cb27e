# Formal model of golden-rs

TLA+ modules, TLC runs and TLAPS proofs for the golden-rs workspace: a Simplex
consensus replica with its simulator, the Golden DKG library, threshold signing
and the demos built on them. Paths below are relative to the repository root;
`replica.rs` is `golden-dkg/src/consensus/replica.rs`, `naughty.rs` and
`engine.rs` are in `simplex-consensus/src/sim/`; `protocol.rs`, `dkg.rs`,
`refresh.rs`, `shamir.rs` and `vss.rs` in `golden-dkg/src/`; `node.rs`,
`network.rs`, `reshare_node.rs` and `reshare_network.rs` in `golden-demo/src/`;
`ibe.rs`, `beacon.rs`, `signing.rs` and `cache.rs` in `golden-dkg/src/threshold/`;
`sidecar.rs` and `server.rs` in `safetee-demo/src/`. A `main.rs` is that of the
program the paragraph is about.

## Inventory

| Component | State | Operations | Interacts with |
|---|---|---|---|
| Simplex replica (`replica.rs`, `types.rs`, `vrf.rs`) | current view, four flags of the view, voted block, known blocks, three vote accumulators, tip hash, VRF seed, two counters | seven messages through `apply_message`; `advance_view` | returns messages; the caller carries them and fires timers |
| Adversary presets (`naughty.rs`) | a preset for each node | `assign_behaviors`, `filter_outgoing`, `forge_vote` | between a replica's output and the queue |
| Simulation engine (`engine.rs`) | the replicas, a FIFO queue, the block hashes seen in the view | `run_view`: request to propose, delivery loop, timeout round, outcome | owns the replicas |
| Simulator console (`bin/main.rs`) | strip of recent blocks, statistics | one iteration for each view | the engine |
| Golden DKG (`protocol.rs`, `dkg.rs`, `vss.rs`, `shamir.rs`, `evrf.rs`) | none between calls; a dealing is a value | round 0, round 1 | the network carries `Round0Msg` |
| Key refresh, resharing (`refresh.rs`, `reshare*.rs`) | as above, with an existing output | deal, complete | the network carries `ReshareMsg` |
| DKG demo (`golden-demo`) | peers map, barrier, broadcast channel of capacity 2n, a received map in each node | register, wait, broadcast, collect, complete | tokio tasks sharing a network |
| Threshold signing (`golden-dkg/src/threshold`) | a cache of Lagrange coefficients | partial sign, combine, verify | the replica combines its quorums with it |
| Vetkeys encryption (`ibe.rs`, `engine_vetkeys.rs`) | none | encrypted key shares, their combination, identity-based encryption | the key server, the simulator, the TEE demo |
| eVRF circuits | none | algebra | DKG |
| Sidecar (`sidecar.rs`, `static/index.html`) | sessions, in-flight counter, key cache | post a frame, inference loop, result, cleanup | concurrent HTTP handlers and tasks; the key server |
| Key server (`server.rs`) | the keys it generated when it started | vetKey, master key, encrypt, decrypt, attestation | the sidecar and the browser |
| TEE command line (`main.rs`, `scripts/06-e2e-demo.sh`) | files in the TEE's directory and in a local one | `keygen`, `network`, `decrypt`, copies | scripts sharing one directory |
| Beacon demo (`threshold_crypto`, `beacon.rs`) | chained signature, subsets of signers | one loop | threshold signing |

Where the hard behaviour is:

- **Consensus.** Replicas leave a view on different evidence, at different times
  and in any order of deliveries and timers. Correct means: at most one block of
  a view is notarized, a view is not both finalized and nullified, final blocks
  form one chain, replicas in one view agree on the leader, every view ends.
- **Engine.** Deterministic delivery in FIFO order; a timeout round that reaches
  only stuck replicas; a silent bound of 10000 deliveries. Correct means: the
  replicas stay in lock-step and the reported outcome is theirs.
- **DKG, refresh, resharing.** n tasks that meet at a barrier and then wait for
  every other one, over a channel that drops old messages. Correct means: nodes
  that complete hold shares of one secret for one public key; a bad dealing is
  rejected by everyone or no one; nobody waits for ever because one failed.
- **Sidecar.** Handlers and an inference loop share maps behind locks that are
  released across awaits. Correct means: the in-flight limit is kept and given
  back, a result belongs to the newest frame, a live session is not removed.
- **Threshold algebra.** Any quorum combines to the same signature, cached
  coefficients are those of the set they are used for.

`PROJECT.json` lists each component with its status and each hazard at its line.

## Modules

| Module | What it is |
|---|---|
| `Naughty` | the adversary presets: who proposes, equivocates, abstains, votes twice |
| `Simplex` | N replicas, one action for each handler, asynchronous network, properties, inductive invariant |
| `SimplexProofs` | TLAPS proofs about `Simplex` |
| `Replica` | the same handlers as functions of one replica's record, with its vote lists and what it sends |
| `ReplicaCaller` | one `Replica` before a caller that hands it anything |
| `LateReplica` | N - 1 replicas in order, and one that gets everything late and out of order |
| `SimplexEngine` | the simulator: `run_view` over `Replica` and `Naughty`, and the loop of main over `BlockStrip` |
| `EngineOverSimplex` | the refinement mapping: the engine's replicas as those of `Simplex` |
| `BlockStrip` | the ring of coloured blocks under the simulator's table |
| `EngineProofs` | TLAPS proofs about `ReplicaCaller`, and on top of them about `SimplexEngine` and `BlockStrip` |
| `EngineOverSimplexProofs` | TLAPS proofs that the engine's views end in step, and that it implements `Simplex` |
| `Shamir` | operators: secret sharing, Feldman commitments, threshold combination, coefficient cache |
| `ShamirProofs` | TLAPS lemmas about `Shamir`: the field, sums over sets, interpolation |
| `ThresholdSigning` | a shared key and the list of partial signatures collected for a message |
| `Committee` | the dealt key of a committee: shares, group key, group signature |
| `Beacon` | the loop of the beacon demo, over `Committee`, with shares that may be wrong |
| `ThresholdProofs` | TLAPS proofs about `ThresholdSigning` and `Beacon` |
| `Ibe` | operators: encrypted key shares, vetKeys, identity-based encryption, over `Shamir` |
| `VetkeyDerivation` | one vetKey from the replicas' answers, with replicas that tamper |
| `SafeTeeCli` | the commands of the TEE demo, their files and the scripts that call them, over `Ibe` |
| `KeyServer` | operators: what the key server answers |
| `Sidecar` | browser, handlers, inference loop, tasks, key cache and key server |
| `FrameMailbox` | abstract: what the sidecar promises a session |
| `SafeTeeProofs` | TLAPS proofs about `Ibe` and `VetkeyDerivation`, about `Sidecar`, and that it implements `FrameMailbox` |
| `GoldenDkg` | operators: round 0, round 1, refresh and the verification of a dealing, over `Shamir` |
| `DkgDemo` | the nodes, their network and `main.rs`, composed with `GoldenDkg` |
| `DkgProofs` | TLAPS proofs about `DkgDemo` |
| `Reshare` | the resharing protocol, the tasks of both committees and `main.rs` |
| `ReshareProofs` | TLAPS proofs about `Reshare` |
| `MCSimplex`, `MCDkg`, `MCReshare`, `MCSidecar`, `MCEngine` | constants for TLC |
| `MCReplica`, `MCThreshold`, `MCVetkey` | a component, and by INSTANCE others checked in the same run, see *Runs* |

### Simplex: state and actions

`view`, `tip`, `seed`, `voted_block`, `dummy_sent` and `known_blocks` are the
fields of `Replica` and `ChainState` with those names, one entry for each node.
`voted_in_view` is `voted_block # Genesis`, and `timer_fired` is set and reset
together with `dummy_sent`. `finalize_sent` and `notarized_in_view` are only
ever set by code that ends in `advance_view`, so between two messages they are
false and `None`: this is why their early returns do not appear.

`proposals`, `votes`, `nullifies`, `finalizes` and `relays` are the messages
sent so far; any of them may be delivered to any replica at any time, again, or
never. The vote lists of a replica are not variables. A handler that counts a
list has an effect only when the list reaches T entries, lists are deduplicated
by signer, and the network may have delivered any part of what was sent; so
such a handler is enabled when the signed votes it may have make a quorum
(`VotesSeen`, `NullifiesSeen`). A replica's own vote counts if it has signed it
in this view.

A block is the chain it commits to, which is what a collision-free
`block_hash` means: the sequence of entries `[view, payload, proposer]` from the
first block on. `Genesis` is the empty chain, `Parent` drops the last entry. A
VRF seed is named by the message whose combined signature it hashes, since a
threshold signature does not depend on which signers were combined; the
election oracle is the constant `Elect`.

| Action | Code |
|---|---|
| `HandleProposeRequest` | `handle_propose_request`, then the naughty filter and forged votes |
| `HandleProposal` (`StoreRejected`, `VoteFor`) | `handle_proposal` with its three rejections and, when it votes, `try_notarize` |
| `HandleTimeout` | `handle_timeout` with `try_nullify` |
| `HandleVote` | `handle_vote` with `try_notarize` |
| `HandleNullifyVote` | `handle_nullify_vote` with `try_nullify` |
| `HandleNotarization` | `handle_notarization` |
| `HandleFinalizeVote` | `handle_finalize_vote` with `try_finalize` |
| `ForgeNullifyVote` | the engine's dummy votes for capitulators |

`Notarized`, `Nullified` and `AdvanceView` are what `try_notarize`,
`try_nullify` and `advance_view` do. The engine sends one request to propose in
a view; the guard `voted_block[r] = Genesis` says the same.

### Simplex: properties

- `NotarizationUnique` (Lemma 3.2), `FinalizeExcludesNullify` (Lemma 3.3),
  `Consistency` (Theorem 3.1): stated over what was signed, not over the flags.
- `ChainAccounted`: the comparison of `parent_hash` with the replica's own tip
  is enough: every earlier view is nullified or has its notarized block on the
  chain.
- `FinalizedKept`: no step removes a final block from an honest chain.
- `IInv`, the inductive invariant of the proofs. `TypeOK` and `TipCertified`
  (every tip has a quorum although relayed blocks are taken unchecked) are
  conjuncts of it.
- `FinalizedNotNullified` is a claim of the sources that the code does not keep,
  see *Findings*.

### Replica, ReplicaCaller, LateReplica

`Simplex` reads quorums off what was signed. `Replica` is the other view of the
same code: a record with the fields of `Replica` and `ChainState`, the lists
`notarize_votes`, `nullify_votes` and `finalize_votes` in the order of delivery,
and for each handler a function to the next record, the transition returned and
the messages sent, early returns included. The combined signature of a list is
the seed of its message if the first T signers are distinct, and another value
otherwise (`Combined`).

`ReplicaCaller` gives node 1 any message for a view it is in, was in or will be
in: votes before their block, two blocks of one leader, relays with no
certificate, timers at any time, everything twice. The other signers are
interchangeable, so a new one is the lowest not yet in a list.
`NotarizedByQuorum` compares what the replica reports with the signers behind
it; `SignsOnce` is Lemmas 3.2 and 3.3 for its own signatures; `ViewsAccounted`
says that it left every view once, notarized or nullified, and said which.

`LateReplica` is about `handle_notarization`: N - 1 replicas go through views in
order, and what they send to the last one arrives at any time. `SameViewSameTip`:
whenever it is in a view with the others, it builds on the tip they build on.

### SimplexEngine, BlockStrip

| Action | Code |
|---|---|
| `AskLeader` | start of `run_view`: the leader the first honest replica elects |
| `Deliver` | one turn of the delivery loop: `apply_message`, `filter_outgoing`, forged votes, flags |
| `EndDelivery` | the end of the loop, by an empty queue or by `max_iterations` |
| `FireTimer` | `Timeout` to the next stuck replica |
| `CollectDummyVotes`, `RouteDummyVote` | the dummy votes, forged ones included, among the stuck replicas |
| `ReadStates` | outcome and divergence; then main: the strip, and the next view or the halt |

The engine is deterministic. What is open is the preset and the election
`oracle`, fixed for a behaviour. `signed` is a history of what was sent, the
variables of `Simplex` that the engine does not keep.

- `InLockStep`: at the end of a view all replicas are in the next one
  (`EveryViewEnds`), honest tips agree if at most F nodes are naughty
  (`AgreeWithinFaults`), and without an equivocation honest seeds agree
  (`SameSeed`).
- `DeliveriesBounded`: N + 4N(N - 1) deliveries at most in a view. A view in
  which all goes well takes 1 + (N - 1)(3N + 1) deliveries, so the engine's
  bound of 10000 is first reached with 61 nodes; from 124 nodes on the votes of a
  quorum no longer fit.
- `OutcomeTrue`: the outcome read off one replica's tip is what happened to the
  honest ones (`OutcomeRead`), and a view shown as Finalized has its quorum of
  finalize votes.
- `HonestLeaderHeard`: Lemma 3.5 when nobody equivocates. In general it fails,
  see *Findings*.
- `StripTrue`: every slot of the ring shows what became of the view it stands for,
  as long as the ring does not go around without a block. When it does, a slot may
  lie, see *Findings*.
- `ImplementsSimplex`: the refinement, along the mapping of `EngineOverSimplex`.
  Every step of the engine is a step of `Simplex`, or leaves its variables alone,
  for the same presets and oracle.

### Shamir, ThresholdSigning

The scalar field becomes the integers modulo a prime P. The groups of that order
become the same integers under addition: `Exp(a)` is g^a, a product in the group
is a sum, and the pairing multiplies exponents. Every equation the code checks
between group elements is an equation between exponents, so the model keeps all
of them; what it gives up is that a logarithm is hard to find, on which no
property here depends. Sums and products over a loop are folds over functions; the
Horner scheme and the powers in a commitment are recursive functions of the length.

A combined signature is the same sum as an interpolation at zero, over group
elements. `Collect` adds a signer to the list, as the vote lists of the replica
do; the properties compare what is combined with the signature under the secret
itself.

`CommitteeAssumption`: 1 <= T <= N < P, with P the order of the field; the code's is
a prime of 255 bits.

- `SharesMatchCommitment`: the Horner evaluation, the powers in the commitment
  and the check of a share agree, and a wrong share is refused.
- `QuorumSigns`: the first T of any list combine to the one group signature, on
  which the equality of the replicas' VRF seeds rests.
- `CacheAgrees`: the same through every subset of a cache of every size.
- `FewerSharesHideSecret`: fewer than T shares leave every secret possible.

### Beacon, Ibe, VetkeyDerivation, SafeTeeCli

`Beacon` is the loop of `threshold_crypto/src/main.rs` (and of the example
`threshold_vrf.rs`): every round is signed in both modes and combined for every
subset of the cache. A share may be off, which is what the comparison of subsets
is for. `BeaconsSound`: without an error every beacon verifies in its mode and the
chain leads back to the zeros (`BeaconsVerify`); and of everything a reader may put
together from the parts of what was signed, with any previous signature and in either
mode, exactly that verifies which the group signed (`OnlySignedVerify`). So a beacon
with only the number, only the previous signature or only the signature of another
round fails, and so does a chained one read as unchained. Two things pass that one
might not expect, and `Signed` says so: unchained mode does not look at the previous
signature, and an unchained beacon, which has none, verifies as chained (see
*Findings*). The randomness is left out of the model, since `verify` does not look
at it: a reader must derive it from the signature. A reader may ask the oracle for a
digest of no round; it answers with any value it has not given.
`FaultsShow`: if a checked subset goes without the wrong share, the process ends
before a wrong signature is chained on; and a verified round shows a wrong one.

`Ibe` has the hashes as random oracles without collisions and a mask as the value
it is a hash of; what comes off a wrong mask is `Garbled`. `VetkeyDerivation` runs
key generation, encryption, the replicas' answers, the combination of the first T
and the recipient's decryption. A replica of `Faulty` may change one component of
any share it could have sent, or both copies of its randomness. `VetkeyAssumption`
says that identifiers are points of the field and that it has room for the nine
values of the oracle H3. `SharesChecked`: a share passes its pairing checks
exactly if some randomness makes an honest replica send it, and T passing shares
are enough. `NothingElseOpens`: the recipient gets the message or nothing,
whatever was combined, and its key opens neither a changed ciphertext nor one for
another identity.

`SafeTeeCli` has the commands at the grain of files: opened (and truncated),
filled, read, copied, with a kill between any two of these. `FilesSound`: scripts
one after the other fail only when killed and bring home their own secret; scripts
side by side decrypt exactly when key and artifacts belong together.

### GoldenDkg, DkgDemo

| Variable | Code |
|---|---|
| `session`, `existing` | the phase of `main.rs`, the outputs it hands to the refresh |
| `status`, `received`, `next` | where a node's task is, its map `received`, its place in the channel |
| `dealing` | `DkgDealing` without the message: own commitment and own share |
| `channel` | the broadcast channel of the session's network |
| `result`, `output` | the `Result<DkgOutput, DkgError>` of the task |
| `fault` | which node tampers with its registration or its dealing, how, in which session |

| Action | Code |
|---|---|
| `Register` | `Node::new` with `Network::register`, up to the barrier |
| `Deal` | past the barrier: `create_dealing` and `broadcast`, with the fault applied |
| `Receive` | one turn of the collecting loop |
| `Finish` | `complete`: `round1` or `round1_refresh` |
| `StartRefresh` | the checks of `main.rs`, then a new network and new nodes |

`RoundOneErrors` gives the errors a node may return. The code returns the first
it meets; which one that is depends on the iteration order of a map, so one of
the failing stage is chosen. The eVRF proof is the verdict `evrf` of a message.
The verdict for an honest dealing is "valid" or, because prover and verifier
list the recipients in the orders of two maps, "invalid"; an error of the prover
leaves "none". Round 1 does not act on it, so only the runs about
`VerifyDealing` distinguish verdicts. A pad is a hash of the shared key, given by
the constant `PadHash`; `random_msg` is named by its dealer.

The faults are those of the tests of `protocol.rs` and `network.rs`: a key without proof, a wrong
share, a wrong pad commitment, a wrong pad with share and commitment to match, a
wrong VSS commitment, another session, a recipient left out, a secret other
than zero in a refresh.

- `Agreement`: honest nodes that complete hold one key and the same key shares.
- `CompletionUnanimous`: honest nodes complete all or none, unless a dealing
  leaves one of them out. Then the others complete without it; the condition in
  the property says so.
- `SharesOpenKeyShares`, `QuorumReconstructs`: the checks of `main.rs`, for the
  honest nodes and for a run with a faulty one. They leave out a wrong pad with
  share and commitment to match, which round 1 accepts, see *Findings*.
- `EveryNodeReturns`: nobody waits for ever, unless a registration failed.
- `HonestDealingVerifies`, `CompletedFromVerified`: claims the code does not keep.

### Reshare

| Variable | Code |
|---|---|
| `phase`, `holders`, `original` | the resharing `main.rs` is at, the outputs it hands on, the key before the first |
| `oldTask`, `newTask`, `channel`, `next`, `received`, `output` | the tasks of `OldReshareNode` and `NewReshareNode`, and their network |
| `main` | the handles `main.rs` has awaited, in order, and whether it has panicked or is done |

`Deal` is `reshare_deal` with the broadcast; `Finish` is `reshare_receive` with its
errors; `NextHolders` and `StartNext` are what `main.rs` passes from one resharing
to the next. One member of one old committee may be silent, deal twice, leave a
member out, or send a wrong share, pad, session, secret or degree.

- `KeySurvives`: T of the new members hold the secret from before the first
  resharing, whatever sizes and thresholds the committees had.
- `SharesOpenKeyShares`: members that completed took the same dealings, also of a
  member that dealt twice.
- `CompletionSound`: nobody completes while another fails, unless a dealing leaves
  one out, and nobody completes with a dealing that `verify_dealing` refuses.
- `MainEnds`: the program ends unless an old member is silent: `main.rs` then
  waits for ever, since members wait for all n_old dealings (`reshare_node.rs:120`)
  and not for t_old (`reshare.rs:17`).

Two faults are not noticed by the code: a polynomial of another degree
(`reshare_protocol.rs:114` never looks at its length) and a pad that is not the
shared one with commitments to match. They are in the run; `KeySurvives` leaves out
both, `SharesOpenKeyShares` the second.

### Sidecar, KeyServer, FrameMailbox

| Action | Code |
|---|---|
| `Start`, `Stop`, `SendFrame`, `PollResult` | the page: camera on and off, the frame timer, the poll |
| `PostFrame`, `PostInfer` | the handlers |
| `LoadInflight`, `Collect`, `Spawn`, `CleanupStaleSessions` | `inference_loop`, one action between two awaits or locks |
| `LookupVetkey`, `RequestVetkey`, `RequestMpk`, `InsertVetkey`, `DecryptFrame`, `CallVllm`, `StoreResult`, `GiveBack` | a task, one action between two awaits or locks |
| `SessionAges`, `CleanupComesDue`, `KeyServerRestarts` | time and the other process |

A session and its nonce have one name, since a client draws them together. `seq`
numbers the frames by arrival and is a history; the code has only the client's
`frame_id`. A key is named by the request or by the start of the server it
belongs to, and `Decrypts` says which fit: what `VetkeyDerivation` shows.

- `SlotsAccounted`: the counter is the number of running tasks and, with those
  about to be spawned, within the batch size, through every error path; a frame
  is dispatched once.
- `KeysFitTogether`: concurrent misses of the cache never leave a secret with
  another request's vetKey.
- `LatestFrameWins`: with one slot, the sidecar implements `FrameMailbox` under the
  mapping in `Sidecar.tla`; `QuietShowsLatest`: and ends on the last frame's answer.
  With more slots it may not, see *Findings*.
- `KeepsServing`: waiting frames are dispatched and slots come back.

## Runs

| Run | Instance | Shows |
|---|---|---|
| `simplex` | node 4 is a capitulator and leads view 1: it equivocates, votes for both blocks, and has dummy votes forged for it | `NotarizationUnique`, `FinalizeExcludesNullify`, `ChainAccounted`, `Consistency`, `IInv`, `FinalizedKept` |
| `dkg` | P = 5, N = 3, T = 2, any fault, two draws for node 1 | `TypeOK`, `CompletionUnanimous`, `Agreement`, `SharesOpenKeyShares`, `QuorumReconstructs`, `EveryNodeReturns` |
| `reshare` | 3 to 2 to 4 members, 2 to 2, 3 to 2 with each fault | `KeySurvives`, `SharesOpenKeyShares`, `CompletionSound`, `MainEnds` |
| `sidecar` | two clients, five settings | `SlotsAccounted`, `KeysFitTogether`, `QuietShowsLatest`, `LatestFrameWins`, `KeepsServing` |
| `threshold` | P = 7; signing N = 4, T = 3; beacon N = 4, T = 3 | `SharesMatchCommitment`, `QuorumSigns`, `CacheAgrees`, `FewerSharesHideSecret`, `BeaconsSound`, `FaultsShow` |
| `vetkey` | vetKey N = 3, T = 2; three scripts in turn, two side by side | `SharesChecked`, `NothingElseOpens`, `FilesSound` |
| `replica` | one replica of four for a view, with up to seven finalize votes; of three for two views; a late one of four | `NotarizedByQuorum`, `SignsOnce`, `ViewsAccounted`, `SameViewSameTip` |
| `engine` | four nodes, every preset, 256 election oracles, four views | `InLockStep`, `DeliveriesBounded`, `OutcomeTrue`, `HonestLeaderHeard`, `StripTrue`, `ImplementsSimplex` |
| `dkg_honest_verifies` | all honest, any verdict | violates `HonestDealingVerifies` |
| `dkg_verified` | a dealer of a wrong pad | violates `CompletedFromVerified` |
| `simplex_finality` | all honest | violates `FinalizedNotNullified` |
| `engine_lemma` | an equivocating leader, two views | violates `HonestLeaderFinalizes` |

`threshold`, `vetkey` and `replica` check several independent modules: a behaviour is
one of the program or setting chosen in the initial state, and the variables of the
others are the constant `Idle` or stay at their initial values. `reshare` and `sidecar`
choose a `setup` in the same way. A property of such a run speaks of the behaviours it
is about.

Bounds:

- The Simplex and engine runs have four nodes, T = 3, F = 1: the smallest network
  that tolerates a fault, where a quorum misses one node and two quorums share two.
- `MaxView = 2`: replicas act in views 1 and 2 and may enter view 3. Two views
  are what the properties relate: a view, the next one built on either way out
  of it, and replicas that are one view behind. The proofs hold for any bound.
- `MaxDummyVotes = 2`: timers fire while fewer dummy votes than this are signed.
  With the capitulator's forged vote as the third, they make one nullification, of
  either view, or spread over both.
- `FirstLeader` chooses who leads view 1: node 4, the naughty one, where its
  proposal matters. Symmetry is not used: node identifiers decide the leader and
  the halves of an equivocation.
- `Rounds = 4` and `Oracles` in `engine`: any leader for each of four views, and
  other ones after an equivocation or a nullification, so that naughty and honest
  nodes lead in any order and a stale seed has time to matter. `STRIP_LEN = 2`
  takes the ring around twice. `MaxIterations` is the code's own.
- `replica`: with four nodes one view, in which a list can go past its quorum; with
  three nodes and quorums of three two views, for messages of the view before.
  `MaxFinalize` bounds the finalize votes taken in a view.
- `P = 5` for DKG and resharing: the smallest field with four evaluation points.
  `P = 7` for signing and the beacon: two rounds hash four digests to four values, so
  that two are left for the digests of no round. vetKey and files have P = 11 and 13,
  large enough for their oracles to be free of collisions. `Draws` are the scalars a
  generator gives.
- `N = 3`, `T = 2` in the DKG: one node to deal, one to receive and one to
  disagree with; a quorum leaves one out. The tests of `protocol.rs` use the same.
- `sidecar`: one or two frames for each client and run; two slots, so that tasks
  of one session or of one nonce meet, or one; two starts of a client or of the
  key server; one call of `/infer` beside the loop.
- `NumScripts`: two scripts to meet, three in turn so that the last finds what two
  killed ones left.

Fairness and deadlock. `FairSpec` of `DkgDemo` assumes weak fairness of every
node's task and of `main.rs`: the tokio scheduler runs a task that is ready, the
barrier and the channel wake those that wait, and the channel loses nothing,
since it holds twice the messages that are sent. `Reshare` assumes weak fairness
of its next-state relation only: nothing more is needed for programs that end.
`Sidecar` assumes weak fairness of the loop, of the tasks it has spawned taken
together, and of the clock: the runtime schedules what can go on, the loop wakes
up by a timer, and calls return, with an error perhaps. The last is the code's own
assumption: it sets no timeout on any call (`sidecar.rs:293`), and one that never
returns keeps its slot. Nothing is assumed of the clients.
No fairness is assumed of Simplex and no liveness claimed: a model whose network
may deliver everything again would claim more than code that drops the messages
of views to come. For the engine, which is sequential, `InLockStep` says of every
view what liveness would.
The sidecar run checks for deadlock; in the others the program really stops, when
`main.rs` is through, a node has failed or a bound is reached.

The presets of `naughty.rs` are the whole adversary of the Simplex and engine
runs: a naughty node sends each peer one proposal, and only a capitulator signs
twice. The scenario `Capitulation` of the simulator corrupts F + 1 nodes to show
the protocol fail; in `simplex` it corrupts F, because everything
stated there is under the assumption of at most F, and in `engine` F + 1, where
the properties that need the assumption say so (`Tolerated`).

### Findings

- **An honest leader not heard.** `handle_notarization` moves the tip and the view
  but not `vrf_seed` (`replica.rs:495`). A replica that left a view by a relayed
  block keeps its seed and elects by it. The engine asks the leader of the first
  honest replica only (`engine.rs:168`); in the trace of `engine_lemma` an
  equivocation leaves that one with an old seed, the leader it elects does not
  think it leads, and a view with an honest leader is nullified, against
  `vrf.rs:17-19`.
- **Finality across two views.** Finalize votes for the current view and for the
  one before are counted in one list. In the trace of `simplex_finality` a
  replica reports a view finalized which a quorum has nullified, against
  `replica.rs:27`. What is signed still excludes both quorums
  (`FinalizeExcludesNullify`); the miscount is in the receiver.
- **An honest proof refused.** `round0` proves for the recipients in the order of
  the map `peers`, `verify_dealing` and `round1` verify in the order of the map
  `ciphertexts`. For one recipient that is the same; for two or more it is
  chance. Round 1 does not notice because it ignores the verdict. `error.rs:96-98`
  takes a refused proof for a sender at fault.
- **A failed proof accepted.** `round1` ignores the verdict (`protocol.rs:122`
  says ABORT) and the nodes never call `verify_dealing`, which `dkg.rs:182-183`
  demands. In the trace of `dkg_verified` a node completes with a dealing whose
  proof fails. The two findings hide each other: enforcing the proof without
  fixing the order would reject honest dealers.

Noticed while modelling, and stated by no run:

- `verify` in chained mode hashes `previous_signature.as_deref()` (`beacon.rs:86`), so an
  unchained beacon, which has none, passes for a chained one, although `types.rs:83-85`
  says that in this mode each output depends on the one before. `Signed` allows it.
- `handle_propose_request` ignores `voted_in_view`: asked twice in a view, a leader
  counts its own vote twice (`replica.rs:302`). The engine asks once.
- A block refused by `handle_proposal` is stored without a look at the votes that
  came before it, so a quorum may wait for one more message (`replica.rs:332`).
- `try_notarize` pushes the replica's own finalize vote on a list that it clears a
  few lines on (`replica.rs:558`); `finalized_count` grows with every finalize vote
  from the quorum on (`replica.rs:629`).
- A replica that a dummy vote reached one view early never gets it again
  (`replica.rs:440`).
- With a batch size above one, and 16 is the default, two frames of a session may be in
  work at once, and the answer that comes last is stored, also over that to a later
  frame (`sidecar.rs:499`). `QuietShowsLatest` and `LatestFrameWins` are for one slot.
- A stale session stays while no frame waits (`sidecar.rs:484`); attestation is logged
  as three checks of three when two were enough (`sidecar.rs:431`); a page that stops
  and starts takes an old answer for a new one (`index.html:368`).
- `verify_encrypted_vetkey` does not look at C2, which decryption uses
  (`ibe.rs:452`). Single shares are checked for it.
- The strip promotes the slot of the last block also when the ring has written over it,
  after a whole ring of nullified views, forty in the code (`bin/main.rs:127`).

## Proofs

`SimplexProofs` proves, for all N, T, F, presets and leader oracles, and for any
bounds:

| Theorem | Statement |
|---|---|
| `TypeCorrect` | `Spec => []TypeOK` |
| `InvariantHolds` | `Spec => []IInv` |
| `UniqueNotarization` | `Spec => []NotarizationUnique` |
| `FinalizeOrNullify` | `Spec => []FinalizeExcludesNullify` |
| `ConsistentChain` | `Spec => []Consistency` |
| `TipsJustified` | `Spec => [](TipCertified /\ ChainAccounted)` |
| `FinalBlocksKept` | `Spec => FinalizedKept` |

Assumptions: `QuorumAssumption`, N + F < 2T and F < T, which t = 2f + 1 and
n = 3f + 1 satisfy; `FaultAssumption`, at most F nodes with a preset other than
Honest. Nothing is assumed of `Elect`.

The argument. Two sets of T nodes share an honest one (`QuorumsMeet`). The
properties talk about quorums, so they need a statement about single honest
signers, and that is what `IInv` adds. `VoteOnce` and `EitherOr` say that an
honest node signs one vote in a view and not both a finalize and a dummy vote.
They are not inductive alone, since the flags that enforce them belong to the
current view only: `Forward` says that a replica has signed nothing for later
views and that its flags remember what it has signed in this one, `Remembered`
is the converse. `VoteJustified` carries `ChainAccounted` from a replica to the
blocks it votes for, so that a replica that adopts a relayed block without
having seen its ancestors inherits an honest voter's account of them; this
takes `RelayCertified`. Consistency follows: a certified block above a final one
has an honest voter, whose chain accounts for the final block's view; that view
is not nullified, so a block of it is on the chain, and there is only one.

Every step is one of four: a vote, a dummy vote, leaving with a block, leaving
with a nullification. `VoteInv`, `DummyVoteInv`, `NotarizedInv` and
`NullifiedInv` prove `IInv'` for those, and one lemma for each handler reduces
to them.

`FinalBlocksKept` is about steps. A step that changes a tip adopts a certified
block of the view the replica is in (`StepShape`), the views along a chain lie
below that view (`OrderInv`), and so the new tip is later than any final block
on the old one; Consistency, in the state after the step, puts that block on the
new chain.

### EngineProofs, EngineOverSimplexProofs

| Theorem | Statement |
|---|---|
| `Signs`, `Quorums`, `Accounts` | `CallerSpec => []SignsOnce`, `[]NotarizedByQuorum`, `[]ViewsAccounted` |
| `AnyCaller` | `AnySpec => []` of the three |
| `EngineProofs!Strip` | `Spec => []StripTrue`, of the engine |
| `Drains` | `ElectsNodes /\ Spec => []DeliveriesBounded` |
| `ViewsEnd` | `ElectsNodes /\ QueueFits /\ Spec => []EveryViewEnds` |
| `Agreement` | `... => []AgreeWithinFaults` |
| `LockStep` | `... => []InLockStep` |
| `LeadersHeard` | `... => []HonestLeaderHeard` |
| `Outcome` | `... => []OutcomeRead` |
| `ImplementsAsync` | `ElectsNodes /\ Spec => (behavior = Presets /\ oracle = Oracle /\ Tolerated => Async!Spec)` |

**One replica**, for every T in Nat and any bounds. `AnySpec` is the stronger result: it
has no bound, no list of messages and no rule for the next signer, and the leader is
whatever the oracle says at that moment. What it asks of the caller (`Legal`) is that
only the replica signs for itself, that a proposal is a block, and that a replica that
has voted is not asked to propose; without the last `NotarizedByQuorum` is false, see
*Findings*. `CallerIsLegal` shows that `ReplicaCaller` is such a caller.

The properties are about what was sent and returned; the code has only flags of the
current view. `Good` relates the two: a list has nobody twice and the replica in it
only if it has voted (`StateOK`); what was signed in this view is in its flags, and
nothing is signed for later views (`SignedOK`); each earlier view was left once
(`ReturnedOK`). A handler either stays (`StayKeeps`) or leaves the view
(`LeaveKeeps`), which resets the flags and with them what has to be shown.

**The engine**, for every F, any set of scenarios, any oracles and any number of rounds.
Assumptions: `EngineAssumption` (n = 3f + 1 and t = 2f + 1, as `main` computes them) and
`StripAssumption`. Hypotheses: `ElectsNodes`, an oracle elects a node, since
`elect_leader` takes the seed modulo n; `QueueFits`, max_iterations is at least
N + 4N(N - 1), which the code's 10000 is up to 50 nodes. `Drains` does not need the
second: it is what makes it the right bound.

Each theorem needs to know what is in the queue at any point of a view.

- `Sane` types it: a replica is in this view or the next, where it is as good as new,
  lists hold nobody twice, and a message in the queue is for this view.
- `Bounded`: what was delivered in a view and what waits is paid for. The question to
  the leader and the proposal's copies come to N, and a node sends 2(N - 1) messages
  at most when it first votes and as many when it leaves the view, neither of which
  it does twice.
- `Ends`: as long as one replica has left the view and another has not, a relay to
  the other is in the queue. So when the queue is empty, all have left or nobody
  has, and in the second case everybody times out and hears of everybody's dummy
  vote, since those go past the filters.
- `Ballots`: without a Capitulator, whom no scenario within the faults has, a node
  signs one vote in a view. A list, a message and a relay are backed by votes signed, so
  of two blocks adopted each has T signers, and the two sets share one.
- `Round`: without an equivocation the queue is sorted, proposals before votes before
  relays and finalize votes (`Sorted`). All replicas vote for the one block before a
  vote is counted (`Counted`), and all leave on votes before a relay is delivered
  (`Spread`), though a Withholder sends none. So all have one seed, and a quorum of
  finalize votes when the queue is empty. A leader that skips its turn leaves all in
  the view, and all have the seed of the dummy block.
- `Legible`: what a replica adopts in a view was proposed in it, and if one tip is of
  this view all are, in a fork too; the outcome is read off one of them.
- `Recorded`: everything on the way and every entry of a vote list is in the history
  `signed` of what was sent, so in the sets that `Simplex` delivers from (`Lists`), and a
  node that has not timed out in its view has no dummy vote for it on record (`Timers`),
  so that there are never as many as the bound of `Simplex` on them.

**The refinement.** `Simplex` has one action for each handler, and its quorums are of
votes signed, while a replica of the engine counts a list of votes heard. `DeliverStep`
takes the cases of a handler one by one: a message ignored or counted is a stutter,
or a step that signs what the replica signs; where the replica combines a quorum,
`Lists` makes its list a quorum of `Simplex`, for the same seed. `FireTimerStep` and
`RouteStep` are the timeout round, and `NoMessage` everything else, which `Simplex`
does not see. `Async` is fixed by two constants, `Presets` and `Oracle`, about which
nothing is assumed: the theorem holds of every behaviour for the presets and the
oracle it has. `Tolerated` leaves out `Capitulation`, the one scenario with more than F
naughty nodes, which `Simplex` assumes away. `MeetsAssumptions` shows that what `Simplex`
assumes of its constants then holds, so what `SimplexProofs` proves of `Simplex` is true
of the simulator: Consistency, one notarized block to a view, and final blocks kept. The
prover does not cite a theorem through an instance, and so that last step, from
`Async!Spec` to `[]Async!Consistency`, is the reader's.

### ShamirProofs

`SharesVerify` (a share passes the check against the commitment) and
`SharesReconstruct` (as many shares as coefficients interpolate to the constant term),
for every prime P, generator, polynomial and set of points.

The laws of the ring come from the laws of remainders, and reciprocals from the
primality of P: the least multiple of a that is not 0 modulo P is 1, since the remainder
of P by it would be a smaller one (`ReciprocalExists`). Induction over numbers and over
finite sets is done with explicit sets in place of predicates (`NatSet`, `PartSet`, from
the well-foundedness of the order on Nat), since the library's induction theorems cannot
be instantiated. `TotalSums` and `MultiplyProducts` say what the folds compute, in any
order of the set. Interpolation at zero is linear in the values (`At0Plus`, `At0Times`);
dropping one point lowers the degree by one (`At0Shift`), and so the constant term comes
out by induction on the polynomial (`At0Evaluate`). The same linearity gives what a
group needs: a sum of dealings is a dealing of the sum (`JointReconstructs`).

### ThresholdProofs

| Theorem | Statement |
|---|---|
| `ThresholdProofs!Types` | `Spec => []TypeOK` |
| `SharesMatch`, `QuorumsSign`, `FewerHide` | `Spec => []SharesMatchCommitment`, `[]QuorumSigns`, `[]FewerSharesHideSecret` |
| `CachesAgree` | `Spec => []CacheAgrees` |
| `BeaconSound`, `BeaconFaults` | `BeaconSpec => []BeaconsSound`, `[]FaultsShow` |

Assumptions: `FieldAssumption` with `CommitteeAssumption`.
The invariants are what the collected list or the key in hand was made from. `FewerHide`
exhibits, for every other secret, the polynomial through the shares held.
`CachesAgree` needs what the recursion of `cache.rs` lists (`CombinationsList`: sets of
T members, one at least) and that the spread indices increase from the first to the
last (`CacheIndicesList`), so that the code's sort and dedup change nothing.
The beacon's invariant (`BeaconInv`) says that each round shows what the combination of
the round's shares gives, chained on the signature of the round before, with digests
that the oracle keeps apart. Without a wrong share every subset interpolates to the group
signature; a subset without the wrong shares does too, so that with another result
beside it the process ends. `OneHash` says that a signature of a round verifies with the
hash of its digest only, whether the reader's digest is of another round or of none.

### DkgProofs, ReshareProofs

| Theorem | Statement |
|---|---|
| `TypesHold` | `Spec => []TypeOK` of `DkgDemo` |
| `SameKey` | `Spec => []Agreement` |
| `DkgProofs!SharesOpen`, `QuorumHoldsKey`, `OneOutcome` | `Spec => []SharesOpenKeyShares`, `[]QuorumReconstructs`, `[]CompletionUnanimous` |
| `Survives`, `ReshareProofs!SharesOpen`, `SoundCompletion` | `Spec => []KeySurvives`, `[]SharesOpenKeyShares`, `[]CompletionSound` |

For every field, N, T, identity keys, pad hash, draws and fault, through both sessions
of the DKG demo; for every chain of committees, thresholds and faults in a resharing.
Assumptions: `FieldAssumption`, `DkgAssumption` (fewer nodes than field elements,
1 <= T <= N) or `ReshareAssumption`, `KeyAssumption` (keys and pads are scalars),
and `DrawsAssumption`, `VerdictAssumption`, `FaultAssumption` on the bounds.

`Agreement` needs no arithmetic. Its invariant says that a sender has one dealing in
the channel, which for an honest sender carries the commitments it keeps
(`SessionInv`), that a node's map holds dealings of the channel under their senders
(`ReceivedInv`), that an output is what round 1 computes from the dealings of all
N - 1 others (`CompletedInv`), and that honest nodes enter a refresh with the same
key (`ExistingInv`). Two honest nodes then sum the same function. `TypesHold` rests on
the same steps: what is in the channel is typed because the existing key a dealing is
made from is, and a sum of round 1 because each commitment received is one to some
polynomial.

The others need to know what a dealing carries: `DealtInv` gives each dealing a
polynomial, `OutcomeInv` says that who completed met no error and who failed met
one, and `ExistingKey` that a refresh starts from the shares of one joint polynomial,
which the checks of `main.rs` ensure. The Diffie-Hellman pads of the two ends are
equal, the shares that verify are evaluations, and a sum of evaluations is an
evaluation of the sum (`JointReconstructs`).

In a resharing the old shares become constant terms, so the interpolation is done
twice. `HoldersInv` carries a polynomial for the holders from one phase to the next;
`ReadInv` says which dealing a new member has of a sender that dealt twice, the last
it has read, and that it has read as far as the others when its map is full;
`Barrier` and `AwaitInv` say when tasks and `main.rs` are where.

### SafeTeeProofs

| Theorem | Statement |
|---|---|
| `Checked`, `NothingElse` | `DeriveSpec => []SharesChecked`, `[]NothingElseOpens`, of the derivation |
| `SidecarSlots`, `SidecarKeys`, `SidecarQuiet` | `Spec => []SlotsAccounted`, `[]KeysFitTogether`, `[]QuietShowsLatest` |
| `SidecarImplementsMailbox` | `Spec => LatestFrameWins` |

**The derivation.** Assumptions: `FieldAssumption` and `VetkeyAssumption`.
`ShareTells` is the heart of `Checked`: the equations determine the randomness from C1,
then C2 and C3 from it, so what passes is what an honest replica sends with that
randomness. `OnlySignature` is that of `NothingElse`: a key decrypted from anything
at all passes the final check only if it is the one signature. The identities and H3
are the oracles of `Ibe`, without collisions.

**The sidecar**, for any set of setups: clients, batch sizes, failures, restarts. Assumption:
`SidecarAssumption`, which types a setup. Frames are numbered by arrival. `Numbered`
says that what waits is the last to arrive and what was taken came before it, so a frame
is dispatched once. `Slots` is the counter together with what the loop has read of it
before an await. `Encrypted` and `KeysFit` follow a key from request to use. With one
slot, `Newer` says that what is in work is newer than the answer shown and
`LastHandled` that the last frame waits, is in work, or is answered.
`SidecarImplementsMailbox` maps each action to a step of `FrameMailbox` or a stutter: a
frame that arrives, one that is taken, an answer, work that ends without one, and
sessions forgotten; everything else leaves the mailbox alone.

### Only model-checked

- `EveryNodeReturns`, `MainEnds`, `KeepsServing`: liveness, out of the prover's reach.
- `FilesSound`, `SameViewSameTip`: stated over the instances that an MC module
  composes. `SameViewSameTip` relates a replica to the run of the others, which a
  proof would have to carry as a history.
- The second conjunct of `OutcomeTrue`: who leaves on votes and who on a relay, and so
  who signs a finalize vote in time, differs from scenario to scenario.

## Plan

1. `Naughty`, `Simplex`, `SimplexProofs`: done.
2. `Replica` with its callers, `SimplexEngine`, `BlockStrip`, and the refinement of
   `Simplex` by the engine: done.
3. `Shamir`, `ThresholdSigning`, `GoldenDkg`, `DkgDemo`, `DkgProofs`: done.
4. `Reshare`, `Beacon`, `Ibe`, `VetkeyDerivation`, `SafeTeeCli`: done.
5. `KeyServer`, `Sidecar`, `FrameMailbox`: done.

6. `SafeTeeProofs`, `ShamirProofs`, `ReshareProofs`, `ThresholdProofs`, one replica,
   and the rest of `DkgProofs`: done.
7. The beacon in `ThresholdProofs`, the engine in `EngineProofs`: done.
8. The refinement of `Simplex`, one delivery at a time, in `EngineOverSimplexProofs`: done.

## Running

    tlc -workers 2 -config Simplex.cfg MCSimplex.tla
    tlc -workers 2 -config Engine.cfg MCEngine.tla
    tlc -workers 2 -config Dkg.cfg MCDkg.tla
    tlapm SimplexProofs.tla
    tlapm DkgProofs.tla
    tlapm ShamirProofs.tla

and so on for the runs of `PROJECT.json`, each of which takes less than five minutes.

## Not modelled

- The eVRF circuits and the proof of knowledge (`zk_evrf/`, `schnorr_pok.rs`):
  algebra over groups too large to enumerate. The DKG takes the verdict of a
  verification as a value of the message.
- The Kani harnesses and the extracted F* and Lean files: proofs about the code.
- What is only shown: tables, colours, the latency window, statistics, and the
  parsing of command lines.
- HTTP, TLS and JSON: a request arrives whole or fails. The cipher under which the
  sidecar sends its answer cannot fail for a key a browser makes and is left out.
