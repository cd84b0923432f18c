# TLA+ models of the ubirch client

This directory holds TLA+ models of the ubirch client in `src/`:
- the HTTP service that signs hashes as UPPs (ubirch protocol packets), chains them per device identity, and forwards them to the UBIRCH authentication service ("Niomon");
- the configuration loader that decides which devices the service accepts (current and legacy);
- the v1 client's goroutines, its shutdown and its restart loop;
- the v2 client's main: the chaining-job channel, the chainer and the shutdown sequence.

Each model comes with TLC configurations that check it on small instances. TLAPS proofs establish, for every size:
- the chain properties of the signing service, and its refinement of an abstract chain log;
- the v2 job-queue invariant;
- the persistence properties of the v1 client under graceful operation;
- the properties of both configuration loaders that their passing runs check, except TypeOK.

## 1. The system and its parts

| Part | Source | State it owns | Operations that change state |
|---|---|---|---|
| Chained signing route `POST /<uuid>` | `main/handlers/services.go` 24-66 (ChainingService), `main/handlers/signer.go` 84-143 | none of its own. It goes through the identity store and the context manager's per-identity transaction | checks (404/500/401/400), `SendChainedUpp` (StartTransaction, GetSignature, GetChainedUPP, SendUPP, SetSignature on 2xx, EndTransaction) |
| Signing route `POST /<uuid>/<op>` | `services.go` 75-143, `signer.go` 63-111 | none | checks, Sign, SendUPP |
| Identity store | `main/protocol.go` 56-135, `main/handlers/protocol.go` 64-108 | per identity: private/public key, auth token, last signature | SetSignature (after `checkSignatureLen`), SetPrivateKey, SetPublicKey, SetAuthToken, StoreIdentity |
| Context manager (transaction per identity) | interface only: `main/protocol.go` 37-54, `main/handlers/protocol.go` 32-43. The implementation is not in the repository | a lock per identity | StartTransaction, EndTransaction(success), SendChainedUpp |
| Backend client | `signer.go` 113-143 (the client itself is outside `src/`) | none | `sendToAuthService`: answer, timeout (504), or network error (500) |
| Configuration | `unnamed/part_001` (current), `main/config.go` (legacy) | the Config record | Load: loadEnv/loadFile, secret decoding, loadAuthMap, loadIdentitiesFile, checkMandatory, setDefault\* |
| v1 server | `main/main.go` 222-384, `main/api/ubirch_rest_api.go` | the `msgsToSign` channel (capacity 100), per-request response channels, a WaitGroup, and the protocol context saved at shutdown | sign handler, signer goroutine, shutdown |
| v2 main | `main/protocol.go` 166-336 (second file of the concatenation) | the `chainingJobs` channel (RequestBufSize), the chainer goroutine, the `elapsedTime` channel and timeTrack | request buffering, chaining, shutdown (`cancel`, `close(chainingJobs)` when Serve returns, `g.Wait`, `<-timeTrackCtx.Done()`, `Deinit`) |
| Restart script | `unnamed/part_000` 12-16 | none | restarts the client forever after it exits |
| Not modelled | `unnamed/part_002` (Postgres context), `part_003`/`part_004` (load tests), `.github/workflows/build.yml`, `main/vars` | | |

### How the parts interact

1. A request passes GetUUID, GetAuthToken, CheckAuth and GetHash (`httphelper/common.go`).
2. A chained request then enters the identity's transaction, so requests of one identity are serialised.
3. Inside the transaction, the request reads the last signature and signs a chained UPP with it. It sends the UPP to the backend and, if the backend answers 2xx, stores the new signature.
4. The transaction then ends.
5. The configuration decides which identities exist and what their tokens are.
6. The restart script brings the process back after a crash. Only what was stored survives.

### What is hard in this code

- Concurrent requests of one identity.
- A timeout racing a backend that has already accepted.
- A failure between acceptance and storage.
- Error paths inside the transaction.
- Crashes.
- Configuration read from two directories.

PROJECT.json lists the hazards, each with the line where it bites.

## 2. Modules

### ChainSigner: the signing service

The model covers `ChainingService`, `SigningService`, `Signer` and the signature accessors of `ExtendedProtocol`.

**Constants**
- `Req` is a set of requests.
- `Uid` is a set of identities.
- Signatures are abstracted: `Zero` is the registered all-zero signature, `Empty` is a value of the wrong length, and each request stands for the signature of its own UPP.
- `InitSig[u]` is the signature identity `u` was stored with at registration: `Zero`, or the corrupt value `Empty`, which sends every chained request of `u` down GetSignature's error path.
- `MaxCrash` bounds the number of crashes.

**Variables**

| Variable | Meaning |
|---|---|
| `pc[r]` | where handler `r` is |
| `uid[r]` | the identity `r` chose |
| `prev[r]` | the previous signature put in `r`'s UPP |
| `code[r]` | SendUPP's status |
| `resp[r]` | the HTTP answer |
| `lock[u]` | the transaction holder of identity `u` |
| `tip[u]` | the stored last signature of `u` |
| `accepted` | UPPs the backend stored |
| `committed` | UPPs whose signature was stored locally |
| `crashes` | the crash count |

**Actions, with the code each one models**

| Action | Code |
|---|---|
| `RejectRequest` | the early returns of GetUUID, GetAuthToken, CheckAuth, GetHash and getOperation |
| `ReceiveChained` | ChainingService up to `SendChainedUpp` |
| `StartTransaction` | ContextManager, modelled from the spec |
| `SignChained` | `GetSignature`, including the `checkSignatureLen` error that ends the transaction with 500 |
| `SendChained` | GetChainedUPP and SendUPP: the backend answers 200/400/500, times out (504), or fails (500). Any answer may follow the backend storing the UPP, because a timeout does not mean "not stored" |
| `EndTransaction` | a 2xx answer stores the signature (SetSignature) and answers 200, or answers 500 if the write fails; anything else answers the status. The lock is released on every path |
| `ReceiveSigned`, `SignAndSend` | the signing route |
| `Crash` | the restart loop: in-flight handlers vanish and the locks are lost; stored signatures and the backend's record remain |

**Properties**

| Property | Kind | Statement |
|---|---|---|
| `ChainLinked` | invariant | per identity, the committed UPPs form one chain from `InitSig`: distinct predecessors, all in the chain, the tip the one UPP nobody points to |
| `CommitOnlyAfterAccept` | invariant | the client stores only signatures of UPPs the backend accepted |
| `ReceiptsNoFork` | invariant | no two requests of one identity that both got a chained receipt (200) name the same previous signature |
| `AllAnswered` | liveness | every request is eventually answered |
| `RefinesChainLog` | refinement | the service implements `ChainLog` (below) |
| `PublishedNoFork` | invariant (violation run) | no two UPPs of one identity that the backend accepted share a predecessor |

### ChainLog: what the chained route promises

`ChainLog.tla` is an abstract specification with no handlers, locks, timeouts or crashes. It has three variables:
- `published`: the UPPs the backend stored;
- `log`: a set of entries `<<u, p, s>>`;
- `tip[u]`: the last stored signature of identity `u`.

It has two actions:
- `Publish(s)`: the backend stores `s`.
- `Append(u, s)`: appends a signature that is published and not yet in the log, and links it to the current tip of `u`.

ChainSigner maps onto it by `Abs == INSTANCE ChainLog WITH log <- StoredLinks, published <- accepted`. Here `StoredLinks` is `{<<uid[r], prev[r], r>> : r ∈ committed}`, and `tip` maps to itself. The property `RefinesChainLog == Abs!Spec` then says four things:
- every commit of EndTransaction is an `Append`;
- every acceptance by the backend is a `Publish`;
- every other step leaves the log, the tips and the published set alone;
- a crash never removes or changes a stored link.

### ConfigLoad: `Config.Load` of `unnamed/part_001`

Load is modelled as a sequential program over a nondeterministic environment, chosen in `Init`:
- the `UBIRCH_SECRET` and `UBIRCH_AUTH_MAP` variables;
- the files present in the configuration directory and in the working directory;
- their contents, as small constant sets given by the MC module.

There is one action per helper, in Load's order. Every early `return err` goes to result `"error"`, and an index panic goes to `"panic"`. The loops that copy a decoded map into `c.Devices` are `Overwrite(old, new)`: an entry of the decoded map replaces the entry with the same key.

Properties:
- `IdentitiesHonoured`: identities.json in the configuration directory wins.
- `IdentitiesHonouredFromConfigDir`: the same, for a client started in its configuration directory (what the start script and the container do).
- `NoPanic`: Load never panics.

### ConfigLoadLegacy: `Config.Load` of `main/config.go`

This is the same sequential shape, with the legacy steps: source selection by `UBIRCH_DEVICES`, secret decoding, checkMandatory, and setDefaultURLs.

A URL and an Env value are kept as what `strings.Split(_, ".")` makes of them: the sequence of their dot-separated labels. `fmt.Sprintf` of a URL template is then the concatenation of the template's labels around Env's labels. An empty Env, or one holding a dot, therefore splits the way the Go string does.

setDefaultURLs has three outcomes:
- it replaces Env with the second label of the Niomon URL;
- it panics when the Niomon URL has no dot;
- it fails when that label is not a stage.

The key and verification URLs are formatted after Env was replaced (`ServiceEnv`). An unset URL field gets its formatted default (`OrDefault`). `URLDefaults` is the configuration setDefaultURLs returns with. `LegacyAssumption` says that every configuration the source can hold has the fields of the `Config` struct.

Properties:
- `TypeOK`: Load runs its steps in order and returns once; the configuration it works on is one the sources can produce.
- `LegacyNoPanic`: Load never panics.

### V1Server: the v1 client (`main/main.go` 222-384, `main/api/ubirch_rest_api.go`)

The module models the following processes:
- main: go signer, `wg.Add(1)`, go server, `wg.Add(1)`;
- the HTTP server goroutine: listen, `Shutdown` on ctx.Done, `wg.Done`;
- the shutdown goroutine: signal, `cancel()`, `wg.Wait()`, SaveContext, `os.Exit`;
- the signer goroutine: take from `msgsToSign`, sign with the in-memory last signature, send, answer on the response channel; on ctx.Done, `wg.Done`. A send has three outcomes (`SignerSend`): the backend rejects the UPP; it stores it and answers in time, and the new signature becomes the in-memory tip; or it stores it and answers after the client's timeout, and the signer sees an error and keeps the old tip;
- one handler per request: reject, or accept and enqueue on the bounded channel, then wait for the answer;
- the restart script (`part_000`): a stopped process boots again and reads protocol.json (`saved`).

Kills and failed SaveContexts (`os.Exit(1)` after the error log) share the budget `MaxFault`. `WaitGroupPanic` is the `wg.Done()` on a zero counter, which is reachable when the signal comes before main's `wg.Add`. When the process ends, waiting handlers lose their connection.

Properties:
- `ExitPersistsAll`: at `os.Exit(0)`, protocol.json holds every committed signature.
- `TipAdvances` (action property): a step that changes an identity's in-memory last signature sets it to a UPP the backend accepted in that very step, chained to the signature it replaces. This covers the LoadContext of a restart as well: a restart never takes a chain back.
- `AllAnswered`: every accepted request is eventually answered, or dropped by the end of the process.

### ChainerQueue: the v2 main (`main/protocol.go` 166-336)

The v2 client does not sign in the handler: ChainingService sends the request on the buffered channel `chainingJobs` and one chainer goroutine signs the jobs in order. The chainer, the handler and v2's `HTTPServer.Serve` are not in the repository. They are modelled from the spec, using net/http's semantics:
- `Shutdown` makes Serve return at once, while handlers of open connections still run;
- a send on a closed channel panics, and net/http recovers a handler's panic by dropping the connection.

| Variable | Meaning |
|---|---|
| `mpc` | main: start, `g.Wait`, `<-timeTrackCtx.Done()`, Deinit, exited |
| `cancelled` | the errgroup context was cancelled by a signal |
| `srv` | the server goroutine: listening, returned (its deferred close has run) |
| `jobs`, `jobsClosed` | the contents of `chainingJobs` and whether it is closed |
| `cpc`, `job` | the chainer: ranging over the channel, chaining `job`, returned |
| `elapsedClosed`, `tracking` | `elapsedTime` closed (by the chainer on return); timeTrack still ranging |
| `hpc[r]` | handler of request `r`: idle, about to send, waiting for its answer, answered, dropped, panicked |

`Start` is main from `context.WithCancel` to the second `g.Go`. `ServerReturn` is Serve returning on ctx.Done, followed by the deferred `close(chainingJobs)`. `Enqueue` is the send: it blocks while the buffer is full, and on a closed channel the handler panics. `ChainerRespond` stands for chaining one job (signing, sending and committing, which ChainSigner models) and answering its handler. `ClientCancel` is a client that gives up while its handler is blocked on a full buffer. `Deinit` ends the process, and the handlers still running lose their connections.

Properties:
- `JobsAccountedFor` (invariant): a handler waits for an answer exactly when its job is in the channel or in the chainer's hands. Closing the channel on server return therefore never strands an enqueued job.
- `EnqueuedAnswered` (liveness): every handler that enqueued gets its answer, even when the shutdown comes while jobs are buffered. This holds because the chainer drains the closed channel before it returns.
- `ShutdownCompletes` (liveness): after a signal, main reaches Deinit and exits. The chain of events is: the server returns, which closes `chainingJobs`; the chainer drains it and returns, which closes `elapsedTime`; timeTrack returns, which cancels `timeTrackCtx`.

A handler that passed its checks just before Serve returned sends on the closed channel and panics (`hpc = "panicked"`). The run reaches this state. It is not recorded as a finding, because the handler's code is not in the repository. Under net/http's recovery the effect is a dropped connection, and no job is lost.

## 3. Runs

| Run | Checks | Result |
|---|---|---|
| `chain_core` (`MCChainSigner.cfg`) | 3 requests, 2 identities (one stored with a corrupt signature), 1 crash: TypeOK, ChainLinked, CommitOnlyAfterAccept, ReceiptsNoFork, AllAnswered, RefinesChainLog | pass |
| `chain_timeout_fork` (`MCChainSignerFork.cfg`) | 2 requests, 1 identity: PublishedNoFork | **violation**, see the findings below |
| `config_any_cwd` (`MCConfigLoad.cfg`) | every environment, any working directory: TypeOK, IdentitiesHonouredFromConfigDir | pass, about 1.2M states |
| `config_cwd_identities` (`MCConfigLoadCwd.cfg`) | any working directory: IdentitiesHonoured | **violation** |
| `config_auth_panic` (`MCConfigLoadPanic.cfg`) | NoPanic | **violation** |
| `legacy_config` (`MCConfigLoadLegacy.cfg`) | TypeOK | pass |
| `legacy_config_panic` (`MCConfigLoadLegacyPanic.cfg`) | LegacyNoPanic | **violation** |
| `v1_graceful` (`MCV1Server.cfg`) | 2 requests, 1 identity, channel capacity 1, 1 restart, signals only after startup, no faults: ExitPersistsAll, TipAdvances | pass |
| `v1_faults` (`MCV1ServerFaults.cfg`) | as above, with 1 fault (kill or failed save) and signals at any time: TypeOK, AllAnswered | pass |
| `v1_early_signal` (`MCV1ServerEarlySignal.cfg`) | signals at any time: ExitPersistsAll | **violation** |
| `v1_kill_fork` (`MCV1ServerKill.cfg`) | 1 fault: TipAdvances | **violation** |
| `chainer_queue` (`MCChainerQueue.cfg`) | 3 requests, buffer capacity 1, a signal at any time: TypeOK, JobsAccountedFor, EnqueuedAnswered, ShutdownCompletes | pass |

### Bounds

**Chain runs.** Three requests on two identities are enough for:
- two requests to contend for one identity while a third uses the other;
- a crash in any position;
- a retry after a failure.

Chains longer than three links add nothing new: each step of the chain property involves at most two requests of one identity. Identity `u1` is registered with the zero signature and `u2` with a corrupt one. So one run covers both the chain on a healthy identity and the error path of GetSignature, which must still release the lock and answer.

**Config runs.** The configuration inputs are chosen so that every branch of Load is taken:
- with and without devices, keys, a valid secret and a valid stage;
- an auth map with a short entry;
- identity lists that add a device, override one, or repeat a uuid.

**Legacy config run.** The Env values are empty, a stage, an unknown word and a dotted value. The Niomon URLs are unset, a stage's URL, a custom URL and an IP address URL. This covers every branch of setDefaultURLs and the case where a custom Niomon URL changes Env.

**v1 runs.** There are two requests of one identity and a channel of capacity 1:
- the second request blocks on a full channel;
- two UPPs of one identity can name the same predecessor.

**Chainer run.** There are three requests and a buffer of capacity 1. So at the moment of shutdown, one job can be in the chainer, one in the buffer, and one handler blocked on the full buffer, which then panics when the channel is closed or sees its client give up. A larger buffer only lengthens the drain. The proofs cover every capacity and every number of requests.

One restart (`MaxBoot = 1`) is enough for a state from before a kill to be reloaded. `EarlySignal` decides whether a signal may arrive before main finished starting up.

### Fairness

`Spec` assumes weak fairness of each handler step after the request arrived (StartTransaction, SignChained, SendChained, EndTransaction, SignAndSend). The justification is in the code:
- a Go handler goroutine keeps running;
- the backend client has a timeout, so a send always returns.

There is no fairness on arrivals or on crashes.

In V1Server, every goroutine step has weak fairness:
- main;
- the server;
- the shutdown goroutine after the signal;
- the signer;
- a handler's enqueue.

The Go scheduler runs every runnable goroutine. Signals, faults, restarts and request arrivals are not forced.

In ChainerQueue, weak fairness is assumed for the following steps, for the same reason:
- main's steps;
- the server goroutine's return once ctx is done;
- the chainer's take, respond and return;
- timeTrack's return;
- each handler's send.

Signals, arrivals and clients giving up are not forced. A handler's send is enabled only while the buffer has room or is closed. Weak fairness therefore does not promise a blocked sender that it gets in, and no property needs that. The properties need only that a send which stays enabled, such as one on a closed channel, is eventually taken.

### Deadlock checking

Deadlock checking is off in all runs:
- the server legitimately idles once every request is answered;
- Load returns;
- the v1 process may stay down once the restart budget is spent;
- the v2 process has exited after Deinit.

## 4. Findings

1. **Timeout after acceptance forks the chain** (`signer.go:117`). SendUPP turns a backend timeout into 504 and the signature is not stored, although Niomon may have stored the UPP already. The next UPP of that identity names the same predecessor, so the published chain forks. The spec claims the chained route leaves no "published but not persisted" state. TLC finds the fork with two requests and one timeout.
2. **identities.json is looked for in the wrong directory** (`part_001:289`, and the same pattern at 328/331 for auth.json). `os.Stat` checks the bare file name in the working directory, and `os.Open` reads it from the configuration directory. Started from elsewhere, Load succeeds and serves devices with the tokens of config.json.
3. **Short auth map entries panic** (`part_001:353`). `v[0]` and `v[1]` are read without a length check.
4. **A Niomon URL without a dot panics** (`main/config.go:134`). `strings.Split(c.Niomon, ".")[1]` is out of range, for example for `http://localhost:8080/`.
5. **A signal during startup loses signatures** (`main.go:374-375`). `wg.Add(1)` runs after `go ...` and after the shutdown goroutine is running. If the signal arrives first, `wg.Wait()` returns at once, SaveContext runs, and a request that the still-starting server accepts commits a signature that `os.Exit` drops. On the same path, a `wg.Done()` before its `wg.Add(1)` panics with a negative WaitGroup counter.
6. **A kill forks the chain after a restart** (`main.go:276`). The context is saved only at graceful shutdown. After a kill or a failed save, the restart script boots the client with the old last signature: the in-memory tip moves back (TLC finds TipAdvances violated), and the next accepted UPP names a predecessor that was already used.

## 5. Proofs (TLAPS)

`ChainSignerProofs.tla` extends ChainSigner. It uses only the assumption `ConstAssumption`:
- the marker constants are distinct and outside `Req ∪ Uid`;
- `InitSig ∈ [Uid → {Zero, Empty}]`;
- `MaxCrash ∈ Nat`.

### TypeCorrect: `Spec => []TypeOK`

TypeOK alone is not inductive: an action indexes `tip` and `lock` with `uid[r]`, which must be a real identity. The proof uses `TypeInv == TypeOK /\ UidSet`, where `UidSet` says a request past arrival has `uid[r] ∈ Uid`. Lemma `TypeStep` proves the inductive step one action at a time, with one sub-step per disjunct.

### ChainIntegrity: `Spec => []ChainLinked`

The inductive invariant is `ChainInv == TypeInv /\ LockInv /\ InFlight /\ Fresh /\ ChainLinked`:
- `LockInv`: a request inside a transaction holds its identity's lock. This is what makes two requests of one identity unable to read the same tip.
- `InFlight`: a request past GetSignature still has `prev[r] = tip[uid[r]]`. No one else could move the tip while it held the lock, and a crash removes it.
- `Fresh`: committed requests are done, so they never commit twice.

Two lemmas carry the proof:
- `ChainFrame`: actions that leave `committed`, `tip` and the committed requests' data alone preserve ChainLinked.
- `CommitKeepsChain`: the commit step of EndTransaction extends the chain of `uid[r]` by `r` and no other chain changes. It relies on `InFlight`: `r`'s predecessor is the old tip, which no committed UPP points to.

TLC checked ChainInv as an invariant on the `chain_core` instance before it was proved.

### CommitAfterAccept

This theorem is `Spec => []CommitOnlyAfterAccept`. It follows from the inductive invariant `ReceiptInv == TypeInv /\ CodeAccepted /\ RespShape /\ PrevShape /\ CommitOnlyAfterAccept /\ ReceiptImpliesCommitted`:
- `CodeAccepted`: a request whose SendUPP code is 200 was accepted by the backend. SendChained sets 200 only on the path where the backend stored the UPP; a timeout or an error code carries no such promise.
- `RespShape`: a handler that is not done has no answer yet. A handler therefore answers once, and a 200 is never left over from an earlier step.
- `PrevShape`: `prev[r]` is `None` until GetSignature of a chained request sets it. A 200 of the signing route, which has no predecessor, therefore never counts as a chained receipt.

Lemma `ReceiptStep` proves the inductive step one action at a time. A crash keeps all these facts, because `accepted` and `committed` survive it and in-flight requests vanish. TLC checked ReceiptInv on the `chain_core` instance (389k states) before it was proved. Its last conjunct, `ReceiptImpliesCommitted` (a chained 200 means the request was committed), is a proof helper defined in `ChainSignerProofs.tla`, not a checked property.

### ReceiptsDoNotFork

`Spec => []ReceiptsNoFork`. Two chained requests of one identity that both received a 200 are both committed (ReceiptImpliesCommitted). Both are then in `CommittedOf(u)` for their identity `u`, and ChainLinked says the committed UPPs of `u` have distinct predecessors. ChainLinked speaks only of identities in `Uid`, so the proof adds `CommittedUid` (every committed request has an identity in `Uid`), kept by every step (lemma `CommittedUidStep`). The theorem combines `Invariants` with this by PTL. The mutant that ignores the SetSignature error breaks it: the 200 comes without the commit.

### Refinement: `Spec => RefinesChainLog`

The initial states map to `Abs!Init`, since nothing is committed or accepted. Lemma `RefineStep` shows `ChainInv /\ ReceiptInv /\ [Next]_vars => [Abs!Next]_Abs!logVars`. The steps fall into four groups:
- Steps that change neither `committed`, `tip` nor `accepted` are stutters (lemma `LogFrame`).
- A SendChained or SignAndSend that adds its request to `accepted` is `Publish(r)` (lemma `LogPublish`).
- The commit of EndTransaction is `Append(uid[r], r)`, and each part of Append has its own source:
  - `r` was published: by `CodeAccepted`;
  - `r` is not in the log yet: by `Fresh`;
  - the new link is `<<uid[r], tip[uid[r]], r>>`: by `InFlight`, `prev[r]` is the tip.
- A crash is a stutter: it changes neither `committed` nor `tip`.

The theorem combines `Invariants == Spec => [](ChainInv /\ ReceiptInv)` with RefineStep by PTL.

### V1ServerProofs: `GracefulExitPersistsAll`, `GracefulTipAdvances` and `TypeCorrect`

`V1ServerProofs.tla` proves two theorems under the hypothesis `Graceful == MaxFault = 0 /\ EarlySignal = FALSE`, for every set of requests and identities, every channel capacity `QCap` and every restart bound `MaxBoot`:
- `Spec => []ExitPersistsAll`;
- `Spec => TipAdvances`.

Graceful is exactly the configuration of the passing run `v1_graceful`. The violation runs `v1_early_signal` and `v1_kill_fork` show that neither theorem survives dropping its half of it.

The invariant for ExitPersistsAll is `ExitInv == TypeInv /\ StartupShape /\ SavedShape /\ DownShape`. `StartupShape` is the heart of it. Under `EarlySignal = FALSE`:
- the signer and the server are started, and `wg.Add`ed, before the shutdown goroutine can act;
- the WaitGroup counter equals the number of signer and server goroutines still running;
- `wg.Wait()` therefore returns only once the signer has returned;
- after that, `tip` no longer changes.

`SavedShape` then says that once SaveContext has run, `saved = tip`. With no faults, every process end is a graceful exit that has saved. The lemma `NoWaitGroupPanic` shows that the counter is positive whenever a goroutine is about to call `wg.Done()`, so the WaitGroupPanic step never happens. Lemma `ExitStep` has one step per action and one sub-step per conjunct.

GracefulTipAdvances uses `TipInv == ExitInv /\ Unsent /\ QueueShape /\ SendingShape`:
- queued requests are not yet accepted and are pairwise distinct (`Unsent`, `QueueShape`);
- the request being sent is unaccepted until its send and names the current tip (`SendingShape`).

Lemma `SendStep` proves that every step keeps these three facts, and lemma `TipInvariant` gives `Spec => []TipInv`. The action property then follows from lemma `TipStepHolds`, which covers each kind of step:
- the signer's send that the backend answers in time moves the tip to the UPP it sent, which `SendingShape` says names the old tip;
- a send answered after the timeout, or rejected, leaves the tip alone;
- a restart sets the tip to `saved`, which `SavedShape` says equals the tip while the process is down;
- no other step touches the tip.

Graceful is needed here as well: with one kill allowed, a restart reloads an older protocol.json and moves the tip back. This is the rollback behind the `v1_kill_fork` finding. The late answer is not covered by a property: a UPP that the backend stored after the client's timeout is published while the tip stays behind it, so the next UPP of that identity repeats its predecessor. This is the same timeout fork that `chain_timeout_fork` shows for the v2 chained route.

`TypeCorrect` (`Spec => []TypeOK`) holds without Graceful: it covers kills, failed saves, WaitGroup panics and early signals. TypeOK bounds the WaitGroup counter by 2, and that bound is not inductive. The invariant is `FaultInv == TypeInv /\ WgBound`. `WgBound` says the counter is at most the number of `wg.Add(1)` calls main has made in this boot: 0 before the signer is added, at most 1 before the server is added. Each of `wg.Add`, `wg.Done` and a restart, which resets it to 0, keeps that. A `wg.Done` on a zero counter is the WaitGroupPanic step. Like a kill, a failed save and os.Exit, it ends the process, and lemma `EndsFaultInv` covers all four. Lemma `FaultStep` has one case per action. TLC checked FaultInv on `v1_faults`, `v1_early_signal` and `v1_kill_fork`, and on an instance with capacity 2, 2 boots and 2 faults (35k states), before it was proved.

### ConfigLoadProofs: `IdentitiesFileHonoured` and `LoadTypeCorrect`

`ConfigLoadProofs.tla` proves `Spec => []IdentitiesHonouredFromConfigDir` from `ConfigAssumption` alone, for every set of devices and tokens and every content the files and the environment can hold.

Load is sequential, so the inductive invariant `IInv` records, for each fact a later step relies on, the step that established it:
- `Fields`: the configuration has the Config fields from loadEnv/loadFile on.
- `Progress`: Load is running until it returns.
- `HonouredShape`: once identities.json was merged, every one of its entries is in the device map. This applies only when the client was started in its configuration directory, so that os.Stat and os.Open look at the same file. Lemma `OverwriteNew` gives the merge fact.

`StepIInv` has one case per helper. TLC checked IInv on the `config_any_cwd` instance (1.2M states) before it was proved.

`LoadTypeCorrect` (`Spec => []TypeOK`) uses `TInv == IInv /\ pc \in PCs /\ result \in Result /\ cfg \in Config`. TLC checked TInv on `config_any_cwd` first. The step for each merge rests on four lemmas:
- `LastIndexExists`: a nonempty set of indices `S ⊆ 1..n` has a largest element. It is the least-number principle applied to `{n - i : i ∈ S}`, and comes from the library's `WFMin` with `NatLessThanWellFounded`, with no operator parameter involved.
- `IdentityMapType`: with LastIndexExists, IdentityMap's CHOOSE of the last entry for each uuid picks a real index. A decoded identities.json therefore maps devices to passwords.
- `AuthTokens`: an auth.json entry of length two is `["key", token]`. The map that loadAuthMap merges is therefore a device map, and its keys are devices.
- `OverwriteDeviceMap` and `ConfigUpdate`: the merge loops and the record updates keep a Config a Config.

### ConfigLoadLegacyProofs: `LegacyTypeCorrect`

`LegacyTypeCorrect` (`Spec => []TypeOK`) is proved for every configuration `LegacyAssumption` admits. Its invariant adds one fact to TypeOK: from the decoded source up to setDefaultURLs, the configuration is the source's, so every step that reads it reads a configuration with the fields of `Config`. TLC checked the invariant on the `legacy_config` instance first.

### ChainerQueueProofs: `ChainerTypeCorrect` and `NoJobLost`

`ChainerQueueProofs.tla` proves `Spec => []TypeOK` (including `Len(jobs) <= RequestBufSize`) and `Spec => []JobsAccountedFor` for every `Req` and every `RequestBufSize \in Nat \ {0}` (`ChainerAssumption`).

JobsAccountedFor is not inductive by itself. The proof uses `IInv == TypeOK /\ NoDuplicate /\ ChainerShape /\ JobsAccountedFor`, and each added conjunct has a reason:
- `NoDuplicate`: no request is twice in the buffer, or both in the buffer and in the chainer. Without it, taking one copy would leave the other job without a waiting handler.
- `ChainerShape`, first part: the chainer holds a job exactly when it is chaining.
- `ChainerShape`, second part: once it has returned, the channel is closed and empty, and main is past `g.Wait` only after the chainer returned. This is what makes `Deinit`, which drops every unfinished handler, unable to drop a waiting one whose job is still queued.

Lemma `Frame` covers the steps that touch none of `jobs`, `job`, `hpc` and `cpc`. Lemma `StepIInv` has one case per action. TLC checked IInv as an invariant on the `chainer_queue` instance before it was proved.

### Limits of the prover

The following stay with TLC:
- `AllAnswered`, `EnqueuedAnswered` and `ShutdownCompletes` (liveness under fairness);
- V1Server's persistence properties without `Graceful`, where they fail;
- the violation runs.

TLAPS does not handle liveness with ENABLED, nor induction over data. Induction over data is needed for what a recursive definition computes; the library's induction theorems take an operator parameter, which the installed provers cannot instantiate. Where a proof needs a least or largest element, as the configuration's TypeOK does, `WFMin` of WellFoundedInduction gives it without one.

## 6. Plan for what is not yet modelled

1. **ChainerQueue composed with ChainSigner.** The chainer's respond step replaced by ChainSigner's transaction, so that Deinit's persistence of the last signatures can be related to the chain.
2. **HashExtract.** GetHash's classification of hash and data requests (`common.go` 101-165), checked against a reference over small inputs.
3. **Registrar and identity store setters.** StoreIdentity with its signature check, against the empty genesis signature of the spec.
4. **LoadContext failure.** The v1 boot when protocol.json is missing or unreadable.
5. **More proofs.** Safety of the v1 client under faults in the form it keeps (a kill loses at most the signatures since the last save), and the refinement of ChainerQueue by the composed model of item 1.
