# Trustline in TLA+

Trustline (Ep2pchat) is an end-to-end encrypted messenger: a Rust backend
(`crates/backend`: Axum, PostgreSQL, NATS), a cryptographic library
(`crates/crypto_core`: X3DH and the Double Ratchet) and a Tauri/React desktop
client (`apps/desktop`). This directory holds models of it in TLA+, the TLC
runs that check them on small instances, and theorems that TLAPS proves for
all of them. Paths below are relative to the repository; `ws.rs`, `auth.rs`,
`admin.rs`, `users.rs`, `keys.rs` are those of `crates/backend/src`.

Run one model with `tlc -config MCRouterSafety.cfg MCRouter`, check the proofs
with `tlapm Router_proofs.tla`. `PROJECT.json` lists the components, the runs,
for each property a mutation of the model that breaks it, the source lines of
every definition, the disagreements found, the hazards and the theorems.

## 1. The system

| part | state it keeps | operations | talks to |
|---|---|---|---|
| Double Ratchet (`ratchet.rs`, Tauri `ratchet_*`) | `RatchetSession`: root key, two chains with counters, skipped keys | init as sender/receiver, encrypt, decrypt | called by the client with the session as JSON; it keeps nothing itself |
| X3DH (`crypto_core/lib.rs`, Tauri `alice_x3dh`, `bob_x3dh`) | none | the two ends of the agreement | key bundles from the server, secrets from the vault |
| client conversation (`ChatArena.tsx`, `useChat.ts`, `crypto_orchestration.ts`) | ratchet row in the vault, a promise queue for incoming messages | send a text, send an event (edit, delete, reaction), take an incoming message | vault, Tauri commands, socket |
| client socket (`socket.ts`) | `this.ws`, `reconnectTimer`, `outboundQueue` | connect, send, onopen, onclose, destroy | backend `/ws`, sign-in and logout |
| client outbox and message list (`useChat.ts`, `useChatWorkflows.ts`, `ChatArena.tsx`, `vault.ts`) | rows of messages and edits, the list with temporary ids, badges | send, edit, delete, open a conversation, take confirmations, statuses and messages | vault, socket, stores |
| sign-in and devices of a client (`AuthFlow.tsx`, `OnboardingScreen.tsx`, `useAppInitialization.ts`, `api.ts`) | the screen, session, token, keys and device id in memory and in the vault | request, register, log in, wizard, load, log out, revoke | `auth.rs`, `users.rs`, vault, socket |
| administration console (`features/admin`) | one list for all tabs, the selected user and his devices, a spinner | fetch, approve, deny, show, revoke, reload | `admin.rs`, the error boundary |
| message router (`ws.rs`, `nats.rs`) | registry of connections per instance, `encrypted_messages` | authenticate, register, flush pending, route live, ACK, READ, heartbeat, clean-up | database, NATS between instances, `admin.rs` and `users.rs` for revocations |
| presence and typing (`ws.rs`) | `users.presence` | set at registration and clean-up, forward typing | the registry |
| admission and sessions (`auth.rs`, `admin.rs`, `users.rs`) | `users.status`, `devices.is_active`, `sessions`, `auth_challenges`; per process a bootstrap flag and a rate limiter | request, approve, deny, register, challenge, verify, bootstrap, logout, revoke | the database; every other handler through `AuthContext` |
| pre-keys (`keys.rs`, Tauri `check_and_replenish_otpks`, `otpk.ts`) | `one_time_pre_keys`, `otpk_private_keys` in the vault | count, upload, fetch and delete, store, consume | X3DH |
| stories (`stories.rs`, `useStoryWorkflows.ts`) | `stories`, story keys in the vault | post, list, share a key | registry, ratchet |
| vault (`vault.ts`, `vault_key.rs`) | SQLite rows | single statements, three transactions | everything in the client |

A message's life: Alice's client encrypts with the session it read from its
vault, saves the session, saves the message under a temporary id, sends
`MESSAGE_SEND`, or queues it while there is no connection; the server stores the
row, sends `MESSAGE_CONFIRM`, upon which the client renames the row, and pushes
`MESSAGE_RECEIVE` to Bob's connection on its own instance, or publishes it to
NATS for the others. Bob's client decrypts, saves its session, saves the
message, sends `MESSAGE_ACK`; only then the server sets `delivered_at`. What is
not acknowledged is flushed again when Bob connects again.

What is hard in it: a connection is three tasks that are aborted at any await;
a device may have two connections while an old one is dying; database and live
delivery are two paths that must neither lose nor invent a message; the
ratchet's state is read, used and written back across awaits on both sides;
every handler of the backend is a sequence of separately committed queries;
every handler of the client is cut at its awaits, goes on after the component
it was started from is gone, and writes to stores that others have changed
since. The hazards in `PROJECT.json` name the lines.

For each part, what makes it correct: the ratchet opens every message in reach
once and keeps no key it should have forgotten; the handshake gives both ends
one secret; a client keeps what it has used a key for; frames leave in the
order they were sent and a logout ends the connection; a message of one's own
is in the vault and once on the screen, and nothing is received unseen; session,
token and keys are one identity; the console shows what the server holds; the
router delivers what it has confirmed and marks delivered only what was
decrypted; access ends when it is revoked and nobody gets in without approval; a
one-time key is used once and its private half exists. Not modelled: presence
says offline only for who is, a story key reaches its readers.

## 2. The modules

| module | models | instance, proofs |
|---|---|---|
| `Ratchet` | `ratchet.rs` as operators on a session record; keys, chains and ciphertexts are symbolic terms | – |
| `RatchetPair` | two sessions, each operation one step, over a network that reorders, withholds and repeats | `MCRatchet`, `RatchetPair_proofs` |
| `Conversation` | the two clients around the sessions, one step per await on the vault; instantiates `RatchetPair` as its abstraction | `MCConversation`, `Conversation_proofs` |
| `X3dh` | the agreement and its two Tauri commands | `Prekeys_proofs` |
| `Socket` | the client's connection object, its queue, and the browser's sockets behind it | `MCSocket`, `SocketConsole_proofs` |
| `Outbox` | rows, temporary ids, list, badges, edits of one user's client | `MCOutbox`, `Outbox_proofs` |
| `Signin` | the way in and out of one installation | `MCSignin`, `Signin_proofs` |
| `Console` | the administrator's panel over a cut-down server | `MCConsole`, `SocketConsole_proofs` |
| `Mailbox` | the abstract contract of one-to-one messages: post, take, receipt | – |
| `Router` | the router and the clients' sockets; instantiates `Mailbox` as its abstraction | `MCRouter`, `Router_proofs` |
| `Access` | admission, devices, challenges, sessions, bootstrap, limiter | `MCAccess`, `Access_proofs` |
| `Prekeys` | one-time pre-keys of one user's devices | `MCPrekeys`, `Prekeys_proofs` |

How they fit together: `Router` takes a client's frames as they come, which
`Socket` shows to be in the order of `send`; `Outbox` takes the server as
anything that stores a sent message at any later time and then sends events
about it, which is what `Router` does; `Conversation` and `RatchetPair` take a
network that reorders and repeats, which covers the router's flushes;
`Console`'s server is `Access` cut down to what lists show; `Signin` calls the
server of `Access` and uses of the socket only that it is on or off. Two
compositions are checked and proved as refinements: `Router` implements `Mailbox`, and
`Conversation` implements `RatchetPair` until a stored session is overwritten by an
operation that has not read it, or used without being saved.

Operators whose comment begins "A faulty ..." are no part of the model: they
are the mutations of section 4.

### Ratchet and RatchetPair

A session is a record with the fields of `RatchetSession`. A Diffie-Hellman
output is the set of its two secrets, a chain key is its root and the number
of KDF steps, so that equality of keys is equality of terms and what can be
derived from a stored session is decidable (`Derivable`). `Decrypted` follows
`decrypt` line by line: buffered key, skip on the old chain, turn, skip on the
new one, step; `Decrypts` is when the tag verifies and the gap is within
`MAX_SKIP`. `Receive` of `RatchetPair` applies the new session only on
success, as `processIncomingMessage` does by saving the session it got back.

`Label` is the associated data of each end; `ratchet_safety` takes one value for
both, which is what `ratchet.rs:253` asks for. The desktop client passes
something else, and with that nothing opens (next module, and section 7).

`MAX_SKIP` limits one gap (`ratchet.rs:331`), not the buffer: two gaps on one
chain keep more than `MAX_SKIP` keys, in spite of the constant's comment
(`ratchet.rs:19`). `BufferIsTheGap` says exactly which keys are kept.

### Conversation

An operation of a client runs in a `Slot`: `StartText` and `StartEvent` read
the row and encrypt, `SaveSent` writes it, `Transmit` sends. `DecryptNext` is
the head of `incomingMessageQueue`, `SaveReceived` writes the session,
`StoreReceived` the message. Both users may write first, a client has as many
operations under way as it has slots, and every call of the vault may fail
(`MaxFaults`): a read of the row that fails is taken for no row, as
`.catch(() => null)` takes it, and a text is sent although the save failed. An
operation holds only what it read; what it makes of it is worked out in the step
that saves, so that the states of operations on the way are few.

`strayed` is set when a stored session is overwritten by an operation that has not
read it, when a text is sent whose session could not be saved, and when Bob has
opened the conversation as well. Nothing in the code prevents any of these, and
`conversation_race` shows what comes of the first; the properties that speak of
keys and of `RatchetPair` say that nothing else leads there: not operations that
overlap, not a crash between any two steps, not a read that fails without a save
after it, not redelivery. `torn` are the messages whose key was used and whose row was
not written, by a crash or a failing store. `SessionOf` and `Pair` are the refinement
mapping.

**The labels.** What the client passes is `ClientLabel`: `sendMessage` binds a message
to the recipient's id (`ChatArena.tsx:163`), `processIncomingMessage` expects it bound to
the sender's (`crypto_orchestration.ts:66`). No tag verifies, and nothing that is sent is
ever opened or stored; `ClientLabelsOpenNothing` proves it. `conversation_race`
has these labels. `conversation_safety` has `SharedLabel`, the id of the
conversation at both ends, which is a correction and not the code: what a client does with
a message it can open is the same code either way, and would otherwise never
run. What holds in that run therefore holds of the steps around the vault, not of
the application as it is. The same goes for the handshake, whose ends are taken to
agree as in `crypto_core`; those of the client do not (`ClientsDisagree`). A first
message brings its ephemeral key along as `first`; in the client it is `ChatArena.tsx`
that puts it in the payload.

### X3dh

A public key is the name of its secret and the curve its bytes are a point
of. `DoDh` commutes for Montgomery points only. `AliceX3dh` and `BobX3dh` do
the conversions the commands do. Other modules assume a handshake that gives
both ends one secret, which `crypto_core` alone provides (theorem
`X3dhAgrees`) and the two commands do not (theorem `ClientsDisagree`). There is
no run for it: there is no state to explore, and the theorems hold for all keys.

### Socket

`net[c]` is a socket of the browser, `ws` is `this.ws`. `connect` replaces `this.ws`
and leaves the former socket open with its handlers: the events of any socket
act on the one object, which is why `Opened(c)` and `Close(c)` take a socket and
read `ws`. `handleAuthenticated` calls `connect` at a login and again when the
wizard is done (`Authenticated`), which is how a socket is left behind.
`Destroy` closes the socket in `this.ws` only. A frame is the number of its call of
`send`, so that order is order of numbers.

### Outbox

Each handler is a job, cut at its awaits; `Handler(j)` is its next step. `row[m]` is
the row of a message with its id, "temp" until the confirmation renames it,
`list` the list on the screen, `mapped` the ids the store can resolve.
`Arrival` is what the socket brings: a confirmation, a status, a message.
A failing call is counted (`faults`), `Restart` ends the process at any point,
`SignOut` leaves jobs running as the code does. `crossed` is set when a history is
loaded while another load or a send is under way: it is where the code itself
gives no promise about the list (section 7).

### Signin

`flow[f]` is a handler of `AuthFlow` at one of its awaits; `Returns(f)` is the
answer, the failure or the lost answer. A handler whose component has been
unmounted goes on as an orphan and ignores what it would set. `loads`, `saving`,
`wizard`, `leaving` are the calls of `loadWorkspace`, the profile drawer, the wizard
and `handleLogout`. `vault` is what survives a `Restart`. `crossed` is set when two
handlers that open or end a session overlap. A restart counts as a fault (`fails`)
unless it is clean, that is, cuts no registration off and follows no overlap: only
the clean ones are in `restarts`, and `BoundOnOneMachine` allows any number of them.

### Console

`data` is the one list with the tab it was fetched for (`data.of`). `SetTab` starts a
fetch and does not clear the list. A tab's component throws on entries that lack
what it reads (`broken`: the `ErrorBoundary` replaces the panel). `crossed` says
that the newest fetch was not alone, outlived its tab, or that the database has
changed since; `mixed` the same of the drawer's request for devices.

### Router and Mailbox

`phase[c]` is how far `handle_socket` got on connection `c`; the steps between
are `Authenticate`, `Register`, `Flush`, `Subscribe` and, at the end, `EndTasks`
and `Cleanup`. `work[c]` is the envelope `recv_task` is handling and which await
it is at: `HandleSend`, `Persist`, `RouteMessage`; `HandleAck`, `HandleRead`,
`RouteStatus`; its tick is `Heartbeat`. `registry` is per instance. `nats` holds what is published and not
yet delivered to the subscribers of that moment; it does not replay. `Fault`
counts failing queries, lost publishes and clients that fail to decrypt.
`ws[d]` is `this.ws` of the client: `Reconnect` is the timer that makes a new socket,
`SignInAgain` is `handleAuthenticated` over an open one, which is left behind with its
handlers, so that a client may have two live connections. What it sends goes to
`ws[d]`, what arrives on either is taken, and the close of either forgets `ws[d]`
(`OnClose`). `connect` and its `onopen` are one step here; `Socket` takes them apart.
Slots (`Conn`) are reused. A socket's frames are sets: order inside one socket
is not distinguished, and a second copy is the same to a client that opens a
message once.

A revocation sends the connection it finds a `DEVICE_REVOKED` text and a Close
frame (`admin.rs:680`). The text is left out, as the client has no handler for it; the
frame is the `close` event, which ends the socket and is an `onclose`.
`MESSAGE_READ` is modelled though
the client never sends it: the ref with the active contact is never assigned
(`useAppInitialization.ts:19`), so the branch is dead at the moment.

### Access

A handler is a request slot (`req`), its steps are its queries; each commits
by itself. `Authorize` is `AuthContext`: the claims are the token's, the
session row must exist at that moment and is not looked at again. Access codes
and signatures are taken as right and clients as honest. A request that the code
refuses before it has changed anything is not a step: `BootstrapCheck` compares the
setup token first (`auth.rs:219`), then looks at the flag (224) and then asks the
limiter (228), so that an attempt with another token is neither counted nor slowed
down. `RateLimited` and `BootstrapGuarded` speak of requests that give the right
token and the administrator's email address; another address has a count of its own. `Approve` and
`DenyBulk` may go on to a next user, which is `approve_bulk` and `deny_bulk`.
`raced` are devices revoked while a handler was about to insert a session for
them: `RevokedHasNoSession` excludes those, and the run shows that only they
need it.

Behaviour worth knowing, which follows from the code and no document denies:
`login_verify` looks at the device and never again at the user's status, and
`deny_bulk` leaves a user's devices and sessions as they are, so a user denied
that way stays logged in and can log in again; a session of the bootstrap has
no device and no revocation reaches it; the flag and the limiter are per
process, a restart forgets both; an administrator may revoke his own device.

### Prekeys

`job[j]` is a replenishment (`Check`, `UploadCheck`, `Insert`, `Store`; `GiveUp` for
a lost request or answer, a vault that throws, or a client that ends),
`fetch[p]` a `GET` of the bundles in three steps: the devices, the rows the
`DELETE` picks in its snapshot, and the deletion, which skips rows another
transaction has deleted. `last_seen` is set when a device registers and never
again, so `Newest` is the device registered last: **an upload from an older
device is listed for the newer one**, which has no private half for it.
`KeyKept` therefore speaks of the device that made the key.

The flow is modelled as written; at this commit nothing triggers it:
`replenishOtpksInBackground` and `uploadKeys` have no callers (in spite of
`docs/architecture/ARCHITECTURE.md:38`) and `registerDevice` sends no one-time
keys, though the client stores their private halves. Using them would not work
either: the server replaces a key's UUID by a hash (`keys.rs:334-343`) and
drops `used_opk_id` from a message (`ws.rs:100-110`).

## 3. The runs

All bounds are constants named in the `.cfg` files and in the modules.

| run | instance | question | result |
|---|---|---|---|
| `ratchet_safety` | 4 messages each way, `MaxSkip` 2 | can what is in reach be read, once, in any order; which keys remain; is everything read in the end | holds |
| `conversation_safety` | 2 slots in each client, 2 messages each way, 1 crash, 1 failing call of the vault, one label | do the steps around the vault keep the ratchet's promises, and what can break them | holds |
| `conversation_race` | 2 slots, 3 messages, the client's labels, no fault | is each message key used once | violated |
| `router_safety` | 1 instance, sender 1 and receiver 2 slots, 1 message, 2 of: a drop, a fault, a second sign-in; revocation | receipts, registry, hand-over between table and live delivery, mailbox contract | holds |
| `router_liveness` | the same without faults and revocation; a drop and a second sign-in of the receiver | does a stored message arrive, does a stranded connection end | holds |
| `access` | administrator and user, 2 devices, 2 tokens, 1 challenge, 2 overlapping handlers, 5 requests, limiter of 2 per window, 1 restart | what tables, tokens and the flag promise each other | holds |
| `prekeys` | 2 devices, 4 keys in 2 batches, cap for one batch, 2 jobs, 2 fetches | one requester per key, private half kept, cap | holds |
| `socket` | 4 sign-ins, 5 frames | order, stray sockets, logout, does the queue drain | holds |
| `outbox` | 1 message each way, 3 handlers at a time, 2 openings, 1 failing call, 1 restart or sign-out | is what the server has in the vault and on the screen, once | holds |
| `signin` | 2 users, 2 handlers at a time, 3 in all, 1 change elsewhere, 1 fault | one identity, device and keys that belong together, nobody connected behind the login screen, no screen without a way out | holds |
| `signin_device` | no fault, one registration on another machine | does a machine go by its own device id | violated |
| `console` | 2 users, 3 devices, 2 handlers at a time, 4 clicks, 1 decision elsewhere, 1 fault | is what is shown true once it has settled | holds |

Each module defines a type invariant `TypeOK`; `router_safety` checks `Router`'s,
which is also proved. The others hold on the instances above, to be seen by
adding `TypeOK` to the INVARIANTS of a `.cfg`; they are left out there because the
other invariants would fail where a type did.

Why these bounds: a turn of the DH ratchet needs one message each way, a gap
beyond `MAX_SKIP` = 2 needs four on one chain, and the two together give every
branch of `decrypt`. The interleavings the conversation is about need two
operations of one client and one of the other, a message that opens it and one
that answers; a crash or failing call has its effect at once or at the next
redelivery, so one of each suffices. In the router
every race is between a connection and at most one other connection of the same
device, one message and one revocation; two messages do not interact except
through the sets they are in. With two slots a client that has a socket left
behind comes back when the server has cleaned up the one that closed; that it may be
back before is checked with one socket only, and for the safety properties
proved with any number. A sender that dies while its message is handled is in
`router_safety`, where `missed` records it; `router_liveness` leaves it out (`Fragile`),
as `EventuallySeen` excepts what was missed. In Access every race needs two handlers, and five
requests are a bootstrap or registration, an approval, a login and two more
to overlap. In Prekeys a cap race needs two batches, a double hand-out two
fetches. In Socket a second sign-in leaves one socket behind, a third shows that
it adds up, the fourth that a logout in between changes nothing. In Outbox a
message is sent, confirmed, edited and loaded, which are the three handlers that
can meet and the two openings that can overlap. In Signin two handlers can meet
and the third is the next login, which is where a wrong identity shows; users who
take turns on one machine need four handlers and more and are left to the proof.
In Console two fetches can meet, and four clicks are two tabs, a selection and a
decision. Symmetry is used for connection slots of one device, slots of a client, requests,
devices, tokens, keys, never in a run with a liveness property.

`CHECK_DEADLOCK FALSE` appears where the system may stop because nobody has
anything left to do.

Some invariants except a case the code makes no promise for, by a variable that
records it: `raced` and `met` (Access, Prekeys), `torn` (Conversation, Prekeys), `strayed` (Conversation),
`missed` (Router), `crossed` and `mixed` (Outbox, Signin, Console). The case is real and
section 7 says what happens in it; the invariant shows that only there it does.

### Fairness

- Router: weak fairness on a connection's next step (Tokio schedules every task
  that can go on; a connection is either in `handle_socket` or in `recv_task`), on
  delivery by NATS and on the client's reconnect (its `onclose` always sets a
  timer). Strong fairness on the client reading a socket: two connections of
  a client can end one another again and again, each clean-up removing the
  entry of the next, with a message flushed to each. For one round of that the
  server must take longer from a registration to the tick after it than the
  client's back-off of a second, and the client must not have read what was
  flushed; that both go on for ever is what the assumption excludes. None on
  composing, dropping, losing, revoking, signing in again.
- Conversation: none; its properties are all of safety.
- RatchetPair: a message that can be decrypted is redelivered until it is.
- Socket: weak on the timer, which goes off; strong on the opening of the
  socket in `this.ws`, since a client that tries again for ever meets a server
  that is up some time. Without it nothing could drain.
- Signin: an await ends, with an answer or a failure (requests have no
  time-out of their own, but the transport ends them). No user has to click.
- Console: a request is answered or fails.

## 4. Mutations

Every property of a passing run has a mutation, a plausible slip in the code it
is about: an off-by-one in `skip_until`, an encrypt that does not step its
chain, a flush that marks rows as delivered, a clean-up that leaves the entry, a
heartbeat that does not mind a missing entry, a challenge that is looked up and not deleted,
a device look-up without `is_active`, an unlimited upload, a queue flushed
backwards, a destroy that lets the timer run, a logout that leaves the socket, a
confirmation handled in the list and not in the vault, a spinner that only a
good answer stops. `PROJECT.json` says which operator replaces which, and TLC
then finds the property violated.

## 5. What is proved

`Router_proofs` (for any devices, instances, connections, messages and
budgets; the only assumption is `RouterAssumption`, that the constants have
their types):

- `TypeCorrect`: the type invariant, one step per action.
- `DeliveryIsTrue`: `delivered` is a subset of what recipients decrypted. The
  property alone is not inductive, because `HandleAck` trusts the frame: the
  invariant `ReceiptInv` adds `Sourced`, that every receipt in a socket, in an
  outbound queue and in a handler's hands is of a message its recipient has
  seen, and every event to a recipient is of a message with an id.
- `RouterImplementsMailbox`: from `ReceiptInv`, each step of the router is a step of
  `Mailbox` or leaves posted, taken and receipted as they are.
- `RegistrySound`: no dangling registry entries, inductive with the types.
- `NoGapOnOneInstance`: with one instance a connected device is owed nothing.
  `GapInv` strengthens the claim from running connections back to every phase from
  registration on, where the flush is what is still to come. The assumption
  on `Node` cannot be dropped: section 7 says how two instances miss a message.

`Access_proofs` (for any users, devices, tokens, challenges, any number of
overlapping handlers, calls and restarts; the assumption is `AccessAssumption`:
Admin is a user, "nobody" and "no device" are none, and no challenge has the
name of another way in). Each theorem has an invariant of its own, inductive
together with `Typed`, which says of every table its type and of every handler
that what it noted is of its kind:

- `OnlyTheApproved`, from `Admitted`: whatever names a user, down to the handlers
  under way, names an approved one. The handlers are the point: status is read
  in one query and used in a later one.
- `ChallengeIsSpentOnce`, from `SpentOnce`: a challenge is in the table, or with
  one handler, or in one token. `ChallengeOnce` alone says nothing of the two
  queries between the DELETE and the INSERT.
- `SessionsAreOnOwnDevices`, from `Owned`: the session a handler is about to
  insert fits too. A device that somebody registers was nobody's
  (`NewDevice`), so no row that exists changes its meaning.
- `RevocationCuts`, from `OnActive`: sessions and sessions to come are on active
  devices, or on those in `raced`.
- `EndedForGood`: an action property; only five actions touch the table, and
  `upload_keys` updates a row or nothing.
- `BootstrapIsGuarded`, of the requests that give the setup token, from `Limiter`,
  that the limiter holds every attempt of the window that ends now (attempts are places in a sequence, so that none is
  counted twice), and `Accounted`, that the sessions given are no more than the
  handlers about to set the flag; both sets are finite.

`RatchetPair_proofs` (for any number of messages in any order and any number of
times, any `MAX_SKIP`, any associated data; the assumptions are that `MaxSkip` and
`MaxSend` are numbers). Keys are ordered by the length of their chain's root and
then by their counter (`Before`), and one turn of the DH ratchet makes the root two
longer: both ends only move forward, and one end's sending chains have roots of
even length, the other's of odd length (`Length`, lemma `Parity`). Lemmas about
`SkipUntil`, `RatchetDh` and the step of a chain compose to `DecryptedGood`: a decrypt that
succeeds used a key that was buffered or not yet passed, has passed it after,
and does not keep it. The invariant `IInv` says what holds of a stored session
(`Good`), that the keys a party sealed with are in order and behind its sending
chain (`Sealed`), and that the key of a message that was opened is passed and not
in the buffer (`Spent`). A decrypt that fails leaves the stored session as it was.

- `KeysAreFresh`: two keys of one sender differ by the order, of two by the parity.
- `OpensOnce`: what `Spent` says of a key contradicts what a second decrypt needs.
- `SessionsForget`: the chain positions are past the key, the other chain's root
  has the wrong parity, and the buffer does not hold it.

What can be opened needs what either end knows of the other. `InStep` says for
both ends (`Knows`): a session is level with the newest chain of its peer or one
chain behind it, and then the root its next turn computes is the peer's root;
chains are numbered by their ratchet keys, which gives the length of each root
(`EpochLen`); every counter below the sender's has its message; and the keys
kept are those of the messages passed and not opened (`Gap`).

- `KeysKeptAreMissing`: `BufferIsTheGap`, which is `Gap` and the numbering of chains.
- `AllInReachOpen`: `Decryptable`. The one hypothesis is that both ends bind their
  messages to one label, as `ratchet.rs:253` asks and as the run has it; the
  desktop client does otherwise (section 7), and then nothing opens.

They are theorems about the ratchet when each operation is one step; the finding of
`conversation_race` is what becomes of `FreshMessageKeys` when it is not.

`Conversation_proofs` (for any labels, any number of operations under way in either
client, messages, crashes and failing calls; `ConversationAssumption`: the slots are
finitely many, the bounds are numbers):

- `OpenedStaysKept`: `OpenedIsKept`, whatever overlaps, whichever call fails and
  wherever a process ends. `KInv` adds that messages carry their number, with
  room for one per save under way (`Numbered`), that what a handler holds was
  issued (`Sourced`), and that a counter above zero is of an issued message
  (`Booked`): without the last, a new message would look opened.
- `RatchetPairUnlessStrayed`: `ImplementsRatchetPair`, without hypotheses. A step that
  does not set `strayed` is a step of the two sessions or a stutter, and only the two
  saves are no stutters. `OInv` says that a party without a row has encrypted
  nothing, that no message is ahead of its sender's ratchet key, so that the
  fresh key is the abstract one, and that an operation whose copy is still the row
  can save it as a step of the pair; an operation whose copy is not sets `strayed`.
- `KeysFreshUnlessStrayed`: until then `FreshMessageKeys` holds, by the invariant of
  `RatchetPair_proofs` under the refinement mapping. That `strayed` is reached by
  calls that all succeed is the finding of `conversation_race`.
- `ClientLabelsOpenNothing`: with `ClientLabel` no message is ever opened or stored.

`SocketConsole_proofs`, of which the first part is about `Socket` (for any number of
sign-ins and frames; `SocketAssumption`): one invariant, `IInv`, of four parts, for
three theorems.

- `SocketsAreCounted`: `Counted` counts the sockets and the timer against the
  sign-ins. It is also what makes `connect` well-defined in the model, as there
  is always a socket left to make; `Single` is the claim for one sign-in.
- `FramesInOrder`, from `Ordered`: an open socket leaves nothing in the queue, so
  that a frame sent directly cannot overtake a queued one.
- `LogoutIsFinal`: an action property, from `disabled => ~ timer`.

The second part is about `Console` (for any users, devices, and any number of clicks,
failures, decisions of others and handlers under way; `ConsoleAssumption` is not
needed). `ConsoleInv` has `Unmounted`, that behind a closed panel only requests go on,
so that a panel that is opened starts without fetches of the last one; `ListHolds`,
that the newest fetch, unless it was crossed, is the only one, is for the open
tab, and carries or will carry what the server holds; and `DrawerHolds`, the same
of the newest request for devices.

- `SettledPanelIsTrue`: `SettledIsTrue`, which speaks of no handlers under way.
- `BreaksOnCrossing`: `BreaksOnlyCrossed`, with the lemma `AnswerFits`, that a tab can
  draw every answer to its own fetch.

`Prekeys_proofs` (for any devices, keys, replenishments and fetches;
`PrekeysAssumption`: the thresholds are numbers, "no device" is none, keys are
finitely many):

- `OneRequesterPerKey`: `Fresh`, that nobody has seen a key before its rows are
  inserted, `Apart`, that it is in one replenishment, and `Once`, that it is in the
  stock of one device or was handed out.
- `PrivateHalfKept`: `KeyKept` is inductive with them. It says nothing of keys
  whose replenishment was cut off.
- `CapBrokenTogether`, from `Room`: of the uploads that passed the check for a
  device there is one, and it still fits, or the device is in `met`.
- `X3dhAgrees`, that the library's two computations agree for any keys, and
  `ClientsDisagree`, that the two commands never do. They are about `X3dh`, have
  no state, and use nothing of the pre-keys.

`Outbox_proofs` (for any messages and contacts, any number of handlers under way,
openings, failures and restarts; `OutboxAssumption`: messages are finitely many,
"no contact" is none). `Typed` gives every handler its record by its kind, and a
lemma per kind says which handlers a step leaves alone:

- `SentIsKept`, from `SendsApart`, that a message is with one send at most, and
  `Kept`, that while no call has failed a message the socket was given has its
  row, and so has one that a send is about to give to it.
- `EventsMeetRows`, from `Found`: whoever goes by the server's id, a list entry, a
  handler or a loaded history, goes by it after the row was renamed.
- `OwnIsShownOnce` and `UnseenIsCounted`, from `Seen`, with `InsApart` and `LoadAlone`:
  while no two loads cross and nothing failed, what a load has read is right when it is
  shown, what the screen shows of one's own messages is each once, and what is due
  and not shown is no more than the badge says. A load is at three awaits, and
  each needs its own form of the claim.

`Signin_proofs` (for any users, any number of handlers begun and under way, of
keys, devices, registrations and revocations elsewhere, failures, restarts and
bootstraps; `SigninAssumption`: the administrator is a user, "nobody" is none,
bounds are numbers). `Typed` gives every variable its kind, for which the newest
of a user's devices must exist (`HasLargest`, by well-founded order). Then
`IInv` is `Typed`, that the workspace has a session (`Rooted`), and, unless handlers
have overlapped, `Clean`: there is one handler at most, on the login screen, with
nobody connected; the token is the session's, the wizard and a profile being saved
hold the session's keys; and each handler, at each await, holds the token, user,
keys and device that belong together there (`FlowOK`).

- `SessionIsOne`: `OneIdentity`, which `Tokened` in `Clean` says of the session.
- `OutIsQuiet`: `QuietWhenOut`, from `Quieted`, and from `Outside`, that a handler
  that opens a session is not under way while one is open.
- `VaultIsBound`: `BoundOnOneMachine`. That the vault's device has the vault's keys
  does not survive a login, which takes the device from the user's list: the
  invariant `BoundInv` says that the vault's device is always the row
  registered last (`VaultOK`), and that whoever may still log in, load or
  finish the wizard finds that row in his list or finds none (`Fresh`, `Spares`).
  `AdminFirst` is what makes the first bootstrap harmless: until it, the
  administrator has no device, is no saved account and has no way in but it.

The proof of `VaultIsBound` found two ways out of the property as it stood, which
the run was too small to reach. A restart between the writes of a registration
leaves new keys beside the former device id: it took five handlers, and such a
restart now counts as a fault. A second bootstrap, after a restart of the
server, lets the administrator in with the vault of whoever used the machine last,
and loading his devices then puts the id of one of his own beside that user's
keys: the property now allows one bootstrap.

Every safety property of a passing run is a theorem: the invariants, the two
refinements and the action properties. Only model-checked are the liveness
properties, as the prover has no rule for fairness, and the two violations, which
need no proof.

## 6. What is not modelled

Presence and typing: `is_still_online` (`ws.rs:537`) leaves out the device's own id,
so clean-up of an old connection sets the user offline while a new one is up;
the event is published before the row is updated; nothing is ever sent again.
All that holds is what each handler does by itself, which a model would only
restate. Stories: single requests, and a key that is pushed once to whoever is
connected, over the conversation's session, which it reads and never saves; the
effect is that of `conversation_race`.

Vault encryption, row-level security, partitions, TLS: not behaviour a model of
steps says anything about. Import and export of the vault have no caller.
Administration that no condition reads (departments, aliases, profile, settings,
logs) beyond what the console lists. Token expiry after 24 hours: it only ends
what logout ends too. The unused skeleton under `domain`, `application`,
`infrastructure`, `shared` and `observability`, which `main.rs` does not compile.
Shell, sidebar, modals, animations.

Within modelled parts. Router: the token-at-upgrade path, `KEYS_REQUEST`,
`ADMIN_UPDATE`. Access: a handler cancelled because its HTTP client has gone is
there only as a handler that fails at a query. Socket: delays, back-off, the
heartbeat. Outbox: reactions, pins, mutes, search, the look of the feed. Signin:
codes, signatures, the polling text of the waiting screen. Console: search,
health polls and telemetry, wiping the vault.

## 7. Behaviour to know of

### Disagreements no run demonstrates

Two disagreements between the code and what the repository says of it are runs
(`conversation_race`, `signin_device`). These follow from the code as well:

- With two instances a message can be missed between the flush and the NATS
  subscription (`ws.rs:359`), though the comment at 880 says "Any backend instance
  holding that device's live connection will receive it." The assumption of one instance in `NoGapOnOneInstance` is there for it.
- `MESSAGE_CONFIRM` is sent although the INSERT failed (`ws.rs:838`, against the
  comment at 809). The partitions of `026_partition_messages.sql:28` cover two
  months.
- A revocation misses a connection that is about to register (`admin.rs:677`,
  against `docs/product/UI_UX_JOURNEY.md:70`): it stays up.
- `alice_x3dh` sends its ephemeral key as a point of the wrong curve
  (`src-tauri/src/lib.rs:253`; theorem `ClientsDisagree`).
- The associated data of the two ends differ: `ChatArena.tsx:163` passes the
  recipient's id, `crypto_orchestration.ts:66` the sender's, while
  `ratchet.rs:253` asks for the conversation's. No message opens
  (theorem `ClientLabelsOpenNothing`).
- A status that arrives after the renaming is lost: `useChat.ts:134-136` resolves
  the server's id back to the temporary one, whose row `vault.ts:345-347` has
  renamed (against `UI_UX_JOURNEY.md:57`).

### Sign-in

A second bootstrap with keys in the vault and no device id reads
`one_time_pre_keys` of nothing and stays on LOADING for ever
(`AuthFlow.tsx:223-251`): the exception `broke` of `LoadingEnds`. With another
user's keys and device id there, it lets the administrator in with them, and
loading his devices puts the id of his newest, if he has one, beside those keys.
A registration that is cut off between its writes leaves the new keys beside the
former device id. Overlapping flows
can leave the session of one user with the token of another. A `handleSaveProfile`
that ends late brings an old session back; a loader of a former login renames
the device. Any late 401 clears the new token (`api.ts:35-38`). `QuietWhenOut`
speaks of the socket the client holds; one left behind is in `Socket`.

### Bootstrap

The limiter of `admin_bootstrap` is asked after the setup token was compared: it
counts only requests that know the token, by the email address they give.

### Connections

The heartbeat (`ws.rs:504`) asks whether its device has an entry, not whose it is: of
two sockets of one client, the one that is no entry stays up as long as the other
does, and the end of either takes the entry of both. What is sent to the device
meanwhile goes to NATS, to which both are subscribed.

### Socket, outbox and list

A second `connect` leaves the first socket open, also after a logout
(`socket.ts:54`); its close sets `this.ws` to null. Frames in flight on it may
arrive after later ones of the new socket; its `onopen` may show CONNECTED with
no connection. A send that ends after the logout queues a frame which the next
login flushes. The ref with the active contact is never assigned
(`useAppInitialization.ts:19`): incoming messages are not shown live and
`MESSAGE_READ` is never sent. The active contact, badges and `editingMsg` survive
what should reset them; the effect on `[inputText, editingMsg]`
(`ChatArena.tsx:92-98`) resets the text, so that an edit never changes it. An edit
made under a temporary id is lost with the renaming, which is why
`EventFindsRow` speaks of final ids. Two presses of Enter send twice. A history
that is read late replaces another contact's list. The feed shows TRANSMITTED
for anything that is not read.

### Console

A late answer to another tab's fetch overwrites the shared list, and components
throw on entries without id, email or date: the whole application shows its
fallback. A handler's `fetchData` is that of the tab at the click. `approve_user`
looks at no status (`admin.rs:389`): a stale approval re-activates a denied user.
`handleRevoke` revokes the first of the active devices, in no order
(`keys.rs:157-160`), and each look at them consumes one-time pre-keys.
`OrganizationSettings.tsx:37-46` says it destroys all local keys and deletes
`local_keys` and `messages` only.

## 8. What could come next

1. `Outbox` with two own messages.
2. A composition of `Socket` and `Outbox` with `Router`: what is queued at a logout
   and flushed by the next user's login.
3. `Presence`, once something re-broadcasts a status.
