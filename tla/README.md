# A specification of MessageU (signal-like)

MessageU is a chat system: a Python server that registers users and stores
messages for them (`src/server`), and a C++ console client that exchanges
encrypted texts through it (`src/client`).  This directory holds TLA+ modules
that model both, TLC configurations that check them on small instances, and
proofs that TLAPS checks for every instance.

Paths below are relative to the repository's root; `server.py` is
`src/server/server.py`, `X.cpp` is `src/client/source/X.cpp`.

## 1. The system

### Components

| Component | State it keeps | Operations |
|---|---|---|
| Server, `server.py` | `clients` (identifier to user), `messages` (one list for all users), `lock`; per connection a thread with its local variables | accept a connection; requests 600 register, 601 clients list, 602 public key, 603 send message, 604 waiting messages |
| `user.py`, `message.py` | the fields of one user or message | constructors that check sizes and the message type |
| `server_config.py` | none | read the port once |
| Client menu, `MessageUClient.cpp` | `m_clients`: what it knows of other users; the objects below | 110, 120, 130, 140, 150, 151, 152, 0 |
| `Client.cpp` | one user's identifier, name, public key, symmetric key | getters and setters, `hasSymmetricKey` |
| Operations, `Register.cpp`, `RequestClientsList.cpp`, `RequestPublicKey.cpp`, `RequestWaitingMessages.cpp`, `SendTextMessage.cpp`, `SendSymKeyRequest.cpp`, `SendSymKey.cpp` | none | build a request, read its reply, update `m_clients` or `my.info` |
| `MyInfo.cpp` | the user's name, identifier and private key; the file `my.info` | read, write, reload |
| `ServerInfo.cpp` | address and port | read once |
| `cryptopp_wrapper` | keys | RSA, AES and Base64 through Crypto++ |

### How they interact

Every client operation opens a TCP connection, writes one request, reads one
reply and closes.  The server starts a thread per connection.  The threads
share `clients` and `messages` and take one lock around everything they do with
them, the `send` of the reply included.  Clients never talk to each other:
a symmetric key (type 2) or a text (type 3) is a 603 request that the server
keeps until its addressee sends 604.  Registry and messages live in memory only;
of a client only `my.info` survives the process.

### What is hard

* Threads interleave outside the lock, and any client may disappear between two
  steps of its handler.  A `send` to a client that has gone may raise, or may
  succeed and reach nobody.  Handler 604 sends first and empties the mailbox
  afterwards; handlers 600 and 603 store first and send afterwards.
* `self.messages` is replaced as a whole by a list computed before the send.
* The lock is held during sends, so every path out of a handler, the exceptional
  ones included, must release it, and a client that does not read its reply
  holds up every other.
* The message identifier is derived from the length of a list that shrinks.
* The two ends of a key exchange see each other's messages late.  A key is in
  use before it is sent; a key that is read overwrites the one in use; 120
  forgets all keys; the key of an unlisted sender is dropped; an undecryptable
  text aborts the rest of a batch the server has already deleted.
* A request whose client has died is still served, perhaps after requests that
  the restarted client sends.
* A restart of either program loses what lives in memory.
* `my.info` is written in three parts after the server has stored the user, and
  nobody looks whether the writes succeeded.  A file that is there and does not open
  counts as a user who has yet to register.
* Sizes travel in unsigned fields and are counted down by the reader; one `recv`
  may return less than a sender announced.

### What makes each part correct

* Server: user names are unique; a stored message is either in the list or was
  in a reply, in no two replies, and leaves in the order it was stored; requests
  take effect as if one at a time; no connection is stuck because of another.
* Key exchange: a key is only held by the pair of users it was made for; a user
  who sends no keys holds, once it has read its messages, the keys that users on its
  list generated for it, and whatever fails the addressee is never ahead of the
  sender; a client does not fall back to an older key; acknowledged texts are
  displayed in order, and no text twice.
* Registration: an identifier, a name and a private key that stand in one
  `my.info` were registered together; what a running program believes of itself
  is what it would read after a restart; an identifier is never overwritten by a
  program that could read it; names are lost to faults only.
* Wire format: what the reader counts is what the writer wrote, for whole and for
  cut contents, and names arrive whole.

`PROJECT.json` lists all hazards at their lines, with the property that covers
each, or the reason why none does.

## 2. Modules

```
MessageUProtocol          requests, replies, User, Message
  +- MessageService       what the server promises: one request at a time
  +- MessageUServer       threads, lock, handlers; implements MessageService
       +- MCMessageUServer        instances for TLC
       +- MessageUServer_proofs   theorems
            +- MessageUServer_refinement   it implements MessageService
KeyExchange               client programs over a server that serves atomically
  +- MCKeyExchange        instances for TLC
  +- KeyExchange_proofs   theorems
Registration              registering and my.info, over the same abstract server
  +- MCRegistration       instances for TLC
  +- Registration_proofs  theorems
WireFormat                sizes and counters of requests and replies
  +- WireFormat_proofs    theorems
```

### MessageUProtocol

Identifiers, names, keys and contents are only compared by the code, so they are
elements of constant sets.  A *content* stands for message type and bytes:
`NoContent` is type 1, an element of `Content` types 2 and 3, `OddContent` any
other type, and `Cut` the prefix that remains when `recv(payload_size)` returned
only part of a payload.  `StaleId` is an identifier this server never issued, as
a `my.info` has it that was written before the server was restarted.

### MessageUServer

State: `clients` is `self.clients`.  `self.messages` is split into `log`, the
history of everything ever appended, and `messages`, the positions of `log` that
are in the list now; the list only loses elements and gains them at the end, so
list order is the order of positions.  `handed` is the history of positions that
a 2104 reply carried, `issued` that of identifiers some client learned.  `pc`,
`req`, `scan`, `response` are a thread's position, request, the two lists of
handler 604, and the reply it has built; `peer` is what the client at the other
end has done so far.

| Actions | Code |
|---|---|
| `Accept`, `Arrive`, `Disconnect`, `Stall` | `start`; the client's side of the connection: it sends its request, goes away, or stops reading a reply (2101, 2104) that is larger than the socket buffers |
| `ReceiveRequest`, `ReceiveNothing`, `ReceiveInvalid`, `ReceiveCutContent` | `handle_client` up to the dispatch, and the checks each handler makes before the lock |
| `Acquire`, `Unlock` | entering and leaving `with self.lock` |
| `CheckUsername`, `AddUser` | `handle_registration` |
| `ListClients`, `LookupKey` | `handle_clients_list`, `handle_public_key` |
| `CheckDestination`, `RefuseType`, `AppendMessage` | `handle_send_message` |
| `ScanMessages`, `Assign` | `handle_pending_messages`, before and after its send |
| `SendReply`, `SendRaises`, `SendError` | `client_socket.send`, in the lock and out of it |

A registration is checked in one step and inserted in another, a message is
checked in one and appended in another, the mailbox is scanned, sent and assigned
in three: what makes them atomic is the lock, which is a variable like the
others, and not the grain of the actions.

### MessageService and the refinement

`MessageService` has no lock, no handler steps and no failures half-way.  A
connection calls, its request takes effect in one step or never, and it
returns.  `MessageUServer!ServiceSpec` says that the threads implement it:

* `queue` is `messages \ handed`: a message leaves the queue when its reply is
  sent, although the list is assigned a step later;
* a request 604 takes effect at `SendReply`, the others when the handler stores
  or finds what it answers; a send that raises afterwards is a `Return` without
  a reply;
* a thread that answers an error outside the lock has returned already:
  its request had no effect.

### KeyExchange

The client programs, over a server that serves a request in one step, as
`MessageService` does.  Every operation has three steps: `Start...` (its checks,
what it changes before it connects, its request), `Serve`, and `Read...`.  Request
604 is read message by message, because a text that cannot be decrypted throws
in the middle of the batch (`DecryptThrows`).  `m_clients` is a partial function
from users to a public-key flag and a symmetric key.  A symmetric key is its
position in the history `keys`, a text its position in `texts`.  The history `owed`
has the keys that were generated while their addressee had their generator on its
list, as long as the addressee keeps that list: `Replace` is the one way a list is
replaced (120, its reply, the end of the program), and it ends all claims to keys.

Faults: `ConnectionFails` (connect or read threw), `ReadSpoiled` (a key
cannot be decrypted because a part of its content, or the private key, is missing, or
nothing of a text arrived; the reading goes on with the next message), `Crash` during an operation, `Exit` at
the menu, `ServerRestart`.  A text of which a part is missing makes `decrypt` throw,
which is a `ConnectionFails` that leaves the rest of the batch unread.  A crash or a lost connection may leave the
request behind in the server; such an *orphan* is served at any later time, or
never.  (The server binds 127.0.0.1, where a connection is hardly lost while both
processes live; the model does not rely on it.)  After a lost connection the
program goes on with its keys, so a later text can overtake the orphan: what
`ShownInOrder` says of order holds for texts whose sender read the acknowledgement,
which the history `acknowledged` keeps.

Cryptography is ideal: a key message can be read by its addressee, a text with
its key.  Decrypting with another key throws, or, when the padding comes out
right by chance, prints noise.

The two ways to compose the modules are different.  `MessageUServer` is shown to
implement `MessageService` step for step.  `KeyExchange` and `Registration` use a
server of the kind `MessageService` specifies, but keep only what their properties
tell apart: mailboxes per user instead of one list, no identifiers.

### Registration

`file` is `my.info`, `info` the `MyInfo` object, `pc` the place of the program;
`users` is the registry of the server and `issued` the history of all its
registrations, whose positions stand for the identifiers.

| Actions | Code |
|---|---|
| `Start`, `StartUnread`, `Quit` | `MyInfo::MyInfo` and `MessageUClient::MessageUClient`; menu choice 0 |
| `Ask`, `Serve`, `Refuse` | menu choice 110 with its check, `registerUser`; `handle_registration`; the reply 9000 |
| `OpenFile`, `WriteUsername`, `WriteUuid`, `WritePrivateKey`, `Reload`, `ReloadThrows` | `handleRegistrationResponse` from the reply on, `MyInfo::reload` |
| `StartUnread`, `ReloadFails`, `CannotCreate`, `WriteFails`, `Crash`, `ConnectionLost`, `ServeOrphan`, `ServerRestart` | what can go wrong: the file is there and cannot be opened for reading (the program is unregistered) or for writing (the code throws), the disk is full (the code does not notice), the program ends, the connection is lost, the server serves a request nobody waits for, the server forgets its users |

A part of the file that was written incompletely counts as missing: an identifier
of less than 32 digits is no identifier to `MyInfo.cpp:25`, and a private key cut
short decrypts as little as none.  Where `MyInfo::reload` tells a cut line from a
missing one, the model has both outcomes: a cut name is read as it stands
(`ReloadFrom`), and on a cut identifier line `stoi` or `substr` throws after the name
was read, `isRegistered` being true already (`ReloadThrows`).

`unopened` has the programs that could not open an existing `my.info` when they read
it, at the start (`MyInfo.cpp:15`) or after writing it (98), and so take themselves
for unregistered; a program leaves the set when it opens the file to write it, or
ends.

### WireFormat

Messages are their type, the size that was announced and the number of bytes the
server kept; names are their lengths.  `SendMessage` is the request with the one
`recv` that may cut it, `Collect` the packing of the 2104 reply, `ReadMessage` one
turn of the client's loop.  `phase` becomes "astray" when the client reads more or
less than was written; `CounterInStep` says that this never happens.  `Register`
and `ListClients` carry a name through its 255-byte field in both directions.
`Modulus` stands for 2^32 and the modulus of `size_t`, and is small enough for a
full mailbox not to fit.

## 3. Runs

| Run | Instance | Question |
|---|---|---|
| `server_safety` (`Safety.cfg`) | 2 threads, 4 connections, 2 identifiers, 2 names, 2 public keys | `TypeOK`, `UniqueUsernames`, `NothingLost`, `HandedOnce`, `HandedInOrder`, the inductive invariant `IInv`, and `ServiceSpec`: the threads implement the service |
| `server_liveness` (`Liveness.cfg`) | 2 threads, 3 connections, 1 identifier, 1 name | `ConnectionsEnd` under `FairSpec` |
| `message_ids` (`IncrementingIds.cfg`) | as `server_safety` | finding: identifiers repeat |
| `offline_messages` (`KeptForOffline.cfg`) | as `server_safety` | finding: a mailbox is emptied for a client that has gone |
| `key_flow` (`KeyFlow.cfg`) | 2 users, no faults, 3 keys, 1 text, 1 ask | `KeysAgreeOneWay`, `KeysAdvance`, the inductive invariant `ExchangeInv` with its part `Flow` |
| `key_faults` (`KeyFaults.cfg`) | 2 users, 1 fault, 2 keys, 2 texts | `TypeOK`, `ShownInOrder`, `SenderNotBehind` |
| `key_pairs` (`KeyPairs.cfg`) | 3 users, no faults, 1 key | `KeyOfPair` |
| `registration` (`Registration.cfg`) | 2 programs, 2 names, 3 faults, 4 registrations | `TypeOK`, `KeyOfIdentifier`, `SurvivesRestart`, `LostNames`, `IdentifierKept`, the inductive invariant `RegistrationInv` |
| `wire_format` (`WireFormat.cfg`) | 4 messages, texts of 1 and 2 blocks, 2 users with names of 1 and 253 to 256 characters | `TypeOK`, `CounterInStep`, `NamesWhole` |
| `my_info_complete` (`MyInfoComplete.cfg`) | as `registration`, 1 fault | finding: registered without a whole `my.info` |
| `key_received` (`KeyReceived.cfg`) | 2 users | finding: the key of an unlisted sender is dropped |
| `keys_agree` (`KeysAgree.cfg`) | 2 users | finding: crossed keys |

Each property of a passing run has a *variant* of one action, a plausible
mistake in the code (the lock not taken, a send that raises but still empties the
mailbox, a key filed under the wrong user), under which TLC finds the property
violated.  The variants stand before the action they vary, marked `Variant:`;
`PROJECT.json` pairs them with the properties.

### Findings

All five are places where the code does what its documentation does not say.

* `server.py:237` calls the identifier a "Simple incrementing ID"; it is the
  length of the list plus one and repeats once a mailbox was fetched.
* `README.md:26` promises "Stores messages for offline users"; the mailbox is
  emptied when the kernel took the reply, also if the client is gone by then.
* `README.md:78` says the recipient gets the key by requesting its messages; if
  it has not listed the sender (120), the key is dropped and cannot be fetched
  again.  `KeyReceived` is about the step that takes the message with the key off
  the reply, and the trace ends with that step.
* `README.md:77-79`: after the exchange "both parties can exchange encrypted
  messages"; if both send a key before either reads, each ends with the other's
  key and neither can read the other.
* `README.md:86-89` says `my.info` contains name, UUID and private key; it is
  written part by part without a check, so after a failed write the program is
  registered without its key, or with an identifier nobody assigned, and after a
  crash before the key every later start takes the user for registered although
  no key message can be decrypted any more.

Other behaviour worth knowing, which contradicts no document: a text that cannot
be decrypted takes the rest of its batch along, the keys of other users included,
so a user who exchanges keys with a third one may lose a key it was sent by the
second (see `SendsNoKey` in section 5); the name of a user
whose program failed before it wrote `my.info` stays taken until the server
restarts (`LostNames` counts one per fault); a program that cannot open its `my.info` at the
start offers to register, and 110 then empties the file and puts a new identifier in
the place of the old one (the exception of `IdentifierKept`); after a server restart a registered
program cannot register again (`MessageUClient.cpp:148`); and a mailbox that has
outgrown 2^32 bytes can never be fetched (`ReplyTooLarge`).

### Bounds, and why they are enough

* Threads never talk to each other except through the lock and the shared state,
  so two interleave in every way the code allows; the theorems cover any number.
* Four connections (`MaxConnections`) register two users, store a message and
  fetch it, or register one, store two and fetch; the third and fourth slot also
  make a second fetch, and a message stored between scan and assignment, possible.
  Three do for liveness: one holds the lock, one waits, one is silent, and a
  deadlock needs no more.  The bound also matters for liveness in itself: see
  section 4.
* Symmetry is used for safety only, over sets whose elements are only compared.
* `MaxKeys`, `MaxTexts`, `MaxAsks` bound what users do, `MaxWaiting` what is on
  its way to one user, `MaxFaults` failures of any kind (an `Exit` counts too).
  Two keys suffice for a crossing and three for an older key that returns; two
  texts are the fewest that can be out of order, and one fault with two requests
  the fewest that let an orphan overtake.  Three users are the fewest among whom
  a key can be filed under the wrong one.
* In `registration`, three faults are enough for a lost answer, a failed write and
  a server restart in one behaviour, and two programs for a taken name.  `Room`
  counts requests on their way as registrations, so a request is always served;
  `MaxKeys` is the number of registrations and programs together, so that a new
  key pair can always be found.
* In `wire_format`, four encrypted keys exceed `Modulus`, three do not; two list
  entries fit and three would not.  Names are tried around the 255 bytes of their
  field, cuts at nothing, one byte less, and the whole.
* `orphans` is a set: two identical requests nobody waits for count once.
  Requests for texts and keys are never identical.

## 4. Fairness

`FairSpec` is weak fairness, for each thread, of `Handler(t)` while its client has
not stalled: the interpreter runs every thread that can take a step, and one that
is blocked in `send` cannot.  Clients get no fairness: they may stay silent for
ever, so `ConnectionsEnd` only promises an end to connections whose request
arrived or whose client left.

A stalled client ends its stall by reading on or by going away, or never.
`ConnectionsEnd` has the premise that no client stalls for ever.  The premise is
needed: `send` is called with the lock held and without a time-out, and one
stalled client stops every other (`server.py:167` and `295`).  The repository's
client stalls only while its console does.

`threading.Lock` is not fair: under an endless stream of arrivals one thread may
lose the race for it each time.  The instance accepts a bounded number of
connections, and the code justifies the property for bounded contention only.
`KeyExchange`, `Registration` and `WireFormat` state no liveness: their users are
free never to choose anything.

## 5. Proofs

### The server

`MessageUServer_proofs` proves, for every value of the constants that satisfies
`ProtocolAssumption` (the special identifiers and contents differ from the
ordinary ones) and `ServerAssumption` (`NoThread` is no thread, `MaxConnections`
is a number):

| Theorem | Property |
|---|---|
| `Invariant` | `IInv`, the inductive invariant |
| `TypeCorrect` | `TypeOK` |
| `UsernamesUnique` | `UniqueUsernames` |
| `MessagesKept` | `NothingLost` |
| `MessagesHandedOnce` | `HandedOnce` |
| `MessagesHandedInOrder` | `HandedInOrder` |

None of the properties is inductive as it stands.  `IInv` adds what the code
relies on without saying so:

* `LockHeld`: a thread is between entry and exit of a `with` block exactly when
  it holds the lock, so two never are;
* `Checked`: what a handler found in its check (the name is free, the addressee
  exists) still holds when it stores, because nobody else is in the block;
* `ScanCurrent`: between scan and assignment the two halves of the scan are the
  list, and after the send the pending half is exactly what was handed and not
  yet removed;
* `NoneTwice`: if no thread is about to assign, no message in the list was ever
  handed.

With these, `UniqueUsernames` follows from `Checked` at `AddUser`, `NothingLost`
and `HandedOnce` from `ScanCurrent` and `NoneTwice` at `Assign` and `SendReply`,
and `HandedInOrder` because a scan takes all of a client's waiting messages.
Each part has a lemma (`TypeNext`, `LockNext`,
`CheckedNext`, `NamesNext`, `ScanNext`, `TwiceNext`, `LostNext`, `OrderNext`), most
with a step per action; `StoreSteps` says which four actions change the store at all;
`IInvNext` puts them together.

### Registration

`Registration_proofs` proves, for every value of the constants that satisfies
`RegistrationAssumption` (`Unset` is neither a name nor a number, the bounds are
numbers):

| Theorem | Property |
|---|---|
| `RegistrationInvariant` | `RegistrationInv`, the inductive invariant |
| `RegistrationType` | `TypeOK` |
| `KeysOfIdentifiers` | `KeyOfIdentifier` |
| `RestartSurvived` | `SurvivesRestart` |
| `NamesLost` | `LostNames` |
| `IdentifiersKept` | `IdentifierKept` |

`RegistrationInv` adds to `KeyOfIdentifier` and `SurvivesRestart` what holds of each program on
its way from the menu to the reload:

* `InfoSound`: a program that registers was not registered before, its object has
  a key pair and no identifier, and its file has no identifier until it writes one,
  unless the program is in `unopened`;
* `AnswerSound`: the identifier it was told is the one the server registered for
  its name and its key;
* `FileSound`: what stands in the file while it writes is of this registration.

`KeyOfIdentifier` then follows at each write, `SurvivesRestart` at `Reload`, where
the object can only get an identifier from the file and a file with an identifier
has a name, and `IdentifierKept` because a program that opens the file to empty it
has `InfoSound`.  `IdentifierKept` is about programs outside `unopened`: of the
others it is false in the code, which cannot tell a file that does not open from no
file.  `OthersMove` says once that a step of one program leaves what
holds of another; one lemma per action (`StartSound`, `AskSound`, ...,
`ReloadSound`) says it of the program that moves; `HistoryGrows` keeps the
registrations, and `InvNext` puts them together.

Each program's `InfoSound`, `AnswerSound` and `FileSound` say nothing of how many
names are lost, so `LostNames` has a part of its own, `Counted`.  A name is lost
some steps after the fault that loses it: a request outlives its program as an
orphan, a program whose write of the identifier failed holds it until `Reload`, and
one that could not open its file may overwrite the identifier in it.  `Counted`
therefore bounds the lost users, the orphans and those programs together by the
number of faults.  A fault adds one to one of the four (`TallyFault`), serving an
orphan, reloading or emptying an unread file moves one from the others to the first
(`TallyPaid`), and every other step adds nothing (`TallyKept`), because a program
that has an identifier does not ask for another.

### The server implements the service

`MessageUServer_refinement` proves `ServiceImplemented == Spec => ServiceSpec`
from `IInv` of `MessageUServer_proofs`: the initial states map to initial states of
`MessageService`, and every step of the threads or of a client is a step of the
service or leaves its variables as they are.  Most steps stutter.  What is left
are the places where a request takes effect, and there the proof needs what the
lock guarantees: at `AddUser` the name found free is still free and at
`AppendMessage` the addressee is still there (`Checked`); at `SendReply` of a 604
the pending half of the scan is the client's part of the queue (`ScanCurrent`,
`NoneTwice`); and at `Assign` the list that replaces the old one takes nothing from
the queue that was not handed.

### The clients

`KeyExchange_proofs` proves, for every set of users and all bounds that are numbers
(`KeyExchangeAssumption`):

| Theorem | Property |
|---|---|
| `KeyExchangeInvariant` | `ExchangeInv`, the inductive invariant |
| `KeyExchangeType` | `TypeOK` |
| `KeysOfPairs` | `KeyOfPair` |
| `SendersNotBehind` | `SenderNotBehind` |
| `TextsShownInOrder` | `ShownInOrder` |
| `OneWayKeysAgree` | `KeysAgreeOneWay`, as long as `faults = 0` |
| `FaultlessKeysAdvance` | `KeysAdvance`, as long as `faults = 0` |

The last two properties are about a system in which nothing fails, and the run that
checks them has `MaxFaults = 0`; the theorems make that a premise about the
behaviour instead of one about the bound, so they also cover the time before the
first failure.

All of these need to know what is on its way to a user.  `Line(p)` is that: what is
left of the reply p reads, followed by its mailbox.  To hand over a mailbox does
not change the line, and that is the point of it: `LineSteps` says that
a step leaves the line of p as it is, takes its first message, takes some from its
front, or adds one at its end, and everything below is proved from these four cases.
`ExchangeInv` has these parts:

* `Conversation`: a program is at the menu, waits, or reads the reply to a request
  of its own;
* `MessagesSound`: keys and texts in messages, requests and orphans were generated
  and written for their sender and addressee.  With it `KeyOfPair` is inductive
  (`KeysHeld`, which also has the generator of every key in `owed` on the list of its
  addressee);
* `OwnNewest`: a key that its generator holds is the newest it generated for that
  user.  It gives `SenderNotBehind`: the addressee holds one of the generated keys,
  and none is newer than this one;
* `TextsOnce`: a text in a request the server may still serve is not in any line, was
  not displayed, and is not acknowledged; `TextsInOrder` says that the texts
  displayed and then those in the line are in order.  A text that joins a line is
  the newest of its sender if the sender waits for the reply, and its sender was told
  that it failed if it is an orphan.  With them `ShownInOrder` is inductive;
* `Flow`, which holds until the first fault: there are no orphans, nobody sends to
  users who are not registered (`Reachable`), the key in a request is the newest
  (`NewestSent`), the key a user holds and the keys and texts in its line are in the
  order their sender generated the keys (`KeysInOrder`), and a key sent to a user
  who sends none is in its line, in the request, or the user holds it or a later one,
  or holds none and the key is not in `owed` (`KeysArrive`).

`KeysAgreeOneWay` has two parts.  The user p holds, once no message with a key of c is
on its way to it, every key that c generated for it while p had c on its list, or a
later one, as long as p has kept that list.  This is what `KeysArrive` says of keys in
`owed`: a client drops the key of c only if c is not on its list (`KeyKept`), then no
key of c is in `owed` (`OwedListed`), and it loses a key it holds only with its list
(`KeyForgotten`).  And the key p holds of c is the one c uses, if c still has it, by
`KeysArrive` and `OwnNewest`.  Both premises about the list are needed, as the run
`key_received` shows for the first, and 120 for the second.

`KeysArrive` is where the undecryptable texts matter: `DecryptThrows` drops the
rest of a batch, keys included.  In the line of a user who sends no key that does
not happen, because the texts after a key are encrypted with it or with a newer one
(`KeysInOrder`), so the key it holds is the one that decrypts them.  An attempt to
prove `KeysAgreeOneWay` for every p that sends no key *to c* failed at this place,
and TLC confirmed it with three users: c sends p a key, and p reads it; p and d
exchange keys, and d sends p a text with a key that p has replaced; c sends p a new
key behind that text; p reads the text, throws, and loses the key of c.  Hence the
premise `SendsNoKey(p)`: p sends no key to anyone.  With two users the two are the
same.

### Wire format

`WireFormat_proofs` proves, for texts and names of any length, any number of messages
and users, and every modulus (`WireAssumption`: lengths and bounds are numbers):

| Theorem | Property |
|---|---|
| `WireInvariant` | `WireInv`, the inductive invariant |
| `WireType` | `TypeOK` |
| `CountersInStep` | `CounterInStep` |
| `NamesAreWhole` | `NamesWhole` |

`WireInv` adds to the three properties two facts about what the server stores, which
no run repeats: nothing of a key request is kept
(`RequestsEmpty`), so the client loses no bytes when it leaves out reading a content,
and every name fits its field (`NamesFit`), so all users take the 271 bytes the client
divides by.  `ReadMessageStep` takes the first message's bytes off the sum;
`ListClientsStep` divides the sum of equal entries.

Both need facts about sums over sequences of any length.  `Total` is a recursive
function; the library's induction theorems take an operator as a parameter, which the
provers cannot instantiate, but its theorem about minimal elements takes a set
(`WFMin`).  `LeastNumber` and `UpTo` derive from it an induction principle over sets of
numbers, with which `RestExists` and `RestSame` show that the recursion defines one
function, and `TotalOfSome` and `TotalOfEqual` what its last value is.

### How the proofs are laid out

Each part of an invariant has a lemma for the initial states and one for the steps
(`TypeNext`, `ConversationNext`, `MessagesSoundNext`, ...), and the lemma about the
invariant's steps (`IInvNext`, `InvNext`, `ExchangeInvNext`, `WireInvNext`) puts them
together.  What the steps of a kind leave alone is stated once, as
`StartFrame`, `ProgramFrame`, `OthersKept` and `HistorySteps` of `KeyExchange_proofs`
do.  Constants are arbitrary throughout: no set is assumed to be finite.

### Only model-checked

* Liveness, `ConnectionsEnd`: out of the prover's reach.
* The runs that expect a violation are counterexamples and need no proof.

## 6. Not modelled

* The bytes of identifiers, names, keys and contents; the fields of headers whose
  sizes never vary.
* How much of a payload the server received is in `MessageUServer` and `WireFormat`;
  `KeyExchange` has what it does to the reader (`ReadSpoiled`, `ConnectionFails`).
* Registering is one step of `KeyExchange`; its parts are in `Registration`.
* Two programs that share one directory, and with it `my.info`; a `my.info` that
  was edited by hand (`std::stoul` then throws an exception the constructor of
  `MyInfo` does not catch, and the program ends).  `MyInfo::writeToFile` is never
  called.
* What the system does with an identifier `MyInfo` never assigned: after a failed
  write the program sends whatever the memory held.
* `server_config.py`, `ServerInfo.cpp` (read once at start-up), logging, the
  console input and its validation, `last_seen` (never read), the algorithms of
  Crypto++ (third-party).
* `Message()` can also refuse an identifier above 2^32 - 1; the list would need
  that many elements.
* The server's thread count, and `accept` failing: the loop logs and goes on.

## 7. Plan

Done: `MessageUProtocol`, `MessageService`, `MessageUServer`, `KeyExchange`,
`Registration`, `WireFormat`, and a theorem for every property of a passing run except
`ConnectionsEnd`.

Left:

1. an abstract specification of what two users may rely on when they exchange keys
   and texts, with `KeyExchange` shown to implement it;
2. `KeyExchange` over `MessageService` itself: the mailboxes per user as a view of
   its one queue.
