------------------------------ MODULE KeyExchange ------------------------------
(***************************************************************************)
(* The client programs (src/src/client) exchanging symmetric keys and      *)
(* texts through the server.                                               *)
(*                                                                         *)
(* A client is one user's program: a menu (MessageUClient::run) that does  *)
(* one operation at a time.  Every operation opens a connection, sends one *)
(* request and reads one reply, so it has three steps: what the program    *)
(* does before the request is sent, the server serving the request, and    *)
(* the program reading the reply, message by message for request 604.      *)
(* What a client knows of the others, m_clients, lives in memory only.     *)
(*                                                                         *)
(* The server is the one MessageService specifies: it serves a request in  *)
(* one step.  A request whose client is gone may still be served later:    *)
(* it is an orphan.                                                        *)
(*                                                                         *)
(* A symmetric key is its position in keys, the history of the keys that   *)
(* were generated, and a text its position in texts.  A type 2 message     *)
(* carries a key that only its addressee can decrypt; a type 3 message     *)
(* carries a text and can be read with the key it was encrypted with.      *)
(***************************************************************************)
EXTENDS Naturals, Sequences, SequencesExt

CONSTANTS
    User,        \* the users, each with a client program
    MaxFaults,   \* bound: failures of clients, connections and the server
    MaxKeys,     \* bound: keys generated in one behaviour
    MaxTexts,    \* bound: texts written in one behaviour
    MaxAsks,     \* bound: requests for a key in one behaviour
    MaxWaiting   \* bound: messages on their way to one user

ASSUME KeyExchangeAssumption ==
    /\ MaxFaults \in Nat
    /\ MaxKeys \in Nat /\ MaxTexts \in Nat /\ MaxAsks \in Nat /\ MaxWaiting \in Nat

VARIABLES
    isRegistered,  \* of each client: my.info holds an identifier
    m_clients,     \* of each client: what it knows of each user it listed
    state,         \* of each client: "menu", "sent" or "answered"
    request,       \* of each client that is not at the menu
    reply,         \* of each client that was answered and has yet to read
    clients,       \* the server: the registered users
    mailbox,       \* the server: the messages waiting for each user
    orphans,       \* requests whose client no longer waits for the reply
    keys,          \* history: who generated which key for whom
    owed,          \* history: the keys generated while their addressee had their
                   \* generator on its list, and has kept that list since
    texts,         \* history: who wrote which text to whom
    asks,          \* number of requests for a key so far
    shown,         \* history: the texts the clients displayed
    acknowledged,  \* history: the texts whose sender read a 2103 reply
    faults         \* number of failures so far

client == <<isRegistered, m_clients, state, request, reply>>
server == <<clients, mailbox>>
history == <<keys, owed, texts, asks, shown, acknowledged>>
vars == <<client, server, orphans, history, faults>>

-------------------------------------------------------------------------------
NoKey == 0
Key == 1..MaxKeys
Text == 1..MaxTexts

Entry == [publicKey: BOOLEAN, symmetricKey: Key \cup {NoKey}]
NewEntry == [publicKey |-> FALSE, symmetricKey |-> NoKey]
Nobody == [p \in {} |-> NewEntry]

\* type 1 asks for a key, type 2 carries one, type 3 is a text.
Message == [type: {1}, from: User, to: User]
             \cup [type: {2}, from: User, to: User, key: Key]
             \cup [type: {3}, from: User, to: User, key: Key, text: Text]

Request == [code: {601, 604}, from: User]
             \cup [code: {602}, from: User, target: User]
             \cup [code: {603}, from: User, message: Message]
NoRequest == [code |-> 0]

NoReply == [code |-> 0]
ErrorReply == [code |-> 9000]

Reply == {NoReply, ErrorReply, [code |-> 2102], [code |-> 2103]}
           \cup [code: {2101}, users: SUBSET User]
           \cup [code: {2104}, messages: Seq(Message)]

Partial(S, T) == UNION {[D -> T] : D \in SUBSET S}

TypeOK ==
    /\ isRegistered \in [User -> BOOLEAN]
    /\ m_clients \in [User -> Partial(User, Entry)]
    /\ state \in [User -> {"menu", "sent", "answered"}]
    /\ request \in [User -> Request \cup {NoRequest}]
    /\ reply \in [User -> Reply]
    /\ clients \subseteq User
    /\ mailbox \in [User -> Seq(Message)]
    /\ orphans \subseteq Request
    /\ keys \in Seq([from: User, to: User]) /\ Len(keys) <= MaxKeys
    /\ owed \subseteq Key
    /\ texts \in Seq([from: User, to: User]) /\ Len(texts) <= MaxTexts
    /\ asks \in 0..MaxAsks
    /\ faults \in 0..MaxFaults
    /\ shown \in Seq([to: User, from: User, text: Text])
    /\ acknowledged \subseteq Text

Init ==
    /\ isRegistered = [c \in User |-> FALSE]
    /\ m_clients = [c \in User |-> Nobody]
    /\ state = [c \in User |-> "menu"]
    /\ request = [c \in User |-> NoRequest]
    /\ reply = [c \in User |-> NoReply]
    /\ clients = {}
    /\ mailbox = [c \in User |-> <<>>]
    /\ orphans = {}
    /\ keys = <<>>
    /\ owed = {}
    /\ texts = <<>>
    /\ asks = 0
    /\ shown = <<>>
    /\ acknowledged = {}
    /\ faults = 0

Known(c) == DOMAIN m_clients[c]
SymmetricKey(c, p) ==
    IF p \in Known(c) THEN m_clients[c][p].symmetricKey ELSE NoKey

\* The client has new on its list from now on, and no keys.
Replace(c, new) ==
    /\ m_clients' = [m_clients EXCEPT ![c] = new]
    /\ owed' = {k \in owed : keys[k].to # c}

-------------------------------------------------------------------------------
(* An operation starts: its checks, what it changes before it connects, and  *)
(* its request.                                                              *)

\* Registration in one step: 110, request 600 and the write of my.info.
RegisterUser(c) ==
    /\ state[c] = "menu"
    /\ ~isRegistered[c]
    /\ isRegistered' = [isRegistered EXCEPT ![c] = TRUE]
    /\ clients' = clients \cup {c}
    /\ UNCHANGED <<m_clients, state, request, reply, mailbox, orphans, history, faults>>

Call(c, r) ==
    /\ state[c] = "menu"
    /\ isRegistered[c]
    /\ state' = [state EXCEPT ![c] = "sent"]
    /\ request' = [request EXCEPT ![c] = r]
    /\ UNCHANGED <<isRegistered, reply, server, orphans, shown, acknowledged, faults>>

\* 120 forgets every user and key before it connects.
StartClientsList(c) ==
    /\ Call(c, [code |-> 601, from |-> c])
    /\ Replace(c, Nobody)
    /\ UNCHANGED <<keys, texts, asks>>

StartPublicKey(c, p) ==
    /\ p \in Known(c)
    /\ Call(c, [code |-> 602, from |-> c, target |-> p])
    /\ UNCHANGED <<m_clients, keys, owed, texts, asks>>

StartWaitingMessages(c) ==
    /\ Call(c, [code |-> 604, from |-> c])
    /\ UNCHANGED <<m_clients, keys, owed, texts, asks>>

Send(c, m) ==
    /\ Len(mailbox[m.to]) < MaxWaiting
    /\ Call(c, [code |-> 603, from |-> c, message |-> m])

\* Variant: hasSymmetricKey is not asked.
StartTextUnchecked(c, p) ==
    /\ p \in Known(c)
    /\ Len(texts) < MaxTexts
    /\ texts' = Append(texts, [from |-> c, to |-> p])
    /\ Send(c, [type |-> 3, from |-> c, to |-> p,
                key |-> SymmetricKey(c, p), text |-> Len(texts) + 1])
    /\ UNCHANGED <<m_clients, keys, owed, asks>>

StartTextMessage(c, p) ==
    /\ SymmetricKey(c, p) # NoKey
    /\ Len(texts) < MaxTexts
    /\ texts' = Append(texts, [from |-> c, to |-> p])
    /\ Send(c, [type |-> 3, from |-> c, to |-> p,
                key |-> SymmetricKey(c, p), text |-> Len(texts) + 1])
    /\ UNCHANGED <<m_clients, keys, owed, asks>>

StartSymKeyRequest(c, p) ==
    /\ p \in Known(c)
    /\ asks < MaxAsks
    /\ asks' = asks + 1
    /\ Send(c, [type |-> 1, from |-> c, to |-> p])
    /\ UNCHANGED <<m_clients, keys, owed, texts>>

\* Variant: the first key for a user is kept.
StartSymKeyKept(c, p) ==
    /\ p \in Known(c)
    /\ m_clients[c][p].publicKey
    /\ Len(keys) < MaxKeys
    /\ keys' = Append(keys, [from |-> c, to |-> p])
    /\ owed' = IF c \in Known(p) THEN owed \cup {Len(keys) + 1} ELSE owed
    /\ m_clients' = IF SymmetricKey(c, p) # NoKey THEN m_clients
                    ELSE [m_clients EXCEPT ![c][p].symmetricKey = Len(keys) + 1]
    /\ Send(c, [type |-> 2, from |-> c, to |-> p, key |-> Len(keys) + 1])
    /\ UNCHANGED <<texts, asks>>

\* The new key is in use before it is sent.
StartSymKey(c, p) ==
    /\ p \in Known(c)
    /\ m_clients[c][p].publicKey
    /\ Len(keys) < MaxKeys
    /\ keys' = Append(keys, [from |-> c, to |-> p])
    /\ owed' = IF c \in Known(p) THEN owed \cup {Len(keys) + 1} ELSE owed
    /\ m_clients' = [m_clients EXCEPT ![c][p].symmetricKey = Len(keys) + 1]
    /\ Send(c, [type |-> 2, from |-> c, to |-> p, key |-> Len(keys) + 1])
    /\ UNCHANGED <<texts, asks>>

-------------------------------------------------------------------------------
(* The server serves a request. *)

ReplyTo(r) ==
    CASE r.code = 601 -> [code |-> 2101, users |-> clients \ {r.from}]
      [] r.code = 602 /\ r.target \in clients -> [code |-> 2102]
      [] r.code = 603 /\ r.message.to \in clients -> [code |-> 2103]
      [] r.code = 604 -> [code |-> 2104, messages |-> mailbox[r.from]]
      [] OTHER -> ErrorReply

\* Variant: the messages that were handed over stay in the mailbox.
EffectKeepsMailbox(r) ==
    mailbox' =
      CASE r.code = 603 /\ r.message.to \in clients ->
             [mailbox EXCEPT ![r.message.to] = Append(@, r.message)]
        [] OTHER -> mailbox

\* Variant: the newest message comes first.
EffectNewestFirst(r) ==
    mailbox' =
      CASE r.code = 603 /\ r.message.to \in clients ->
             [mailbox EXCEPT ![r.message.to] = <<r.message>> \o @]
        [] r.code = 604 -> [mailbox EXCEPT ![r.from] = <<>>]
        [] OTHER -> mailbox

Effect(r) ==
    mailbox' =
      CASE r.code = 603 /\ r.message.to \in clients ->
             [mailbox EXCEPT ![r.message.to] = Append(@, r.message)]
        [] r.code = 604 -> [mailbox EXCEPT ![r.from] = <<>>]
        [] OTHER -> mailbox

Serve(c) ==
    /\ state[c] = "sent"
    /\ state' = [state EXCEPT ![c] = "answered"]
    /\ reply' = [reply EXCEPT ![c] = ReplyTo(request[c])]
    /\ Effect(request[c])
    /\ UNCHANGED <<isRegistered, m_clients, request, clients, orphans, history, faults>>

\* The reply to an orphan goes nowhere.
ServeOrphan(r) ==
    /\ orphans' = orphans \ {r}
    /\ Effect(r)
    /\ UNCHANGED <<client, clients, history, faults>>

-------------------------------------------------------------------------------
(* The client reads the reply. *)

BackToMenu(c) ==
    /\ state' = [state EXCEPT ![c] = "menu"]
    /\ request' = [request EXCEPT ![c] = NoRequest]
    /\ reply' = [reply EXCEPT ![c] = NoReply]

Read(c) ==
    /\ state[c] = "answered"
    /\ UNCHANGED <<isRegistered, server, orphans, keys, texts, asks, faults>>

\* A reply to 603, or an error: the program shows the menu again, after an error
\* with a message.
ReadNothing(c) ==
    /\ reply[c].code \in {2103, 9000}
    /\ Read(c)
    /\ BackToMenu(c)
    /\ acknowledged' = IF reply[c].code = 2103 /\ request[c].message.type = 3
                       THEN acknowledged \cup {request[c].message.text}
                       ELSE acknowledged
    /\ UNCHANGED <<m_clients, owed, shown>>

ReadClientsList(c) ==
    /\ reply[c].code = 2101
    /\ Read(c)
    /\ BackToMenu(c)
    /\ Replace(c, [p \in reply[c].users |-> NewEntry])
    /\ UNCHANGED <<shown, acknowledged>>

ReadPublicKey(c) ==
    /\ reply[c].code = 2102
    /\ Read(c)
    /\ BackToMenu(c)
    /\ m_clients' = [m_clients EXCEPT ![c][request[c].target].publicKey = TRUE]
    /\ UNCHANGED <<owed, shown, acknowledged>>

\* The loop of handleWaitingMessages over the messages of the reply.
ReadingMessages(c) ==
    /\ reply[c].code = 2104
    /\ Read(c)
    /\ UNCHANGED <<owed, acknowledged>>

NextMessage(c) ==
    /\ reply' = [reply EXCEPT ![c].messages = Tail(@)]
    /\ UNCHANGED <<state, request>>

EndOfMessages(c) ==
    /\ ReadingMessages(c)
    /\ reply[c].messages = <<>>
    /\ BackToMenu(c)
    /\ UNCHANGED <<m_clients, shown>>

ReadSymKeyRequest(c) ==
    /\ ReadingMessages(c)
    /\ reply[c].messages # <<>>
    /\ Head(reply[c].messages).type = 1
    /\ NextMessage(c)
    /\ UNCHANGED <<m_clients, shown>>

\* Variant: the key is kept under the first user of the list.
ReadSymKeyMisfiled(c) ==
    /\ ReadingMessages(c)
    /\ reply[c].messages # <<>>
    /\ LET m == Head(reply[c].messages)
       IN  /\ m.type = 2
           /\ \/ \E p \in Known(c) :
                   m_clients' = [m_clients EXCEPT ![c][p].symmetricKey = m.key]
              \/ /\ m.from \notin Known(c)
                 /\ UNCHANGED m_clients
    /\ NextMessage(c)
    /\ UNCHANGED shown

\* Variant: the first key of a user is kept.
ReadSymKeyOnce(c) ==
    /\ ReadingMessages(c)
    /\ reply[c].messages # <<>>
    /\ LET m == Head(reply[c].messages)
       IN  /\ m.type = 2
           /\ \/ /\ m.from \in Known(c)
                 /\ SymmetricKey(c, m.from) = NoKey
                 /\ m_clients' = [m_clients EXCEPT ![c][m.from].symmetricKey = m.key]
              \/ /\ m.from \notin Known(c) \/ SymmetricKey(c, m.from) # NoKey
                 /\ UNCHANGED m_clients
    /\ NextMessage(c)
    /\ UNCHANGED shown

\* The key of a user the client has not listed is dropped.
ReadSymKey(c) ==
    /\ ReadingMessages(c)
    /\ reply[c].messages # <<>>
    /\ LET m == Head(reply[c].messages)
       IN  /\ m.type = 2
           /\ \/ /\ m.from \in Known(c)
                 /\ m_clients' = [m_clients EXCEPT ![c][m.from].symmetricKey = m.key]
              \/ /\ m.from \notin Known(c)
                 /\ UNCHANGED m_clients
    /\ NextMessage(c)
    /\ UNCHANGED shown

Displayed(m) == [to |-> m.to, from |-> m.from, text |-> m.text]

\* A text is displayed when the key the client has for its sender is the key it
\* was encrypted with.
ReadTextMessage(c) ==
    /\ ReadingMessages(c)
    /\ reply[c].messages # <<>>
    /\ LET m == Head(reply[c].messages)
       IN  /\ m.type = 3
           /\ SymmetricKey(c, m.from) = m.key
           /\ shown' = Append(shown, Displayed(m))
    /\ NextMessage(c)
    /\ UNCHANGED m_clients

\* Without a key the client prints "can't decrypt message"; with another key
\* the padding may come out right by chance, and it prints noise.
ReadUnreadable(c) ==
    /\ ReadingMessages(c)
    /\ reply[c].messages # <<>>
    /\ LET m == Head(reply[c].messages)
       IN  /\ m.type = 3
           /\ SymmetricKey(c, m.from) # m.key
    /\ NextMessage(c)
    /\ UNCHANGED <<m_clients, shown>>

\* With another key the padding is almost always wrong: decrypt throws, and the
\* messages after this one are never read.
DecryptThrows(c) ==
    /\ ReadingMessages(c)
    /\ reply[c].messages # <<>>
    /\ LET m == Head(reply[c].messages)
       IN  /\ m.type = 3
           /\ SymmetricKey(c, m.from) \notin {NoKey, m.key}
    /\ BackToMenu(c)
    /\ UNCHANGED <<m_clients, shown>>

-------------------------------------------------------------------------------
(* Faults. *)

Fault ==
    /\ faults < MaxFaults
    /\ faults' = faults + 1

\* Nobody was there, or the connection was lost before the reply was read to its
\* end, or a text was cut on its way to the server: connect, read or decrypt threw,
\* and the menu's catch clause comes next.
ConnectionFails(c) ==
    /\ Fault
    /\ state[c] # "menu"
    /\ BackToMenu(c)
    /\ \/ UNCHANGED orphans
       \/ state[c] = "sent" /\ orphans' = orphans \cup {request[c]}
    /\ UNCHANGED <<isRegistered, m_clients, server, history>>

\* A key or a text that cannot be decrypted although the key for it was there: the
\* server has a part of the content or none of it, or my.info lacks the private key.
\* The exception of a key is caught and the key the client had stays.
ReadSpoiled(c) ==
    /\ Fault
    /\ state[c] = "answered"
    /\ reply[c].code = 2104
    /\ reply[c].messages # <<>>
    /\ Head(reply[c].messages).type \in {2, 3}
    /\ NextMessage(c)
    /\ UNCHANGED <<isRegistered, m_clients, server, orphans, history>>

\* The program ends during an operation and is started again.  The server may
\* already have the request: it serves it later.
Crash(c) ==
    /\ Fault
    /\ state[c] # "menu"
    /\ BackToMenu(c)
    /\ Replace(c, Nobody)
    /\ \/ UNCHANGED orphans
       \/ state[c] = "sent" /\ orphans' = orphans \cup {request[c]}
    /\ UNCHANGED <<isRegistered, server, keys, texts, asks, shown, acknowledged>>

\* The user leaves the program and starts it again.
Exit(c) ==
    /\ Fault
    /\ state[c] = "menu"
    /\ Replace(c, Nobody)
    /\ UNCHANGED <<isRegistered, state, request, reply, server, orphans>>
    /\ UNCHANGED <<keys, texts, asks, shown, acknowledged>>

\* The server process ends and is started again, without users or messages.
\* Whoever waits for a reply reads the end of the connection.
ServerRestart ==
    /\ Fault
    /\ clients' = {}
    /\ mailbox' = [c \in User |-> <<>>]
    /\ orphans' = {}
    /\ state' = [c \in User |-> IF state[c] = "sent" THEN "menu" ELSE state[c]]
    /\ request' = [c \in User |-> IF state[c] = "sent" THEN NoRequest ELSE request[c]]
    /\ UNCHANGED <<isRegistered, m_clients, reply, history>>

-------------------------------------------------------------------------------
Program(c) ==
    \/ ReadNothing(c) \/ ReadClientsList(c) \/ ReadPublicKey(c)
    \/ EndOfMessages(c) \/ ReadSymKeyRequest(c) \/ ReadSymKey(c)
    \/ ReadTextMessage(c) \/ ReadUnreadable(c) \/ DecryptThrows(c)

Choose(c) ==
    \/ RegisterUser(c)
    \/ StartClientsList(c) \/ StartWaitingMessages(c)
    \/ \E p \in User :
         \/ StartPublicKey(c, p) \/ StartTextMessage(c, p)
         \/ StartSymKeyRequest(c, p) \/ StartSymKey(c, p)

Next ==
    \/ \E c \in User : Choose(c) \/ Serve(c) \/ Program(c)
    \/ \E r \in orphans : ServeOrphan(r)
    \/ \E c \in User : ConnectionFails(c) \/ ReadSpoiled(c) \/ Crash(c) \/ Exit(c)
    \/ ServerRestart

Spec == Init /\ [][Next]_vars

-------------------------------------------------------------------------------
(* Properties *)

\* The key a client holds for a user, if it has one, was generated by one of
\* the two for the other: keys are never filed under the wrong user.
KeyOfPair ==
    \A c, p \in User :
        LET k == SymmetricKey(c, p)
        IN  k # NoKey => keys[k] \in {[from |-> c, to |-> p], [from |-> p, to |-> c]}

\* No text is displayed twice, and none after a later text of the same user
\* unless its sender was told that sending it failed (the request of a lost
\* connection may be served late), also when programs crash.
ShownInOrder ==
    \A i, j \in DOMAIN shown :
        i < j /\ shown[i].from = shown[j].from /\ shown[i].to = shown[j].to
          => /\ shown[i].text # shown[j].text
             /\ shown[j].text \in acknowledged => shown[i].text < shown[j].text

\* Without faults a client never goes back to an older key of the same user.
KeysAdvance ==
    [][\A c, p \in User :
          LET k == SymmetricKey(c, p)
              l == SymmetricKey(c, p)'
          IN  k # NoKey /\ l # NoKey /\ keys[k].from = p /\ keys'[l].from = p
                => k <= l]_vars

\* Whatever fails, a user never holds a newer key of the other than the one who
\* generated it uses: sendKey keeps the new key before it sends it
\* (SendSymKey.cpp:49), so no failure in between leaves the addressee ahead.
SenderNotBehind ==
    \A c, p \in User :
        LET own == SymmetricKey(c, p)
            told == SymmetricKey(p, c)
        IN  /\ own # NoKey /\ told # NoKey
            /\ keys[own] = [from |-> c, to |-> p]
            /\ keys[told] = [from |-> c, to |-> p]
            => told <= own

\* Every key that the server has yet to hand over, or the program yet to read.
KeysTo(p) ==
    {m.key : m \in {n \in Range(mailbox[p]) : n.type = 2}}
      \cup {request[c].message.key :
               c \in {d \in User : /\ state[d] = "sent"
                                  /\ request[d].code = 603
                                  /\ request[d].message.to = p
                                  /\ request[d].message.type = 2}}
      \cup (IF reply[p].code = 2104
            THEN {m.key : m \in {n \in Range(reply[p].messages) : n.type = 2}}
            ELSE {})

SendsNoKey(p) == \A k \in DOMAIN keys : keys[k].from # p

\* README.md, "Secure Messaging Flow": a user p who sends no key, and has read the
\* messages that carry keys of c, holds every key that c generated for it while p
\* had c on its list, or a later one, as long as p has kept that list (120 forgets
\* the keys, and the key of a user who is not on it is dropped: KeyReceived).  And
\* what p holds of c is what c uses, if c still has it.  The user must not send a
\* key to a third user either: a text of that user that it cannot decrypt takes
\* the messages after it along (DecryptThrows), and keys with them.
KeysAgreeOneWay ==
    \A c, p \in User :
        LET own == SymmetricKey(c, p)
            told == SymmetricKey(p, c)
        IN  /\ c # p
            /\ SendsNoKey(p)
            /\ \A k \in KeysTo(p) : keys[k].from # c
            => /\ \A k \in DOMAIN keys :
                    k \in owed /\ keys[k] = [from |-> c, to |-> p] => k <= told
               /\ own # NoKey /\ told # NoKey => own = told

-------------------------------------------------------------------------------
(* The inductive invariant that the properties rest on. *)

\* What is on its way to a user: the messages its program has yet to read, then the
\* messages the server has yet to hand over.
Unread(p) == IF reply[p].code = 2104 THEN reply[p].messages ELSE <<>>
Line(p) == Unread(p) \o mailbox[p]

Carries(r, type) == r.code = 603 /\ r.message.type = type

\* Each program is at the menu, waits for a reply to a request of its own, or reads
\* the reply to it.  Nobody lists itself.
Conversation ==
    \A c \in User :
        /\ state[c] = "menu" <=> request[c] = NoRequest
        /\ state[c] # "answered" => reply[c] = NoReply
        /\ request[c] # NoRequest => request[c].from = c
        /\ request[c].code = 603 => request[c].message.from = c
        /\ reply[c].code = 2103 => request[c].code = 603
        /\ reply[c].code = 2101 => c \notin reply[c].users
        /\ c \notin Known(c)

\* The keys and texts that messages carry were generated and written for them.
Sound(m) ==
    /\ m.type = 2 => m.key \in DOMAIN keys /\ keys[m.key] = [from |-> m.from, to |-> m.to]
    /\ m.type = 3 =>
         /\ m.key \in DOMAIN keys
         /\ keys[m.key] \in {[from |-> m.from, to |-> m.to], [from |-> m.to, to |-> m.from]}
         /\ m.text \in DOMAIN texts
         /\ texts[m.text] = [from |-> m.from, to |-> m.to]

MessagesSound ==
    /\ \A p \in User : \A i \in DOMAIN Line(p) : Line(p)[i].to = p /\ Sound(Line(p)[i])
    /\ \A c \in User : request[c].code = 603 => Sound(request[c].message)
    /\ \A r \in orphans : r.code = 603 => Sound(r.message)
    /\ acknowledged \subseteq DOMAIN texts
    /\ \A i \in DOMAIN shown :
         /\ shown[i].text \in DOMAIN texts
         /\ texts[shown[i].text] = [from |-> shown[i].from, to |-> shown[i].to]

KeysHeld ==
    /\ \A c, p \in User : SymmetricKey(c, p) \in DOMAIN keys \cup {NoKey}
    /\ KeyOfPair
    /\ \A k \in owed : k \in DOMAIN keys /\ keys[k].from \in Known(keys[k].to)

\* A key that its generator holds is the last it generated for that user: another
\* takes its place at once, and its own keys do not come back to it.
OwnNewest ==
    \A c, p \in User :
        LET own == SymmetricKey(c, p)
        IN  own # NoKey /\ keys[own] = [from |-> c, to |-> p]
              => \A k \in DOMAIN keys : keys[k] = keys[own] => k <= own

\* Text x was not displayed, is not on its way, and its sender was not told of it.
Unseen(x) ==
    /\ x \notin acknowledged
    /\ \A i \in DOMAIN shown : shown[i].text # x
    /\ \A p \in User : \A j \in DOMAIN Line(p) : Line(p)[j].type = 3 => Line(p)[j].text # x

\* A text in a request that the server may still serve is nowhere else, and its
\* sender was not told that it was sent.
TextsOnce ==
    /\ \A c \in User : Carries(request[c], 3) =>
         LET x == request[c].message.text
         IN  /\ \A y \in DOMAIN texts : texts[y].from = c => y <= x
             /\ \A r \in orphans : Carries(r, 3) => r.message.text # x
             /\ state[c] = "sent" => Unseen(x)
    /\ \A r \in orphans : Carries(r, 3) =>
         /\ Unseen(r.message.text)
         /\ \A q \in orphans : Carries(q, 3) /\ q.message.text = r.message.text => q = r

\* Text b comes after text a.
After(a, b) ==
    a.from = b.from /\ a.to = b.to =>
        a.text # b.text /\ (b.text \in acknowledged => a.text < b.text)

\* The texts of a user that were displayed, and those that will be, are in order.
TextsInOrder ==
    \A p \in User : \A j \in DOMAIN Line(p) : Line(p)[j].type = 3 =>
        /\ \A i \in DOMAIN shown : After(shown[i], Line(p)[j])
        /\ \A i \in DOMAIN Line(p) :
             i < j /\ Line(p)[i].type = 3 => After(Line(p)[i], Line(p)[j])

\* Message m carries, or is encrypted with, a key that its sender generated.
OwnKey(m) == m.type \in {2, 3} /\ keys[m.key].from = m.from

\* Every message is sent to a registered user.
Reachable ==
    \A c \in User :
        /\ Known(c) \subseteq clients
        /\ reply[c].code = 2101 => reply[c].users \subseteq clients
        /\ request[c].code = 603 => request[c].message.to \in clients

\* c generated no key for p after key k.
Newest(c, p, k) == \A n \in DOMAIN keys : keys[n] = [from |-> c, to |-> p] => n <= k

\* p has not read key k of c, nor is it on its way to p: only older ones are.
NotYetSent(c, p, k) ==
    /\ SymmetricKey(p, c) # k
    /\ \A j \in DOMAIN Line(p) :
         Line(p)[j].from = c /\ OwnKey(Line(p)[j]) => Line(p)[j].key < k

Request603(c) == state[c] = "sent" /\ request[c].code = 603

NewestSent ==
    \A c, p \in User :
        LET m == request[c].message
        IN  Request603(c) /\ m.to = p /\ OwnKey(m) =>
              /\ Newest(c, p, m.key)
              /\ m.type = 2 => NotYetSent(c, p, m.key)

\* Message b comes after key k of user c: it has a newer key of c, or is a text
\* encrypted with k.
KeyBefore(k, c, b) ==
    b.from = c /\ OwnKey(b) => k <= b.key /\ (b.type = 2 => k < b.key)

\* What user p holds, and what is on its way to p, has the keys of user c in the
\* order c generated them.
KeysInOrder ==
    \A p \in User : \A j \in DOMAIN Line(p) :
        /\ \A i \in DOMAIN Line(p) : i < j /\ OwnKey(Line(p)[i]) =>
             KeyBefore(Line(p)[i].key, Line(p)[i].from, Line(p)[j])
        /\ \A c \in User :
             LET told == SymmetricKey(p, c)
             IN  told # NoKey /\ keys[told].from = c => KeyBefore(told, c, Line(p)[j])

\* A key that c generated for p has yet to be read by p, or p read it and has it, or
\* a later one, unless p had not listed c then or has forgotten c since.
KeyArrives(c, p, k) ==
    \/ \E j \in DOMAIN Line(p) : Line(p)[j].type = 2 /\ Line(p)[j].key = k
    \/ Request603(c) /\ request[c].message.type = 2 /\ request[c].message.key = k
    \/ /\ \A j \in DOMAIN Line(p) :
            Line(p)[j].type = 2 /\ Line(p)[j].from = c => k < Line(p)[j].key
       /\ LET told == SymmetricKey(p, c)
          IN  k <= told \/ (told = NoKey /\ k \notin owed)

KeysArrive ==
    \A c, p \in User : c # p /\ SendsNoKey(p) =>
        \A k \in DOMAIN keys : keys[k] = [from |-> c, to |-> p] => KeyArrives(c, p, k)

\* What holds as long as nothing fails.
Flow == orphans = {} /\ Reachable /\ NewestSent /\ KeysInOrder /\ KeysArrive

ExchangeInv ==
    /\ TypeOK
    /\ Conversation
    /\ MessagesSound
    /\ KeysHeld
    /\ OwnNewest
    /\ TextsOnce
    /\ TextsInOrder
    /\ ShownInOrder
    /\ faults = 0 => Flow

-------------------------------------------------------------------------------
(* What the documentation says and the code does not do. *)

\* The program of p reads a message with key k of user c.
ReadsKey(p, c, k) ==
    /\ reply[p].code = 2104 /\ reply[p].messages # <<>>
    /\ Head(reply[p].messages) = [type |-> 2, from |-> c, to |-> p, key |-> k]
    /\ reply'[p].code = 2104 /\ reply'[p].messages = Tail(reply[p].messages)

\* README.md, "The recipient must request waiting messages (140) to receive your
\* key": a client that reads a key has it.
KeyReceived ==
    [][\A p, c \in User : \A k \in Key : ReadsKey(p, c, k) => SymmetricKey(p, c)' = k]_vars

\* README.md, "Now both parties can exchange encrypted messages": two users who
\* have each other's keys, with no key on its way, have the same key.
KeysAgree ==
    \A c, p \in User :
        /\ KeysTo(c) \cup KeysTo(p) = {}
        /\ SymmetricKey(c, p) # NoKey
        /\ SymmetricKey(p, c) # NoKey
        => SymmetricKey(c, p) = SymmetricKey(p, c)

===============================================================================
