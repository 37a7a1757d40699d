-------------------------- MODULE KeyExchange_proofs --------------------------
(***************************************************************************)
(* What the clients hold and display, for any number of users, keys,       *)
(* texts and faults.                                                       *)
(***************************************************************************)
EXTENDS KeyExchange, SequenceTheorems, TLAPS

USE KeyExchangeAssumption

-------------------------------------------------------------------------------
(* Messages, requests and replies. *)

LEMMA MessageKinds ==
    ASSUME NEW m \in Message
    PROVE  /\ m.type \in {1, 2, 3} /\ m.from \in User /\ m.to \in User
           /\ m.type \in {2, 3} => m.key \in Key
           /\ m.type = 3 => m.text \in Text
BY DEF Message

LEMMA RequestKinds ==
    ASSUME NEW r \in Request \cup {NoRequest}
    PROVE  /\ r.code \in {0, 601, 602, 603, 604}
           /\ r.code = 0 <=> r = NoRequest
           /\ r # NoRequest => r.from \in User
           /\ r.code = 602 => r.target \in User
           /\ r.code = 603 => r.message \in Message
BY DEF Request, NoRequest

LEMMA ReplyKinds ==
    ASSUME NEW r \in Reply
    PROVE  /\ r.code = 0 <=> r = NoReply
           /\ r.code \in {0, 2101, 2102, 2103, 2104, 9000}
           /\ r.code = 2101 => r.users \in SUBSET User
           /\ r.code = 2104 =>
                r.messages \in Seq(Message) /\ r = [code |-> 2104, messages |-> r.messages]
BY DEF Reply, NoReply, ErrorReply

\* What a program knows of the others.
LEMMA PartialFunction ==
    ASSUME NEW f
    PROVE  f \in Partial(User, Entry) <=> DOMAIN f \subseteq User /\ f \in [DOMAIN f -> Entry]
BY DEF Partial

LEMMA PartialIn ==
    ASSUME NEW D \in SUBSET User, NEW f \in [D -> Entry]
    PROVE  f \in Partial(User, Entry)
BY DEF Partial

LEMMA KnownEntries ==
    ASSUME TypeOK, NEW c \in User, NEW p
    PROVE  /\ Known(c) \subseteq User
           /\ p \in Known(c) => m_clients[c][p] \in Entry
           /\ SymmetricKey(c, p) \in Key \cup {NoKey}
<1>1. m_clients[c] \in Partial(User, Entry)
  BY DEF TypeOK
<1>2. DOMAIN m_clients[c] \subseteq User /\ m_clients[c] \in [DOMAIN m_clients[c] -> Entry]
  BY <1>1, PartialFunction
<1> QED
  BY <1>2 DEF Known, SymmetricKey, Entry

\* The messages on their way to a user, in this state and in the next.
LEMMA Concatenation ==
    ASSUME NEW s \in Seq(Message), NEW t \in Seq(Message)
    PROVE  /\ s \o t \in Seq(Message)
           /\ Len(s \o t) = Len(s) + Len(t)
           /\ DOMAIN (s \o t) = 1..Len(s \o t)
           /\ \A i \in 1..Len(s) : (s \o t)[i] = s[i]
           /\ \A i \in 1..Len(t) : (s \o t)[Len(s) + i] = t[i]
OBVIOUS

\* Keys are numbered in the order they are generated.
LEMMA KeyNumbers ==
    ASSUME TypeOK
    PROVE  \A k \in DOMAIN keys : k \in Nat
BY DEF TypeOK

LEMMA LineIsSeq ==
    ASSUME TypeOK, NEW p \in User
    PROVE  /\ Unread(p) \in Seq(Message) /\ mailbox[p] \in Seq(Message)
           /\ Line(p) \in Seq(Message)
           /\ Len(Line(p)) = Len(Unread(p)) + Len(mailbox[p])
           /\ DOMAIN Line(p) = 1..Len(Line(p))
           /\ \A i \in 1..Len(Unread(p)) : Line(p)[i] = Unread(p)[i]
           /\ \A i \in 1..Len(mailbox[p]) : Line(p)[Len(Unread(p)) + i] = mailbox[p][i]
<1>1. Unread(p) \in Seq(Message) /\ mailbox[p] \in Seq(Message)
  BY ReplyKinds DEF TypeOK, Unread
<1> QED
  BY <1>1, Concatenation DEF Line

LEMMA NextLineIsSeq ==
    ASSUME TypeOK', NEW p \in User
    PROVE  /\ Unread(p)' \in Seq(Message) /\ mailbox'[p] \in Seq(Message)
           /\ Line(p)' \in Seq(Message)
           /\ Len(Line(p)') = Len(Unread(p)') + Len(mailbox'[p])
           /\ DOMAIN Line(p)' = 1..Len(Line(p)')
           /\ \A i \in 1..Len(Unread(p)') : Line(p)'[i] = Unread(p)'[i]
           /\ \A i \in 1..Len(mailbox'[p]) : Line(p)'[Len(Unread(p)') + i] = mailbox'[p][i]
<1>1. Unread(p)' \in Seq(Message) /\ mailbox'[p] \in Seq(Message)
  BY ReplyKinds DEF TypeOK, Unread
<1> QED
  BY <1>1, Concatenation DEF Line

\* What changes of m_clients keeps its type.
LEMMA EntriesKept ==
    ASSUME TypeOK, NEW c \in User, NEW p, NEW k \in Key \cup {NoKey}, NEW D \in SUBSET User
    PROVE  /\ Nobody \in Partial(User, Entry)
           /\ [m_clients[c] EXCEPT ![p].symmetricKey = k] \in Partial(User, Entry)
           /\ [m_clients[c] EXCEPT ![p].publicKey = TRUE] \in Partial(User, Entry)
           /\ [q \in D |-> NewEntry] \in Partial(User, Entry)
<1> DEFINE f == m_clients[c]
<1>1. f \in Partial(User, Entry)
  BY DEF TypeOK
<1>2. DOMAIN f \subseteq User /\ f \in [DOMAIN f -> Entry]
  BY <1>1, PartialFunction
<1>3. NewEntry \in Entry
  BY DEF NewEntry, Entry
<1> HIDE DEF f
<1>4. [f EXCEPT ![p].symmetricKey = k] \in [DOMAIN f -> Entry]
  BY <1>2 DEF Entry
<1>5. [f EXCEPT ![p].publicKey = TRUE] \in [DOMAIN f -> Entry]
  BY <1>2 DEF Entry
<1>6. Nobody \in [{} -> Entry]
  BY DEF Nobody
<1>7. [q \in D |-> NewEntry] \in [D -> Entry]
  BY <1>3
<1> QED
  BY <1>2, <1>4, <1>5, <1>6, <1>7, PartialIn DEF f

LEMMA ClientForgets ==
    ASSUME TypeOK, NEW c \in User
    PROVE  [m_clients EXCEPT ![c] = Nobody] \in [User -> Partial(User, Entry)]
<1>1. 0 \in Key \cup {NoKey} /\ {} \in SUBSET User
  BY DEF NoKey
<1> QED
  BY <1>1, EntriesKept DEF TypeOK

LEMMA ClientListed ==
    ASSUME TypeOK, NEW c \in User, NEW D \in SUBSET User
    PROVE  [m_clients EXCEPT ![c] = [p \in D |-> NewEntry]] \in [User -> Partial(User, Entry)]
<1>1. 0 \in Key \cup {NoKey}
  BY DEF NoKey
<1> QED
  BY <1>1, EntriesKept DEF TypeOK

LEMMA ClientKey ==
    ASSUME TypeOK, NEW c \in User, NEW p, NEW k \in Key \cup {NoKey}
    PROVE  [m_clients EXCEPT ![c][p].symmetricKey = k] \in [User -> Partial(User, Entry)]
<1>1. {} \in SUBSET User
  OBVIOUS
<1> QED
  BY <1>1, EntriesKept DEF TypeOK

LEMMA ClientPublicKey ==
    ASSUME TypeOK, NEW c \in User, NEW p
    PROVE  [m_clients EXCEPT ![c][p].publicKey = TRUE] \in [User -> Partial(User, Entry)]
<1>1. {} \in SUBSET User /\ 0 \in Key \cup {NoKey}
  BY DEF NoKey
<1> QED
  BY <1>1, EntriesKept DEF TypeOK

LEMMA TypeInit == Init => TypeOK
<1> SUFFICES ASSUME Init PROVE TypeOK
  OBVIOUS
<1>1. Nobody \in Partial(User, Entry)
  BY PartialFunction DEF Nobody
<1> QED
  BY <1>1 DEF Init, TypeOK, Reply

\* A menu choice that sends a request.
Starts(c) ==
    \/ StartClientsList(c) \/ StartWaitingMessages(c)
    \/ \E p \in User :
         \/ StartPublicKey(c, p) \/ StartTextMessage(c, p)
         \/ StartSymKeyRequest(c, p) \/ StartSymKey(c, p)

LEMMA MailboxAppend ==
    ASSUME TypeOK, NEW p \in User, NEW m \in Message
    PROVE  [mailbox EXCEPT ![p] = Append(@, m)] \in [User -> Seq(Message)]
<1>1. mailbox \in [User -> Seq(Message)] /\ Append(mailbox[p], m) \in Seq(Message)
  BY DEF TypeOK
<1> QED
  BY <1>1

\* Serving a request changes at most one mailbox.
LEMMA EffectTypes ==
    ASSUME TypeOK, NEW r \in Request, Effect(r)
    PROVE  mailbox' \in [User -> Seq(Message)]
<1>1. CASE r.code = 603 /\ r.message.to \in clients
  <2>1. r.message \in Message /\ r.message.to \in User
    BY <1>1, RequestKinds, MessageKinds
  <2>2. mailbox' = [mailbox EXCEPT ![r.message.to] = Append(@, r.message)]
    BY <1>1 DEF Effect
  <2> QED
    BY <2>1, <2>2, MailboxAppend
<1>2. CASE r.code = 604
  <2>1. mailbox' = [mailbox EXCEPT ![r.from] = <<>>] /\ <<>> \in Seq(Message)
    BY <1>2 DEF Effect
  <2>2. mailbox \in [User -> Seq(Message)]
    BY DEF TypeOK
  <2> QED
    BY <2>1, <2>2
<1>3. CASE ~(r.code = 603 /\ r.message.to \in clients) /\ r.code # 604
  BY <1>3 DEF Effect, TypeOK
<1> QED
  BY <1>1, <1>2, <1>3

LEMMA ReplyTypes ==
    ASSUME TypeOK, NEW r \in Request
    PROVE  ReplyTo(r) \in Reply
<1> USE DEF TypeOK, Reply
<1>1. CASE r.code = 601
  BY <1>1 DEF ReplyTo
<1>2. CASE r.code = 602
  BY <1>2 DEF ReplyTo
<1>3. CASE r.code = 603
  BY <1>3 DEF ReplyTo
<1>4. CASE r.code = 604
  <2>1. mailbox[r.from] \in Seq(Message)
    BY <1>4, RequestKinds DEF NoRequest
  <2> QED
    BY <1>4, <2>1 DEF ReplyTo
<1>5. r.code \in {601, 602, 603, 604}
  BY RequestKinds DEF Request
<1> QED
  BY <1>1, <1>2, <1>3, <1>4, <1>5

LEMMA CallTypes ==
    ASSUME TypeOK, NEW c \in User, NEW r \in Request, Call(c, r)
    PROVE  /\ isRegistered' = isRegistered
           /\ state' \in [User -> {"menu", "sent", "answered"}]
           /\ request' \in [User -> Request \cup {NoRequest}]
           /\ UNCHANGED <<reply, clients, mailbox, orphans, shown, acknowledged, faults>>
BY DEF TypeOK, Call, server

LEMMA StartTypes ==
    ASSUME TypeOK, NEW c \in User, Starts(c)
    PROVE  TypeOK'
<1>1. CASE StartClientsList(c)
  <2>1. [code |-> 601, from |-> c] \in Request
    BY DEF Request
  <2>2. m_clients' \in [User -> Partial(User, Entry)]
    BY <1>1, ClientForgets DEF StartClientsList, Replace
  <2> QED
    BY <1>1, <2>1, <2>2, CallTypes DEF StartClientsList, TypeOK, Replace
<1>2. CASE StartWaitingMessages(c)
  <2> DEFINE r == [code |-> 604, from |-> c]
  <2>1. r \in Request
    BY DEF Request
  <2> HIDE DEF r
  <2>2. Call(c, r) /\ UNCHANGED <<m_clients, keys, owed, texts, asks>>
    BY <1>2 DEF StartWaitingMessages, r
  <2> QED
    BY <2>1, <2>2, CallTypes DEF TypeOK
<1>3. ASSUME NEW p \in User, StartPublicKey(c, p)
      PROVE  TypeOK'
  <2>1. [code |-> 602, from |-> c, target |-> p] \in Request
    BY DEF Request
  <2> QED
    BY <1>3, <2>1, CallTypes DEF StartPublicKey, TypeOK
<1>4. ASSUME NEW p \in User, StartTextMessage(c, p)
      PROVE  TypeOK'
  <2> DEFINE m == [type |-> 3, from |-> c, to |-> p,
                   key |-> SymmetricKey(c, p), text |-> Len(texts) + 1]
  <2>1. Len(texts) + 1 \in Text /\ SymmetricKey(c, p) \in Key
    <3>1. Len(texts) < MaxTexts /\ SymmetricKey(c, p) # NoKey
      BY <1>4 DEF StartTextMessage
    <3> QED
      BY <3>1, KnownEntries DEF TypeOK, Text
  <2>2. m \in Message
    BY <2>1 DEF Message
  <2> HIDE DEF m
  <2>3. [code |-> 603, from |-> c, message |-> m] \in Request
    BY <2>2 DEF Request
  <2>4. Call(c, [code |-> 603, from |-> c, message |-> m])
    BY <1>4 DEF StartTextMessage, Send, m
  <2>5. /\ texts' = Append(texts, [from |-> c, to |-> p]) /\ Len(texts) < MaxTexts
        /\ UNCHANGED <<m_clients, keys, owed, asks>>
    BY <1>4 DEF StartTextMessage
  <2>6. texts' \in Seq([from: User, to: User]) /\ Len(texts') <= MaxTexts
    BY <2>5 DEF TypeOK
  <2> QED
    BY <2>3, <2>4, <2>5, <2>6, CallTypes DEF TypeOK
<1>5. ASSUME NEW p \in User, StartSymKeyRequest(c, p)
      PROVE  TypeOK'
  <2> DEFINE m == [type |-> 1, from |-> c, to |-> p]
  <2>1. m \in Message
    BY DEF Message
  <2> HIDE DEF m
  <2>2. [code |-> 603, from |-> c, message |-> m] \in Request
    BY <2>1 DEF Request
  <2>3. Call(c, [code |-> 603, from |-> c, message |-> m])
    BY <1>5 DEF StartSymKeyRequest, Send, m
  <2> QED
    BY <1>5, <2>2, <2>3, CallTypes DEF StartSymKeyRequest, TypeOK
<1>6. ASSUME NEW p \in User, StartSymKey(c, p)
      PROVE  TypeOK'
  <2> DEFINE k == Len(keys) + 1
             m == [type |-> 2, from |-> c, to |-> p, key |-> k]
  <2>1. k \in Key
    BY <1>6 DEF StartSymKey, TypeOK, Key
  <2>2. m \in Message
    BY <2>1 DEF Message
  <2>3. /\ m_clients' = [m_clients EXCEPT ![c][p].symmetricKey = k]
        /\ keys' = Append(keys, [from |-> c, to |-> p]) /\ Len(keys) < MaxKeys
        /\ owed' \subseteq owed \cup {k}
        /\ UNCHANGED <<texts, asks>>
        /\ Call(c, [code |-> 603, from |-> c, message |-> m])
    BY <1>6 DEF StartSymKey, Send
  <2> HIDE DEF k, m
  <2>4. [code |-> 603, from |-> c, message |-> m] \in Request
    BY <2>2 DEF Request
  <2>5. m_clients' \in [User -> Partial(User, Entry)]
    BY <2>1, <2>3, ClientKey
  <2>6. keys' \in Seq([from: User, to: User]) /\ Len(keys') <= MaxKeys
    BY <2>3 DEF TypeOK
  <2>7. owed' \subseteq Key
    BY <2>1, <2>3 DEF TypeOK
  <2> QED
    BY <2>3, <2>4, <2>5, <2>6, <2>7, CallTypes DEF TypeOK
<1> QED
  BY <1>1, <1>2, <1>3, <1>4, <1>5, <1>6 DEF Starts

LEMMA ServeTypes ==
    ASSUME TypeOK, Conversation,
           \/ \E c \in User : Serve(c)
           \/ \E r \in orphans : ServeOrphan(r)
    PROVE  TypeOK'
<1>1. ASSUME NEW c \in User, Serve(c)
      PROVE  TypeOK'
  <2>1. request[c] \in Request
    BY <1>1 DEF Serve, TypeOK, Conversation
  <2>2. mailbox' \in [User -> Seq(Message)]
    BY <1>1, <2>1, EffectTypes DEF Serve
  <2>3. reply' \in [User -> Reply]
    BY <1>1, <2>1, ReplyTypes DEF Serve, TypeOK
  <2> QED
    BY <1>1, <2>2, <2>3 DEF Serve, TypeOK, history
<1>2. ASSUME NEW r \in orphans, ServeOrphan(r)
      PROVE  TypeOK'
  <2>1. mailbox' \in [User -> Seq(Message)]
    BY <1>2, EffectTypes DEF ServeOrphan, TypeOK
  <2> QED
    BY <1>2, <2>1 DEF ServeOrphan, TypeOK, history, client
<1> QED
  BY <1>1, <1>2

LEMMA MenuTypes ==
    ASSUME TypeOK, NEW c \in User, BackToMenu(c)
    PROVE  /\ state' \in [User -> {"menu", "sent", "answered"}]
           /\ request' \in [User -> Request \cup {NoRequest}]
           /\ reply' \in [User -> Reply]
BY DEF TypeOK, BackToMenu, Reply

LEMMA NextMessages ==
    ASSUME NEW r, NEW s, r = [code |-> 2104, messages |-> s], NEW t
    PROVE  [r EXCEPT !.messages = t] = [code |-> 2104, messages |-> t]
OBVIOUS

\* The client has the reply to a request 604.
HasMessages(c) == reply[c].code = 2104

LEMMA NextMessageTypes ==
    ASSUME TypeOK, NEW c \in User, HasMessages(c), NextMessage(c), reply[c].messages # <<>>
    PROVE  /\ reply' \in [User -> Reply]
           /\ reply[c].messages \in Seq(Message) /\ Head(reply[c].messages) \in Message
           /\ reply'[c].code = 2104
           /\ Len(reply[c].messages) = Len(reply'[c].messages) + 1
           /\ Head(reply[c].messages) = reply[c].messages[1]
           /\ \A i \in 1..Len(reply'[c].messages) :
                reply'[c].messages[i] = reply[c].messages[i + 1]
           /\ \A p \in User : p # c => reply'[p] = reply[p]
           /\ UNCHANGED <<state, request>>
<1>1. /\ reply[c] = [code |-> 2104, messages |-> reply[c].messages]
      /\ reply[c].messages \in Seq(Message)
  BY ReplyKinds DEF TypeOK, HasMessages
<1>2. PICK r, s : r = reply[c] /\ s = reply[c].messages
  OBVIOUS
<1>3. PICK t : t = Tail(s)
  OBVIOUS
<1>4. /\ t \in Seq(Message) /\ Head(s) \in Message /\ Head(s) = s[1]
      /\ Len(s) = Len(t) + 1 /\ \A i \in 1..Len(t) : t[i] = s[i + 1]
  BY <1>1, <1>2, <1>3
<1>5. PICK next : next = [r EXCEPT !.messages = t]
  OBVIOUS
<1>6. reply' = [reply EXCEPT ![c] = next] /\ UNCHANGED <<state, request>>
  BY <1>2, <1>3, <1>5, Zenon DEF NextMessage
<1>7. next = [code |-> 2104, messages |-> t]
  BY <1>1, <1>2, <1>5, NextMessages
<1>8. next \in Reply
  BY <1>4, <1>7 DEF Reply
<1>9. reply \in [User -> Reply]
  BY DEF TypeOK
<1> QED
  <2>1. /\ reply' \in [User -> Reply] /\ reply'[c] = next
        /\ \A p \in User : p # c => reply'[p] = reply[p]
    BY <1>6, <1>8, <1>9
  <2>2. reply'[c].code = 2104 /\ reply'[c].messages = t
    BY <1>7, <2>1
  <2>3. reply[c].messages \in Seq(Message) /\ Head(reply[c].messages) \in Message
    BY <1>1, <1>2, <1>4
  <2>4. /\ Len(reply[c].messages) = Len(reply'[c].messages) + 1
        /\ Head(reply[c].messages) = reply[c].messages[1]
        /\ \A i \in 1..Len(reply'[c].messages) :
             reply'[c].messages[i] = reply[c].messages[i + 1]
    BY <1>1, <1>2, <1>4, <2>2
  <2> QED
    BY <1>6, <2>1, <2>2, <2>3, <2>4

LEMMA ReadTypes ==
    ASSUME TypeOK, Conversation, NEW c \in User, Program(c)
    PROVE  TypeOK'
<1>1. CASE ReadNothing(c)
  <2>1. reply[c].code = 2103 /\ request[c].message.type = 3 => request[c].message.text \in Text
    <3>1. request[c].code = 603 => request[c].message \in Message
      BY RequestKinds DEF TypeOK
    <3> QED
      BY <3>1, MessageKinds DEF Conversation
  <2>2. acknowledged' \subseteq Text
    BY <1>1, <2>1 DEF ReadNothing, TypeOK
  <2> QED
    BY <1>1, <2>2, MenuTypes DEF ReadNothing, Read, TypeOK, server
<1>2. CASE ReadClientsList(c)
  <2>1. reply[c].users \in SUBSET User
    BY <1>2, ReplyKinds DEF ReadClientsList, TypeOK, Replace
  <2>2. m_clients' \in [User -> Partial(User, Entry)]
    <3>1. PICK D \in SUBSET User : D = reply[c].users
      BY <2>1
    <3>2. m_clients' = [m_clients EXCEPT ![c] = [p \in D |-> NewEntry]]
      BY <1>2, <3>1 DEF ReadClientsList, Replace
    <3> QED
      BY <3>2, ClientListed
  <2> QED
    BY <1>2, <2>2, MenuTypes DEF ReadClientsList, Read, TypeOK, server, Replace
<1>3. CASE ReadPublicKey(c)
  <2>1. m_clients' \in [User -> Partial(User, Entry)]
    <3>1. PICK p : p = request[c].target
      OBVIOUS
    <3>2. m_clients' = [m_clients EXCEPT ![c][p].publicKey = TRUE]
      BY <1>3, <3>1 DEF ReadPublicKey
    <3> QED
      BY <3>2, ClientPublicKey
  <2> QED
    BY <1>3, <2>1, MenuTypes DEF ReadPublicKey, Read, TypeOK, server
<1>4. CASE EndOfMessages(c) \/ DecryptThrows(c)
  BY <1>4, MenuTypes DEF EndOfMessages, DecryptThrows, ReadingMessages, Read, TypeOK, server
<1>5. CASE ReadSymKeyRequest(c) \/ ReadUnreadable(c)
  <2>1. /\ ReadingMessages(c) /\ NextMessage(c) /\ reply[c].messages # <<>>
        /\ UNCHANGED <<m_clients, shown>>
    BY <1>5 DEF ReadSymKeyRequest, ReadUnreadable
  <2>2. reply' \in [User -> Reply] /\ UNCHANGED <<state, request>>
    BY <2>1, NextMessageTypes DEF ReadingMessages, HasMessages
  <2> QED
    BY <2>1, <2>2 DEF ReadingMessages, Read, TypeOK, server
<1>6. CASE ReadSymKey(c)
  <2> DEFINE m == Head(reply[c].messages)
  <2>1. /\ ReadingMessages(c) /\ NextMessage(c) /\ reply[c].messages # <<>> /\ m.type = 2
        /\ \/ m_clients' = [m_clients EXCEPT ![c][m.from].symmetricKey = m.key]
           \/ UNCHANGED m_clients
        /\ UNCHANGED shown
    BY <1>6 DEF ReadSymKey
  <2>2. m.key \in Key
    <3>1. ReadingMessages(c) /\ NextMessage(c) /\ reply[c].messages # <<>>
      BY <2>1
    <3>2. m \in Message
      BY <3>1, NextMessageTypes DEF ReadingMessages, HasMessages
    <3> HIDE DEF m
    <3> QED
      BY <2>1, <3>2, MessageKinds
  <2> HIDE DEF m
  <2>3. m_clients' \in [User -> Partial(User, Entry)]
    <3>1. PICK k, q : k \in Key /\ k = m.key /\ q = m.from
      BY <2>2
    <3>2. \/ m_clients' = [m_clients EXCEPT ![c][q].symmetricKey = k]
          \/ UNCHANGED m_clients
      BY <2>1, <3>1
    <3>3. [m_clients EXCEPT ![c][q].symmetricKey = k] \in [User -> Partial(User, Entry)]
      BY <3>1, ClientKey
    <3> QED
      BY <3>2, <3>3 DEF TypeOK
  <2>4. reply' \in [User -> Reply] /\ UNCHANGED <<state, request>>
    BY <2>1, NextMessageTypes DEF ReadingMessages, HasMessages
  <2>5. /\ UNCHANGED <<isRegistered, server, orphans, keys, owed, texts, asks, faults>>
        /\ UNCHANGED <<acknowledged, shown>>
    BY <2>1 DEF ReadingMessages, Read
  <2> QED
    BY <2>3, <2>4, <2>5 DEF TypeOK, server
<1>7. CASE ReadTextMessage(c)
  <2> DEFINE m == Head(reply[c].messages)
  <2>1. /\ ReadingMessages(c) /\ NextMessage(c) /\ reply[c].messages # <<>> /\ m.type = 3
        /\ shown' = Append(shown, Displayed(m)) /\ UNCHANGED m_clients
    BY <1>7 DEF ReadTextMessage
  <2>2. Displayed(m) \in [to: User, from: User, text: Text]
    <3>1. m \in Message
      BY <2>1, NextMessageTypes DEF ReadingMessages, HasMessages
    <3> HIDE DEF m
    <3> QED
      BY <2>1, <3>1, MessageKinds DEF Displayed
  <2> HIDE DEF m
  <2>3. shown' \in Seq([to: User, from: User, text: Text])
    BY <2>1, <2>2 DEF TypeOK
  <2>4. reply' \in [User -> Reply] /\ UNCHANGED <<state, request>>
    BY <2>1, NextMessageTypes DEF ReadingMessages, HasMessages
  <2> QED
    BY <2>1, <2>3, <2>4 DEF ReadingMessages, Read, TypeOK, server
<1> QED
  BY <1>1, <1>2, <1>3, <1>4, <1>5, <1>6, <1>7 DEF Program

LEMMA FaultTypes ==
    ASSUME TypeOK, Conversation,
           \/ \E c \in User : ConnectionFails(c) \/ ReadSpoiled(c) \/ Crash(c) \/ Exit(c)
           \/ ServerRestart
    PROVE  TypeOK'
<1>1. Fault => faults' \in 0..MaxFaults
  BY DEF Fault, TypeOK
<1>2. ASSUME NEW c \in User, state[c] = "sent"
      PROVE  request[c] \in Request
  BY <1>2 DEF TypeOK, Conversation
<1>3. ASSUME NEW c \in User, ConnectionFails(c)
      PROVE  TypeOK'
  BY <1>1, <1>2, <1>3, MenuTypes DEF ConnectionFails, TypeOK, server, history
<1>4. ASSUME NEW c \in User, Crash(c) \/ Exit(c)
      PROVE  m_clients' \in [User -> Partial(User, Entry)]
  BY <1>4, ClientForgets DEF Crash, Exit, Replace
<1>5. ASSUME NEW c \in User, Crash(c)
      PROVE  TypeOK'
  BY <1>1, <1>2, <1>4, <1>5, MenuTypes DEF Crash, TypeOK, server, history, Replace
<1>8. ASSUME NEW c \in User, ReadSpoiled(c)
      PROVE  TypeOK'
  BY <1>1, <1>8, NextMessageTypes DEF ReadSpoiled, HasMessages, TypeOK, server, history
<1>6. ASSUME NEW c \in User, Exit(c)
      PROVE  TypeOK'
  BY <1>1, <1>4, <1>6 DEF Exit, TypeOK, server, history, Replace
<1>7. CASE ServerRestart
  <2>1. mailbox' \in [User -> Seq(Message)]
    BY <1>7 DEF ServerRestart
  <2> QED
    BY <1>1, <1>7, <2>1 DEF ServerRestart, TypeOK, history
<1> QED
  BY <1>3, <1>5, <1>6, <1>7, <1>8

LEMMA TypeNext ==
    ASSUME TypeOK, Conversation, [Next]_vars
    PROVE  TypeOK'
<1>1. ASSUME NEW c \in User, RegisterUser(c)
      PROVE  TypeOK'
  BY <1>1 DEF RegisterUser, TypeOK, history
<1>2. CASE UNCHANGED vars
  BY <1>2 DEF vars, client, server, history, TypeOK
<1> QED
  BY <1>1, <1>2, StartTypes, ServeTypes, ReadTypes, FaultTypes DEF Next, Choose, Starts

-------------------------------------------------------------------------------
(* What a step changes of a client. *)

\* A step of the program of c, or of the server for it.
StepOf(c) ==
    \/ RegisterUser(c) \/ Starts(c) \/ Serve(c) \/ Program(c)
    \/ ConnectionFails(c) \/ ReadSpoiled(c) \/ Crash(c) \/ Exit(c)

LEMMA NextSteps ==
    ASSUME [Next]_vars
    PROVE  \/ \E c \in User : StepOf(c)
           \/ \E r \in orphans : ServeOrphan(r)
           \/ ServerRestart
           \/ UNCHANGED vars
BY DEF Next, Choose, Starts, StepOf

\* The requests that a menu choice sends.
Calls(c, r) ==
    /\ Call(c, r)
    /\ r.code \in {601, 602, 603, 604} /\ r.from = c
    /\ r.code = 603 => r.message.from = c

LEMMA StartCalls ==
    ASSUME NEW c \in User, Starts(c)
    PROVE  \E r : Calls(c, r)
<1>1. CASE StartClientsList(c)
  <2>1. Calls(c, [code |-> 601, from |-> c])
    BY <1>1 DEF StartClientsList, Calls, Replace
  <2> QED
    BY <2>1
<1>2. CASE StartWaitingMessages(c)
  <2>1. Calls(c, [code |-> 604, from |-> c])
    BY <1>2 DEF StartWaitingMessages, Calls
  <2> QED
    BY <2>1
<1>3. ASSUME NEW p \in User, StartPublicKey(c, p)
      PROVE  \E r : Calls(c, r)
  <2>1. Calls(c, [code |-> 602, from |-> c, target |-> p])
    BY <1>3 DEF StartPublicKey, Calls
  <2> QED
    BY <2>1
<1>4. ASSUME NEW m, m.from = c, Send(c, m)
      PROVE  \E r : Calls(c, r)
  <2>1. Calls(c, [code |-> 603, from |-> c, message |-> m])
    BY <1>4 DEF Send, Calls
  <2> QED
    BY <2>1
<1>5. ASSUME NEW p \in User, StartTextMessage(c, p)
      PROVE  \E r : Calls(c, r)
  <2> DEFINE m == [type |-> 3, from |-> c, to |-> p,
                   key |-> SymmetricKey(c, p), text |-> Len(texts) + 1]
  <2>1. m.from = c /\ Send(c, m)
    BY <1>5 DEF StartTextMessage
  <2> QED
    BY <1>4, <2>1
<1>6. ASSUME NEW p \in User, StartSymKeyRequest(c, p)
      PROVE  \E r : Calls(c, r)
  <2> DEFINE m == [type |-> 1, from |-> c, to |-> p]
  <2>1. m.from = c /\ Send(c, m)
    BY <1>6 DEF StartSymKeyRequest
  <2> QED
    BY <1>4, <2>1
<1>7. ASSUME NEW p \in User, StartSymKey(c, p)
      PROVE  \E r : Calls(c, r)
  <2> DEFINE m == [type |-> 2, from |-> c, to |-> p, key |-> Len(keys) + 1]
  <2>1. m.from = c /\ Send(c, m)
    BY <1>7 DEF StartSymKey
  <2> QED
    BY <1>4, <2>1
<1> QED
  BY <1>1, <1>2, <1>3, <1>5, <1>6, <1>7 DEF Starts

\* What each kind of step leaves as it is.
LEMMA StartFrame ==
    ASSUME NEW c \in User, Starts(c)
    PROVE  /\ state[c] = "menu"
           /\ UNCHANGED <<isRegistered, reply, clients, mailbox, orphans>>
           /\ UNCHANGED <<shown, acknowledged, faults>>
<1>1. PICK r : Call(c, r)
  BY StartCalls DEF Calls
<1> QED
  BY <1>1 DEF Call, server

LEMMA ProgramFrame ==
    ASSUME NEW c \in User, Program(c)
    PROVE  /\ state[c] = "answered"
           /\ UNCHANGED <<isRegistered, clients, mailbox, orphans>>
           /\ UNCHANGED <<keys, texts, asks, faults>>
           /\ ReadTextMessage(c) \/ shown' = shown
           /\ ReadNothing(c) \/ acknowledged' = acknowledged
<1>1. ReadingMessages(c) => Read(c) /\ acknowledged' = acknowledged
  BY DEF ReadingMessages
<1>2. \/ ReadNothing(c) \/ ReadClientsList(c) \/ ReadPublicKey(c)
      \/ ReadingMessages(c)
  <2>1. EndOfMessages(c) \/ ReadSymKeyRequest(c) \/ ReadSymKey(c) => ReadingMessages(c)
    BY Zenon DEF EndOfMessages, ReadSymKeyRequest, ReadSymKey
  <2>2. ReadTextMessage(c) \/ ReadUnreadable(c) \/ DecryptThrows(c) => ReadingMessages(c)
    BY Zenon DEF ReadTextMessage, ReadUnreadable, DecryptThrows
  <2> QED
    BY <2>1, <2>2 DEF Program
<1>3. Read(c)
  <2>1. ReadNothing(c) \/ ReadClientsList(c) \/ ReadPublicKey(c) => Read(c)
    BY DEF ReadNothing, ReadClientsList, ReadPublicKey, Replace
  <2> QED
    BY <1>1, <1>2, <2>1
<1>4. ReadTextMessage(c) \/ shown' = shown
  <2>1. ReadNothing(c) \/ ReadClientsList(c) \/ ReadPublicKey(c) => shown' = shown
    BY DEF ReadNothing, ReadClientsList, ReadPublicKey, Replace
  <2>2. EndOfMessages(c) \/ ReadSymKeyRequest(c) \/ ReadSymKey(c) => shown' = shown
    BY DEF EndOfMessages, ReadSymKeyRequest, ReadSymKey
  <2>3. ReadUnreadable(c) \/ DecryptThrows(c) => shown' = shown
    BY DEF ReadUnreadable, DecryptThrows
  <2> QED
    BY <2>1, <2>2, <2>3 DEF Program
<1>5. ReadNothing(c) \/ acknowledged' = acknowledged
  <2>1. ReadClientsList(c) \/ ReadPublicKey(c) => acknowledged' = acknowledged
    BY DEF ReadClientsList, ReadPublicKey, Replace
  <2> QED
    BY <1>1, <1>2, <2>1
<1> QED
  BY <1>3, <1>4, <1>5 DEF Read, server

LEMMA ServerFrame ==
    ASSUME NEW c \in User, RegisterUser(c) \/ Serve(c)
    PROVE  /\ clients \subseteq clients'
           /\ UNCHANGED <<m_clients, request, orphans, faults>>
           /\ UNCHANGED <<keys, texts, asks, shown, acknowledged>>
<1>1. CASE RegisterUser(c)
  BY <1>1 DEF RegisterUser, history
<1>2. CASE Serve(c)
  BY <1>2 DEF Serve, history
<1> QED
  BY <1>1, <1>2

LEMMA FaultFrame ==
    ASSUME NEW c \in User, ConnectionFails(c) \/ ReadSpoiled(c) \/ Crash(c) \/ Exit(c)
    PROVE  /\ UNCHANGED <<isRegistered, clients, mailbox>>
           /\ UNCHANGED <<keys, texts, asks, shown, acknowledged>>
<1>1. CASE ConnectionFails(c)
  BY <1>1 DEF ConnectionFails, server, history
<1>2. CASE Crash(c)
  BY <1>2 DEF Crash, server, history, Replace
<1>3. CASE Exit(c)
  BY <1>3 DEF Exit, server, history, Replace
<1>4. CASE ReadSpoiled(c)
  BY <1>4 DEF ReadSpoiled, server, history
<1> QED
  BY <1>1, <1>2, <1>3, <1>4

\* Only that client changes.
LEMMA OthersKept ==
    ASSUME TypeOK, NEW c \in User, StepOf(c), NEW p \in User, p # c
    PROVE  /\ state'[p] = state[p] /\ request'[p] = request[p] /\ reply'[p] = reply[p]
           /\ m_clients'[p] = m_clients[p]
<1> USE DEF TypeOK
<1>1. CASE RegisterUser(c)
  BY <1>1 DEF RegisterUser
<1>2. CASE Starts(c)
  <2>1. PICK r : Call(c, r)
    BY <1>2, StartCalls DEF Calls
  <2>2. m_clients'[p] = m_clients[p]
    BY <1>2 DEF Starts, StartClientsList, StartWaitingMessages, StartPublicKey,
                StartTextMessage, StartSymKeyRequest, StartSymKey, Replace
  <2> QED
    BY <2>1, <2>2 DEF Call
<1>3. CASE Serve(c)
  BY <1>3 DEF Serve
<1>4. CASE ReadNothing(c) \/ ReadClientsList(c) \/ ReadPublicKey(c) \/ EndOfMessages(c)
           \/ DecryptThrows(c)
  BY <1>4 DEF ReadNothing, ReadClientsList, ReadPublicKey, EndOfMessages, DecryptThrows,
              ReadingMessages, Read, BackToMenu, Replace
<1>5. CASE ReadSymKeyRequest(c) \/ ReadSymKey(c) \/ ReadTextMessage(c) \/ ReadUnreadable(c)
  BY <1>5 DEF ReadSymKeyRequest, ReadSymKey, ReadTextMessage, ReadUnreadable,
              ReadingMessages, Read, NextMessage
<1>6. CASE ConnectionFails(c) \/ ReadSpoiled(c) \/ Crash(c) \/ Exit(c)
  BY <1>6 DEF ConnectionFails, ReadSpoiled, Crash, Exit, BackToMenu, NextMessage, Replace
<1> HIDE DEF TypeOK
<1> QED
  BY <1>1, <1>2, <1>3, <1>4, <1>5, <1>6 DEF StepOf, Program

\* What an assignment to m_clients does to the users c knows and the keys it holds.
LEMMA KeySet ==
    ASSUME TypeOK, NEW c \in User, NEW q, NEW k,
           m_clients' = [m_clients EXCEPT ![c][q].symmetricKey = k]
    PROVE  /\ Known(c)' = Known(c)
           /\ q \in Known(c) => SymmetricKey(c, q)' = k
           /\ \A p : p # q \/ q \notin Known(c) => SymmetricKey(c, p)' = SymmetricKey(c, p)
<1>1. PICK f : f = m_clients[c]
  OBVIOUS
<1>2. f \in Partial(User, Entry)
  BY <1>1 DEF TypeOK
<1>3. f \in [DOMAIN f -> Entry]
  BY <1>2, PartialFunction
<1>4. m_clients'[c] = [f EXCEPT ![q].symmetricKey = k]
  BY <1>1 DEF TypeOK
<1> QED
  BY <1>1, <1>3, <1>4 DEF Known, SymmetricKey, Entry

LEMMA PublicKeySet ==
    ASSUME TypeOK, NEW c \in User, NEW q,
           m_clients' = [m_clients EXCEPT ![c][q].publicKey = TRUE]
    PROVE  Known(c)' = Known(c) /\ \A p : SymmetricKey(c, p)' = SymmetricKey(c, p)
<1>1. PICK f : f = m_clients[c]
  OBVIOUS
<1>2. f \in Partial(User, Entry)
  BY <1>1 DEF TypeOK
<1>3. f \in [DOMAIN f -> Entry]
  BY <1>2, PartialFunction
<1>4. m_clients'[c] = [f EXCEPT ![q].publicKey = TRUE]
  BY <1>1 DEF TypeOK
<1> QED
  BY <1>1, <1>3, <1>4 DEF Known, SymmetricKey, Entry

\* No key is owed to c any more.
NothingOwed(c) == owed' = {k \in owed : keys[k].to # c}

LEMMA Forgotten ==
    ASSUME TypeOK, NEW c \in User, Replace(c, Nobody)
    PROVE  Known(c)' = {} /\ (\A p : SymmetricKey(c, p)' = NoKey) /\ NothingOwed(c)
BY DEF TypeOK, Known, SymmetricKey, Nobody, Replace, NothingOwed

\* So does a step of c.
SameKnowledge(c) == Known(c)' = Known(c) /\ \A p : SymmetricKey(c, p)' = SymmetricKey(c, p)
NoKnowledge(c) ==
    Known(c)' = {} /\ (\A p : SymmetricKey(c, p)' = NoKey) /\ NothingOwed(c)
NewList(c) ==
    /\ state[c] = "answered" /\ reply[c].code = 2101
    /\ Known(c)' = reply[c].users /\ (\A p : SymmetricKey(c, p)' = NoKey) /\ NothingOwed(c)
NewKey(c, q, k) ==
    /\ Known(c)' = Known(c) /\ q \in Known(c)
    /\ SymmetricKey(c, q)' = k
    /\ \A p : p # q => SymmetricKey(c, p)' = SymmetricKey(c, p)

LEMMA KnowledgeSteps ==
    ASSUME TypeOK, NEW c \in User, StepOf(c)
    PROVE  \/ SameKnowledge(c) \/ NoKnowledge(c) \/ NewList(c)
           \/ \E q \in User : StartSymKey(c, q) /\ NewKey(c, q, Len(keys) + 1)
           \/ \E q, k : /\ ReadSymKey(c) /\ NewKey(c, q, k)
                        /\ q = Head(reply[c].messages).from
                        /\ k = Head(reply[c].messages).key
<1>1. UNCHANGED m_clients => SameKnowledge(c)
  BY DEF SameKnowledge, Known, SymmetricKey
<1>2. Replace(c, Nobody) => NoKnowledge(c)
  BY Forgotten DEF NoKnowledge
<1>3. CASE RegisterUser(c)
  BY <1>1, <1>3 DEF RegisterUser
<1>4. CASE StartClientsList(c)
  BY <1>2, <1>4 DEF StartClientsList
<1>5. CASE StartWaitingMessages(c)
  BY <1>1, <1>5 DEF StartWaitingMessages
<1>6. ASSUME NEW q \in User, StartPublicKey(c, q) \/ StartTextMessage(c, q)
                              \/ StartSymKeyRequest(c, q)
      PROVE  SameKnowledge(c)
  BY <1>1, <1>6 DEF StartPublicKey, StartTextMessage, StartSymKeyRequest
<1>7. ASSUME NEW q \in User, StartSymKey(c, q)
      PROVE  NewKey(c, q, Len(keys) + 1)
  <2>1. PICK k : k = Len(keys) + 1
    OBVIOUS
  <2>2. m_clients' = [m_clients EXCEPT ![c][q].symmetricKey = k] /\ q \in Known(c)
    BY <1>7, <2>1 DEF StartSymKey
  <2>3. NewKey(c, q, k)
    BY <2>2, KeySet DEF NewKey
  <2> QED
    BY <2>1, <2>3 DEF NewKey
<1>8. CASE Serve(c)
  BY <1>1, <1>8 DEF Serve
<1>9. CASE ReadNothing(c) \/ EndOfMessages(c) \/ DecryptThrows(c) \/ ReadSymKeyRequest(c)
           \/ ReadTextMessage(c) \/ ReadUnreadable(c)
  BY <1>1, <1>9 DEF ReadNothing, EndOfMessages, DecryptThrows, ReadSymKeyRequest,
              ReadTextMessage, ReadUnreadable
<1>10. CASE ReadClientsList(c)
  <2>1. PICK D : D = reply[c].users
    OBVIOUS
  <2>2. /\ m_clients' = [m_clients EXCEPT ![c] = [q \in D |-> NewEntry]]
        /\ state[c] = "answered" /\ reply[c].code = 2101 /\ NothingOwed(c)
    BY <1>10, <2>1 DEF ReadClientsList, Read, Replace, NothingOwed
  <2>3. Known(c)' = D /\ \A q : SymmetricKey(c, q)' = NoKey
    BY <2>2 DEF TypeOK, Known, SymmetricKey, NewEntry
  <2> QED
    BY <2>1, <2>2, <2>3 DEF NewList
<1>11. CASE ReadPublicKey(c)
  <2>1. PICK q : q = request[c].target
    OBVIOUS
  <2>2. m_clients' = [m_clients EXCEPT ![c][q].publicKey = TRUE]
    BY <1>11, <2>1 DEF ReadPublicKey
  <2> QED
    BY <2>2, PublicKeySet DEF SameKnowledge
<1>12. CASE ReadSymKey(c)
  <2>1. PICK m, q, k : m = Head(reply[c].messages) /\ q = m.from /\ k = m.key
    OBVIOUS
  <2>2. \/ m_clients' = [m_clients EXCEPT ![c][q].symmetricKey = k] /\ q \in Known(c)
        \/ UNCHANGED m_clients
    BY <1>12, <2>1 DEF ReadSymKey
  <2>3. SameKnowledge(c) \/ NewKey(c, q, k)
    BY <1>1, <2>2, KeySet DEF NewKey
  <2> QED
    BY <1>12, <2>1, <2>3
<1>13. CASE ConnectionFails(c) \/ ReadSpoiled(c) \/ Crash(c) \/ Exit(c)
  BY <1>1, <1>2, <1>13 DEF ConnectionFails, ReadSpoiled, Crash, Exit
<1> QED
  BY <1>3, <1>4, <1>5, <1>6, <1>7, <1>8, <1>9, <1>10, <1>11, <1>12, <1>13
  DEF StepOf, Starts, Program

-------------------------------------------------------------------------------
(* The conversation of each client. *)

Talk(c) ==
    /\ state[c] = "menu" <=> request[c] = NoRequest
    /\ state[c] # "answered" => reply[c] = NoReply
    /\ request[c] # NoRequest => request[c].from = c
    /\ request[c].code = 603 => request[c].message.from = c
    /\ reply[c].code = 2103 => request[c].code = 603
    /\ reply[c].code = 2101 => c \notin reply[c].users

LEMMA TalkOf == Conversation <=> \A c \in User : Talk(c) /\ c \notin Known(c)
BY DEF Conversation, Talk

LEMMA TalkStep ==
    ASSUME TypeOK, Conversation, NEW c \in User, StepOf(c)
    PROVE  Talk(c)'
<1>1. Talk(c) /\ TypeOK
  BY TalkOf
<1> USE DEF Talk
<1>2. CASE RegisterUser(c) \/ Exit(c)
  BY <1>1, <1>2 DEF RegisterUser, Exit, Replace
<1>3. CASE Starts(c)
  <2>1. PICK r : Calls(c, r)
    BY <1>3, StartCalls
  <2>2. state'[c] = "sent" /\ request'[c] = r /\ reply' = reply /\ state[c] = "menu"
    BY <1>1, <2>1 DEF Calls, Call, TypeOK
  <2>3. r # NoRequest /\ r.from = c /\ (r.code = 603 => r.message.from = c)
    BY <2>1 DEF Calls, NoRequest
  <2> QED
    BY <1>1, <2>2, <2>3 DEF NoReply
<1>4. CASE Serve(c)
  <2>1. /\ state[c] = "sent" /\ state'[c] = "answered" /\ request' = request
        /\ reply'[c] = ReplyTo(request[c])
    BY <1>1, <1>4 DEF Serve, TypeOK
  <2>2. request[c] \in Request /\ request[c].from = c
    BY <1>1, <2>1 DEF TypeOK
  <2>3. /\ ReplyTo(request[c]).code = 2103 => request[c].code = 603
        /\ ReplyTo(request[c]).code = 2101 => c \notin ReplyTo(request[c]).users
    BY <2>2 DEF ReplyTo, ErrorReply
  <2> QED
    BY <1>1, <2>1, <2>3
<1>5. ASSUME BackToMenu(c)
      PROVE  Talk(c)'
  BY <1>1, <1>5 DEF BackToMenu, TypeOK, NoRequest, NoReply
<1>6. CASE ReadNothing(c) \/ ReadClientsList(c) \/ ReadPublicKey(c) \/ EndOfMessages(c)
           \/ DecryptThrows(c) \/ ConnectionFails(c) \/ Crash(c)
  BY <1>5, <1>6 DEF ReadNothing, ReadClientsList, ReadPublicKey, EndOfMessages, DecryptThrows,
                    ConnectionFails, Crash, Replace
<1>7. CASE ReadSymKeyRequest(c) \/ ReadSymKey(c) \/ ReadTextMessage(c) \/ ReadUnreadable(c)
           \/ ReadSpoiled(c)
  <2>1. /\ reply[c].code = 2104 /\ state[c] = "answered"
        /\ NextMessage(c) /\ reply[c].messages # <<>>
    BY <1>7 DEF ReadSymKeyRequest, ReadSymKey, ReadTextMessage, ReadUnreadable, ReadSpoiled,
                ReadingMessages, Read
  <2>2. UNCHANGED <<state, request>> /\ reply'[c].code = 2104
    BY <1>1, <2>1, NextMessageTypes DEF HasMessages
  <2>3. state[c] = "answered"
    BY <2>1
  <2> QED
    BY <1>1, <2>2, <2>3
<1> QED
  BY <1>2, <1>3, <1>4, <1>6, <1>7 DEF StepOf, Program

LEMMA ConversationInit == Init => Conversation
BY DEF Init, Conversation, NoRequest, NoReply, Known, Nobody

LEMMA ConversationNext ==
    ASSUME TypeOK, Conversation, [Next]_vars
    PROVE  Conversation'
<1>1. ASSUME NEW c \in User, StepOf(c), NEW p \in User
      PROVE  Talk(p)' /\ p \notin Known(p)'
  <2>1. CASE p = c
    <3>1. c \notin Known(c)'
      BY <1>1, KnowledgeSteps
      DEF SameKnowledge, NoKnowledge, NewList, NewKey, Conversation
    <3> QED
      BY <1>1, <2>1, <3>1, TalkStep
  <2>2. CASE p # c
    BY <1>1, <2>2, OthersKept, TalkOf DEF Talk, Known
  <2> QED
    BY <2>1, <2>2
<1>2. ASSUME NEW r \in orphans, ServeOrphan(r)
      PROVE  Conversation'
  BY <1>2 DEF ServeOrphan, Conversation, client, Known
<1>3. CASE ServerRestart
  <2>1. ASSUME NEW c \in User
        PROVE  Talk(c)' /\ c \notin Known(c)'
    <3>1. /\ state'[c] = IF state[c] = "sent" THEN "menu" ELSE state[c]
          /\ request'[c] = IF state[c] = "sent" THEN NoRequest ELSE request[c]
          /\ reply' = reply /\ m_clients' = m_clients
      BY <1>3 DEF ServerRestart
    <3>2. Talk(c) /\ c \notin Known(c)
      BY TalkOf
    <3> QED
      BY <3>1, <3>2 DEF Talk, Known, NoRequest, NoReply
  <2> QED
    BY <2>1 DEF Conversation, Talk
<1>4. CASE UNCHANGED vars
  BY <1>4 DEF vars, client, Conversation, Known
<1> QED
  BY <1>1, <1>2, <1>3, <1>4, NextSteps DEF Conversation, Talk

-------------------------------------------------------------------------------
(* What a step changes of the messages on their way to a user. *)

Shifted(p, d) ==
    /\ d \in 0..Len(Line(p))
    /\ Len(Line(p)') = Len(Line(p)) - d
    /\ \A i \in 1..Len(Line(p)') : Line(p)'[i] = Line(p)[i + d]

CutShort(p) ==
    /\ Len(Line(p)') <= Len(Line(p))
    /\ \A i \in 1..Len(Line(p)') : Line(p)'[i] = Line(p)[i]

Grown(p, m) ==
    /\ Len(Line(p)') = Len(Line(p)) + 1
    /\ \A i \in 1..Len(Line(p)) : Line(p)'[i] = Line(p)[i]
    /\ Line(p)'[Len(Line(p)) + 1] = m

LEMMA LineSame ==
    ASSUME TypeOK, TypeOK', NEW p \in User,
           Unread(p)' = Unread(p), mailbox'[p] = mailbox[p]
    PROVE  Shifted(p, 0)
<1>1. Line(p)' = Line(p)
  BY DEF Line
<1> QED
  BY <1>1, LineIsSeq, NextLineIsSeq DEF Shifted

\* The messages of a mailbox become those of the reply.
LEMMA LineHanded ==
    ASSUME TypeOK, TypeOK', NEW p \in User,
           Unread(p) = <<>>, Unread(p)' = mailbox[p], mailbox'[p] = <<>>
    PROVE  Shifted(p, 0)
<1>1. Len(Line(p)) = Len(mailbox[p]) /\ \A i \in 1..Len(mailbox[p]) : Line(p)[i] = mailbox[p][i]
  <2>1. Len(Unread(p)) = 0 /\ Len(mailbox[p]) \in Nat
    BY LineIsSeq
  <2>2. ASSUME NEW i \in 1..Len(mailbox[p])
        PROVE  Line(p)[i] = mailbox[p][i]
    <3>1. Len(Unread(p)) + i = i
      BY <2>1
    <3>2. Line(p)[Len(Unread(p)) + i] = mailbox[p][i]
      BY LineIsSeq
    <3> QED
      BY <3>1, <3>2
  <2>3. Len(Line(p)) = Len(Unread(p)) + Len(mailbox[p])
    BY LineIsSeq
  <2> QED
    BY <2>1, <2>2, <2>3
<1>2. /\ Len(Line(p)') = Len(Unread(p)') + Len(mailbox'[p])
      /\ \A i \in 1..Len(Unread(p)') : Line(p)'[i] = Unread(p)'[i]
  BY LineIsSeq, NextLineIsSeq
<1> QED
  BY <1>1, <1>2, LineIsSeq, NextLineIsSeq DEF Shifted

LEMMA LineRead ==
    ASSUME TypeOK, TypeOK', NEW p \in User, mailbox'[p] = mailbox[p],
           Len(Unread(p)) = Len(Unread(p)') + 1,
           \A i \in 1..Len(Unread(p)') : Unread(p)'[i] = Unread(p)[i + 1]
    PROVE  Shifted(p, 1) /\ Len(Line(p)) >= 1 /\ Line(p)[1] = Unread(p)[1]
<1>1. /\ Unread(p)' \in Seq(Message)
      /\ Len(Line(p)') = Len(Unread(p)') + Len(mailbox'[p])
      /\ \A i \in 1..Len(Unread(p)') : Line(p)'[i] = Unread(p)'[i]
      /\ \A i \in 1..Len(mailbox'[p]) : Line(p)'[Len(Unread(p)') + i] = mailbox'[p][i]
  BY LineIsSeq, NextLineIsSeq
<1> DEFINE n == Len(Unread(p)')
           k == Len(mailbox[p])
<1>2. n \in Nat /\ k \in Nat
  BY <1>1, LineIsSeq, NextLineIsSeq
<1>3. /\ Len(Line(p)) = n + 1 + k /\ Len(Line(p)') = n + k
      /\ \A i \in 1..(n + 1) : Line(p)[i] = Unread(p)[i]
      /\ \A i \in 1..k : Line(p)[n + 1 + i] = mailbox[p][i]
  <2>1. /\ Len(Line(p)) = Len(Unread(p)) + k
        /\ \A i \in 1..Len(Unread(p)) : Line(p)[i] = Unread(p)[i]
        /\ \A i \in 1..k : Line(p)[Len(Unread(p)) + i] = mailbox[p][i]
    BY LineIsSeq
  <2>2. Len(Unread(p)) = n + 1 /\ Len(Line(p)') = n + k
    BY <1>1
  <2> HIDE DEF n, k
  <2> QED
    BY <2>1, <2>2, Zenon
<1> HIDE DEF n, k
<1>4. ASSUME NEW i \in 1..(n + k)
      PROVE  Line(p)'[i] = Line(p)[i + 1]
  <2>1. CASE i <= n
    BY <1>1, <1>2, <1>3, <2>1 DEF n
  <2>2. CASE i > n
    <3>1. PICK j \in 1..k : i = n + j
      BY <1>2, <2>2
    <3>2. Line(p)'[i] = mailbox[p][j]
      BY <1>1, <3>1 DEF n, k
    <3>3. Line(p)[n + 1 + j] = mailbox[p][j] /\ n + 1 + j = i + 1
      BY <1>2, <1>3, <3>1
    <3> QED
      BY <3>2, <3>3
  <2> QED
    BY <1>2, <2>1, <2>2
<1> QED
  BY <1>2, <1>3, <1>4 DEF Shifted

\* The program gives up the messages it has not read.
LEMMA LineDropped ==
    ASSUME TypeOK, TypeOK', NEW p \in User, mailbox'[p] = mailbox[p], Unread(p)' = <<>>
    PROVE  Shifted(p, Len(Unread(p)))
<1>1. /\ Len(Line(p)') = Len(mailbox[p])
      /\ \A i \in 1..Len(mailbox[p]) : Line(p)'[i] = mailbox[p][i]
  <2>1. /\ Len(Line(p)') = 0 + Len(mailbox[p])
        /\ \A i \in 1..Len(mailbox[p]) : Line(p)'[0 + i] = mailbox[p][i]
    <3>1. Len(Unread(p)') = 0
      OBVIOUS
    <3> QED
      BY <3>1, NextLineIsSeq
  <2>2. Len(mailbox[p]) \in Nat
    BY LineIsSeq
  <2> QED
    BY <2>1, <2>2
<1> DEFINE n == Len(Unread(p))
           k == Len(mailbox[p])
<1>2. n \in Nat /\ k \in Nat /\ Len(Line(p)) = n + k
      /\ \A i \in 1..k : Line(p)[n + i] = mailbox[p][i]
  BY LineIsSeq, NextLineIsSeq
<1> HIDE DEF n
<1> QED
  BY <1>1, <1>2 DEF Shifted, n

\* The server gives up the messages of a mailbox.
LEMMA LineCutShort ==
    ASSUME TypeOK, TypeOK', NEW p \in User, mailbox'[p] = <<>>, Unread(p)' = Unread(p)
    PROVE  CutShort(p)
<1>1. /\ Len(Line(p)') = Len(Unread(p))
      /\ \A i \in 1..Len(Unread(p)) : Line(p)'[i] = Unread(p)[i]
  BY LineIsSeq, NextLineIsSeq
<1> QED
  BY <1>1, LineIsSeq, NextLineIsSeq DEF CutShort

LEMMA AppendLast ==
    ASSUME NEW u \in Seq(Message), NEW b \in Seq(Message), NEW m \in Message
    PROVE  u \o Append(b, m) = Append(u \o b, m)
OBVIOUS

\* The server stores a message.
LEMMA LineGrown ==
    ASSUME TypeOK, TypeOK', NEW p \in User, NEW m \in Message, Unread(p)' = Unread(p),
           mailbox'[p] = Append(mailbox[p], m)
    PROVE  Grown(p, m)
<1>1. PICK u \in Seq(Message), b \in Seq(Message) : u = Unread(p) /\ b = mailbox[p]
  BY LineIsSeq
<1>2. Line(p) = u \o b /\ Line(p)' = u \o Append(b, m)
  BY <1>1 DEF Line
<1>3. PICK l \in Seq(Message) : l = u \o b
  BY Concatenation
<1>4. Line(p) = l /\ Line(p)' = Append(l, m)
  BY <1>2, <1>3, AppendLast
<1>5. /\ Len(Append(l, m)) = Len(l) + 1 /\ Append(l, m)[Len(l) + 1] = m
      /\ \A i \in 1..Len(l) : Append(l, m)[i] = l[i]
  OBVIOUS
<1> QED
  BY <1>4, <1>5 DEF Grown

LEMMA EffectSteps ==
    ASSUME TypeOK, NEW r \in Request, Effect(r), NEW p \in User
    PROVE  /\ \/ mailbox'[p] = mailbox[p]
              \/ r.code = 604 /\ r.from = p /\ mailbox'[p] = <<>>
              \/ /\ r.code = 603 /\ r.message.to = p /\ p \in clients
                 /\ mailbox'[p] = Append(mailbox[p], r.message)
           /\ r.code = 603 /\ r.message.to = p /\ p \in clients
                => mailbox'[p] = Append(mailbox[p], r.message)
           /\ r.code = 604 /\ r.from = p => mailbox'[p] = <<>>
<1>1. CASE r.code = 603 /\ r.message.to \in clients
  <2>1. PICK q, m : q = r.message.to /\ m = r.message
    OBVIOUS
  <2>2. mailbox' = [mailbox EXCEPT ![q] = Append(@, m)]
    BY <1>1, <2>1 DEF Effect
  <2>3. mailbox'[p] = IF p = q THEN Append(mailbox[p], m) ELSE mailbox[p]
    BY <2>2 DEF TypeOK
  <2>4. p = q => mailbox'[p] = Append(mailbox[p], r.message)
    BY <2>1, <2>3, Zenon
  <2>5. r.message.to = q /\ (p # q => mailbox'[p] = mailbox[p])
    BY <2>1, <2>3, Zenon
  <2> QED
    BY <1>1, <2>4, <2>5
<1>2. CASE r.code = 604
  <2>1. mailbox' = [mailbox EXCEPT ![r.from] = <<>>]
    BY <1>2 DEF Effect
  <2> QED
    BY <1>2, <2>1 DEF TypeOK
<1>3. CASE ~(r.code = 603 /\ r.message.to \in clients) /\ r.code # 604
  <2>1. mailbox' = mailbox
    BY <1>3 DEF Effect
  <2> QED
    BY <1>3, <2>1
<1> QED
  BY <1>1, <1>2, <1>3

\* The server stores message m for p.
Delivers(p, m) ==
    \/ \E c \in User : /\ Serve(c) /\ request[c].code = 603
                       /\ request[c].message = m /\ m.to = p
    \/ \E r \in orphans : /\ ServeOrphan(r) /\ r.code = 603
                          /\ r.message = m /\ m.to = p

\* The program of p reads the next message.
Reads(p) ==
    \/ ReadSymKeyRequest(p) \/ ReadSymKey(p) \/ ReadTextMessage(p) \/ ReadUnreadable(p)
    \/ ReadSpoiled(p)

ReadStep(p) ==
    /\ Reads(p) /\ Shifted(p, 1) /\ Len(Line(p)) >= 1
    /\ Line(p)[1] = Head(reply[p].messages)

DropStep(p) ==
    /\ DecryptThrows(p) \/ ConnectionFails(p) \/ Crash(p)
    /\ \E d \in 0..Len(Line(p)) : Shifted(p, d)

CutStep(p) ==
    /\ ServerRestart \/ \E r \in orphans : ServeOrphan(r)
    /\ CutShort(p)

GrowStep(p, m) == m \in Message /\ Delivers(p, m) /\ Grown(p, m)

LineStep(p) ==
    Shifted(p, 0) \/ ReadStep(p) \/ DropStep(p) \/ CutStep(p) \/ \E m \in Message : GrowStep(p, m)

LEMMA ServeLine ==
    ASSUME TypeOK, TypeOK', Conversation, NEW c \in User, Serve(c), NEW p \in User
    PROVE  /\ LineStep(p)
           /\ request[c].code = 603 /\ request[c].message.to = p /\ p \in clients
                => GrowStep(p, request[c].message)
<1>1. PICK r \in Request : r = request[c]
  BY DEF Serve, TypeOK, Conversation
<1>2. r.from = c /\ reply[c] = NoReply /\ Effect(r)
  BY <1>1 DEF Serve, Conversation, Request, NoRequest
<1>3. /\ reply'[c] = ReplyTo(r)
      /\ \A q \in User : q # c => reply'[q] = reply[q]
  BY <1>1 DEF Serve, TypeOK
<1>4. CASE r.code = 604 /\ p = c
  <2>1. Unread(p) = <<>> /\ Unread(p)' = mailbox[p] /\ mailbox'[p] = <<>>
    BY <1>2, <1>3, <1>4, EffectSteps DEF Unread, NoReply, ReplyTo
  <2> QED
    BY <1>1, <1>4, <2>1, LineHanded DEF LineStep
<1>5. CASE ~(r.code = 604 /\ p = c)
  <2>1. Unread(p)' = Unread(p)
    <3>1. CASE p = c
      <4>1. ReplyTo(r).code # 2104
        BY <1>5, <3>1, RequestKinds DEF ReplyTo, ErrorReply
      <4> QED
        BY <1>2, <1>3, <3>1, <4>1 DEF Unread, NoReply
    <3>2. CASE p # c
      BY <1>3, <3>2 DEF Unread
    <3> QED
      BY <3>1, <3>2
  <2>2. CASE r.code = 603 /\ r.message.to = p /\ p \in clients
    <3>1. PICK m \in Message : m = r.message
      BY <2>2, RequestKinds
    <3>2. mailbox'[p] = Append(mailbox[p], m)
      BY <1>2, <2>2, <3>1, EffectSteps
    <3>3. Grown(p, m)
      BY <2>1, <3>2, LineGrown
    <3>4. Delivers(p, m)
      BY <1>1, <2>2, <3>1 DEF Delivers
    <3> QED
      BY <1>1, <3>1, <3>3, <3>4 DEF LineStep, GrowStep
  <2>3. CASE ~(r.code = 603 /\ r.message.to = p /\ p \in clients)
    <3>1. mailbox'[p] = mailbox[p]
      BY <1>2, <1>5, <2>3, EffectSteps
    <3>2. Shifted(p, 0)
      BY <2>1, <3>1, LineSame
    <3> QED
      BY <1>1, <2>3, <3>2 DEF LineStep
  <2> QED
    BY <2>2, <2>3
<1> QED
  BY <1>4, <1>5

LEMMA OrphanLine ==
    ASSUME TypeOK, TypeOK', NEW r \in orphans, ServeOrphan(r), NEW p \in User
    PROVE  LineStep(p)
<1>1. r \in Request /\ Effect(r)
  BY DEF ServeOrphan, TypeOK
<1>2. Unread(p)' = Unread(p)
  BY DEF ServeOrphan, client, Unread
<1>3. CASE mailbox'[p] = mailbox[p]
  BY <1>2, <1>3, LineSame DEF LineStep
<1>4. CASE mailbox'[p] = <<>>
  BY <1>2, <1>4, LineCutShort DEF LineStep, CutStep
<1>5. CASE /\ r.code = 603 /\ r.message.to = p /\ p \in clients
           /\ mailbox'[p] = Append(mailbox[p], r.message)
  <2>1. PICK m \in Message : m = r.message
    BY <1>1, <1>5, RequestKinds
  <2>2. Grown(p, m)
    BY <1>2, <1>5, <2>1, LineGrown
  <2>3. Delivers(p, m)
    BY <1>5, <2>1 DEF Delivers
  <2> QED
    BY <2>2, <2>3 DEF LineStep, GrowStep
<1> QED
  BY <1>1, <1>3, <1>4, <1>5, EffectSteps

LEMMA ReadLine ==
    ASSUME TypeOK, TypeOK', NEW p \in User, Reads(p)
    PROVE  ReadStep(p)
<1>1. /\ reply[p].code = 2104 /\ NextMessage(p) /\ reply[p].messages # <<>>
      /\ mailbox' = mailbox
  <2>1. CASE ReadSpoiled(p)
    BY <2>1 DEF ReadSpoiled, server
  <2>2. CASE ~ReadSpoiled(p)
    BY <2>2 DEF Reads, ReadSymKeyRequest, ReadSymKey, ReadTextMessage, ReadUnreadable,
                ReadingMessages, Read, server
  <2> QED
    BY <2>1, <2>2
<1>2. /\ Unread(p) = reply[p].messages /\ Unread(p)' = reply'[p].messages
      /\ mailbox'[p] = mailbox[p]
  BY <1>1, NextMessageTypes DEF HasMessages, Unread
<1>3. /\ Len(Unread(p)) = Len(Unread(p)') + 1
      /\ \A i \in 1..Len(Unread(p)') : Unread(p)'[i] = Unread(p)[i + 1]
      /\ Head(reply[p].messages) = Unread(p)[1]
  BY <1>1, <1>2, NextMessageTypes DEF HasMessages
<1>4. Shifted(p, 1) /\ Len(Line(p)) >= 1 /\ Line(p)[1] = Unread(p)[1]
  BY <1>2, <1>3, LineRead
<1> QED
  BY <1>3, <1>4 DEF ReadStep

LEMMA MenuLine ==
    ASSUME TypeOK, TypeOK', NEW p \in User, BackToMenu(p), mailbox'[p] = mailbox[p]
    PROVE  /\ \E d \in 0..Len(Line(p)) : Shifted(p, d)
           /\ reply[p].code # 2104 \/ reply[p].messages = <<>> => Shifted(p, 0)
<1>1. Unread(p)' = <<>>
  BY DEF BackToMenu, TypeOK, Unread, NoReply
<1>2. Shifted(p, Len(Unread(p)))
  BY <1>1, LineDropped
<1>3. Len(Unread(p)) \in 0..Len(Line(p))
  BY <1>2 DEF Shifted
<1>4. reply[p].code # 2104 \/ reply[p].messages = <<>> => Len(Unread(p)) = 0
  BY DEF Unread
<1> QED
  BY <1>2, <1>3, <1>4

LEMMA LineSteps ==
    ASSUME TypeOK, TypeOK', Conversation, [Next]_vars, NEW p \in User
    PROVE  LineStep(p)
<1>1. ASSUME reply'[p] = reply[p], mailbox'[p] = mailbox[p]
      PROVE  LineStep(p)
  BY <1>1, LineSame DEF LineStep, Unread
<1>2. ASSUME NEW c \in User, RegisterUser(c) \/ Starts(c) \/ Exit(c)
      PROVE  reply' = reply /\ mailbox' = mailbox
  BY <1>2, StartFrame DEF RegisterUser, Exit, server, Replace
<1>3. ASSUME NEW c \in User, Program(c) \/ ConnectionFails(c) \/ ReadSpoiled(c) \/ Crash(c)
      PROVE  mailbox' = mailbox
  BY <1>3, ProgramFrame, FaultFrame
<1>4. ASSUME NEW c \in User, StepOf(c)
      PROVE  LineStep(p)
  <2>1. CASE RegisterUser(c) \/ Starts(c) \/ Exit(c)
    BY <1>1, <1>2, <2>1
  <2>2. CASE Serve(c)
    BY <2>2, ServeLine
  <2>3. CASE (Program(c) \/ ConnectionFails(c) \/ ReadSpoiled(c) \/ Crash(c)) /\ p # c
    BY <1>1, <1>3, <1>4, <2>3, OthersKept
  <2>4. CASE Program(p) /\ p = c
    <3>1. CASE Reads(p)
      BY <3>1, ReadLine DEF LineStep
    <3>2. CASE ReadNothing(p) \/ ReadClientsList(p) \/ ReadPublicKey(p) \/ EndOfMessages(p)
      BY <1>3, <2>4, <3>2, MenuLine
      DEF LineStep, ReadNothing, ReadClientsList, ReadPublicKey, EndOfMessages, Replace
    <3>3. CASE DecryptThrows(p)
      BY <1>3, <2>4, <3>3, MenuLine DEF LineStep, DropStep, DecryptThrows
    <3> QED
      BY <2>4, <3>1, <3>2, <3>3 DEF Program, Reads
  <2>5. CASE (ConnectionFails(p) \/ Crash(p)) /\ p = c
    BY <1>3, <2>5, MenuLine DEF LineStep, DropStep, ConnectionFails, Crash, Replace
  <2>6. CASE ReadSpoiled(p) /\ p = c
    BY <2>6, ReadLine DEF Reads, LineStep
  <2> QED
    BY <1>4, <2>1, <2>2, <2>3, <2>4, <2>5, <2>6 DEF StepOf
<1>5. ASSUME NEW r \in orphans, ServeOrphan(r)
      PROVE  LineStep(p)
  BY <1>5, OrphanLine
<1>6. CASE ServerRestart
  <2>1. mailbox'[p] = <<>> /\ Unread(p)' = Unread(p)
    BY <1>6 DEF ServerRestart, Unread
  <2> QED
    BY <1>6, <2>1, LineCutShort DEF LineStep, CutStep
<1>7. CASE UNCHANGED vars
  BY <1>1, <1>7 DEF vars, client, server
<1> QED
  BY <1>4, <1>5, <1>6, <1>7, NextSteps

-------------------------------------------------------------------------------
(* What a step changes of the histories, the requests and the orphans. *)

KeyMade(c, p) == StartSymKey(c, p) /\ keys' = Append(keys, [from |-> c, to |-> p])
TextWritten(c, p) == StartTextMessage(c, p) /\ texts' = Append(texts, [from |-> c, to |-> p])

LEMMA HistorySteps ==
    ASSUME [Next]_vars
    PROVE  /\ UNCHANGED keys \/ \E c, p \in User : KeyMade(c, p)
           /\ UNCHANGED texts \/ \E c, p \in User : TextWritten(c, p)
<1>1. ASSUME NEW c \in User, Starts(c)
      PROVE  /\ UNCHANGED keys \/ \E p \in User : KeyMade(c, p)
             /\ UNCHANGED texts \/ \E p \in User : TextWritten(c, p)
  BY <1>1 DEF Starts, StartClientsList, StartWaitingMessages, StartPublicKey,
              StartTextMessage, StartSymKeyRequest, StartSymKey, KeyMade, TextWritten, Replace
<1>2. ASSUME NEW c \in User, StepOf(c), ~Starts(c)
      PROVE  UNCHANGED <<keys, texts>>
  BY <1>2, ServerFrame, ProgramFrame, FaultFrame DEF StepOf
<1>3. ASSUME NEW r \in orphans, ServeOrphan(r)
      PROVE  UNCHANGED <<keys, texts>>
  BY <1>3 DEF ServeOrphan, history
<1>4. ServerRestart \/ UNCHANGED vars => UNCHANGED <<keys, texts>>
  BY DEF ServerRestart, vars, history
<1> QED
  BY <1>1, <1>2, <1>3, <1>4, NextSteps

\* The histories only grow.
LEMMA HistoryGrows ==
    ASSUME TypeOK, [Next]_vars
    PROVE  /\ DOMAIN keys = 1..Len(keys) /\ Len(keys) \in Nat
           /\ DOMAIN texts = 1..Len(texts) /\ Len(texts) \in Nat
           /\ DOMAIN keys \subseteq DOMAIN keys' /\ \A k \in DOMAIN keys : keys'[k] = keys[k]
           /\ DOMAIN texts \subseteq DOMAIN texts' /\ \A x \in DOMAIN texts : texts'[x] = texts[x]
<1>1. keys \in Seq([from: User, to: User]) /\ texts \in Seq([from: User, to: User])
  BY DEF TypeOK
<1>2. ASSUME NEW s \in Seq([from: User, to: User]), NEW c \in User, NEW p \in User, NEW t,
             t = Append(s, [from |-> c, to |-> p])
      PROVE  DOMAIN s \subseteq DOMAIN t /\ \A k \in DOMAIN s : t[k] = s[k]
  BY <1>2
<1>3. DOMAIN keys \subseteq DOMAIN keys' /\ \A k \in DOMAIN keys : keys'[k] = keys[k]
  <2>1. ASSUME NEW c \in User, NEW p \in User, KeyMade(c, p)
        PROVE  DOMAIN keys \subseteq DOMAIN keys' /\ \A k \in DOMAIN keys : keys'[k] = keys[k]
    <3>1. keys' = Append(keys, [from |-> c, to |-> p])
      BY <2>1 DEF KeyMade
    <3> QED
      BY <1>1, <1>2, <3>1
  <2> QED
    BY <2>1, HistorySteps
<1>4. DOMAIN texts \subseteq DOMAIN texts' /\ \A x \in DOMAIN texts : texts'[x] = texts[x]
  <2>1. ASSUME NEW c \in User, NEW p \in User, TextWritten(c, p)
        PROVE  DOMAIN texts \subseteq DOMAIN texts' /\ \A x \in DOMAIN texts : texts'[x] = texts[x]
    <3>1. texts' = Append(texts, [from |-> c, to |-> p])
      BY <2>1 DEF TextWritten
    <3> QED
      BY <1>1, <1>2, <3>1
  <2> QED
    BY <2>1, HistorySteps
<1> QED
  BY <1>1, <1>3, <1>4

LEMMA NewKeyLast ==
    ASSUME TypeOK, NEW c \in User, NEW p \in User, KeyMade(c, p)
    PROVE  /\ DOMAIN keys = 1..Len(keys) /\ Len(keys) \in Nat
           /\ DOMAIN keys' = 1..(Len(keys) + 1)
           /\ keys'[Len(keys) + 1] = [from |-> c, to |-> p]
           /\ \A k \in DOMAIN keys : keys'[k] = keys[k]
BY DEF TypeOK, KeyMade

LEMMA NewTextLast ==
    ASSUME TypeOK, NEW c \in User, NEW p \in User, TextWritten(c, p)
    PROVE  /\ DOMAIN texts = 1..Len(texts) /\ Len(texts) \in Nat
           /\ DOMAIN texts' = 1..(Len(texts) + 1)
           /\ texts'[Len(texts) + 1] = [from |-> c, to |-> p]
           /\ \A x \in DOMAIN texts : texts'[x] = texts[x]
BY DEF TypeOK, TextWritten

\* The message of a request 603 that a program sends.
LEMMA NewMessages ==
    ASSUME TypeOK, NEW c \in User, Starts(c), request'[c].code = 603,
           NEW m, m = request'[c].message
    PROVE  /\ m.from = c /\ m.to \in Known(c) /\ m.to \in User
           /\ \/ m.type = 1 /\ UNCHANGED <<keys, texts>>
              \/ /\ m.type = 2 /\ KeyMade(c, m.to) /\ m.key = Len(keys) + 1
                 /\ UNCHANGED texts
              \/ /\ m.type = 3 /\ TextWritten(c, m.to) /\ m.text = Len(texts) + 1
                 /\ m.key = SymmetricKey(c, m.to) /\ m.key # NoKey
                 /\ UNCHANGED keys
<1>1. ASSUME NEW r, Call(c, r)
      PROVE  request'[c] = r
  BY <1>1 DEF Call, TypeOK
<1>2. CASE StartClientsList(c)
  BY <1>1, <1>2 DEF StartClientsList, Replace
<1>3. CASE StartWaitingMessages(c)
  BY <1>1, <1>3 DEF StartWaitingMessages
<1>4. ASSUME NEW p \in User, StartPublicKey(c, p)
      PROVE  FALSE
  BY <1>1, <1>4 DEF StartPublicKey
<1>5. ASSUME NEW n, Send(c, n)
      PROVE  m = n
  BY <1>1, <1>5 DEF Send
<1>6. ASSUME NEW p \in User, StartTextMessage(c, p)
      PROVE  /\ m.type = 3 /\ TextWritten(c, m.to) /\ m.text = Len(texts) + 1
             /\ m.key = SymmetricKey(c, m.to) /\ m.key # NoKey
             /\ UNCHANGED keys /\ m.from = c /\ m.to \in Known(c) /\ m.to = p
  <2> DEFINE n == [type |-> 3, from |-> c, to |-> p,
                   key |-> SymmetricKey(c, p), text |-> Len(texts) + 1]
  <2>1. /\ Send(c, n) /\ SymmetricKey(c, p) # NoKey /\ UNCHANGED keys
        /\ texts' = Append(texts, [from |-> c, to |-> p])
    BY <1>6 DEF StartTextMessage
  <2>2. m = n
    BY <1>5, <2>1
  <2>3. p \in Known(c)
    BY <2>1 DEF SymmetricKey
  <2>4. /\ m.type = 3 /\ m.from = c /\ m.to = p /\ m.key = SymmetricKey(c, p)
        /\ m.text = Len(texts) + 1
    BY <2>2
  <2> QED
    BY <1>6, <2>1, <2>3, <2>4 DEF TextWritten
<1>7. ASSUME NEW p \in User, StartSymKeyRequest(c, p)
      PROVE  /\ m.type = 1 /\ UNCHANGED <<keys, texts>>
             /\ m.from = c /\ m.to \in Known(c) /\ m.to = p
  BY <1>5, <1>7 DEF StartSymKeyRequest
<1>8. ASSUME NEW p \in User, StartSymKey(c, p)
      PROVE  /\ m.type = 2 /\ KeyMade(c, m.to) /\ m.key = Len(keys) + 1
             /\ UNCHANGED texts /\ m.from = c /\ m.to \in Known(c) /\ m.to = p
  <2> DEFINE n == [type |-> 2, from |-> c, to |-> p, key |-> Len(keys) + 1]
  <2>1. /\ Send(c, n) /\ p \in Known(c) /\ UNCHANGED texts
        /\ keys' = Append(keys, [from |-> c, to |-> p])
    BY <1>8 DEF StartSymKey
  <2>2. m = n
    BY <1>5, <2>1
  <2>3. m.type = 2 /\ m.from = c /\ m.to = p /\ m.key = Len(keys) + 1
    BY <2>2
  <2> QED
    BY <1>8, <2>1, <2>3 DEF KeyMade
<1> QED
  BY <1>2, <1>3, <1>4, <1>6, <1>7, <1>8 DEF Starts

\* A request is sent from the menu and stays until the program is back there.
LEMMA RequestSteps ==
    ASSUME TypeOK, Conversation, [Next]_vars, NEW c \in User
    PROVE  \/ request'[c] = request[c] /\ (state'[c] = "sent" => state[c] = "sent")
           \/ request'[c] = NoRequest
           \/ Starts(c) /\ state[c] = "menu" /\ state'[c] = "sent" /\ request[c] = NoRequest
<1> USE DEF TypeOK
<1>1. ASSUME NEW d \in User, StepOf(d), d # c
      PROVE  request'[c] = request[c] /\ state'[c] = state[c]
  BY <1>1, OthersKept
<1>2. CASE Starts(c)
  <2>1. PICK r : Call(c, r)
    BY <1>2, StartCalls DEF Calls
  <2> QED
    BY <1>2, <2>1 DEF Call, Conversation
<1>3. CASE BackToMenu(c)
  BY <1>3 DEF BackToMenu
<1>4. CASE RegisterUser(c) \/ Serve(c) \/ Exit(c)
  BY <1>4 DEF RegisterUser, Serve, Exit, Replace
<1>5. CASE Reads(c)
  BY <1>5 DEF Reads, ReadSymKeyRequest, ReadSymKey, ReadTextMessage, ReadUnreadable, ReadSpoiled,
              NextMessage
<1>6. StepOf(c) => BackToMenu(c) \/ Starts(c) \/ RegisterUser(c) \/ Serve(c) \/ Exit(c) \/ Reads(c)
  BY DEF StepOf, Program, Reads, ReadNothing, ReadClientsList, ReadPublicKey, EndOfMessages,
         DecryptThrows, ConnectionFails, Crash, Replace
<1>7. CASE ServerRestart
  BY <1>7 DEF ServerRestart
<1>8. ASSUME NEW r \in orphans, ServeOrphan(r)
      PROVE  request' = request /\ state' = state
  BY <1>8 DEF ServeOrphan, client
<1>9. CASE UNCHANGED vars
  BY <1>9 DEF vars, client
<1> HIDE DEF TypeOK
<1> QED
  BY <1>1, <1>2, <1>3, <1>4, <1>5, <1>6, <1>7, <1>8, <1>9, NextSteps

\* A request becomes an orphan when its program gives up before the reply.
LEMMA OrphanSteps ==
    ASSUME TypeOK, [Next]_vars, NEW r \in orphans'
    PROVE  \/ r \in orphans /\ ~ServeOrphan(r)
           \/ \E c \in User : /\ state[c] = "sent" /\ r = request[c]
                              /\ ConnectionFails(c) \/ Crash(c)
                              /\ request'[c] = NoRequest /\ state'[c] = "menu"
<1>1. ASSUME NEW q \in orphans, ServeOrphan(q)
      PROVE  r \in orphans /\ r # q
  BY <1>1 DEF ServeOrphan
<1>2. ASSUME ServeOrphan(r)
      PROVE  FALSE
  BY <1>2 DEF ServeOrphan
<1>3. CASE r \in orphans
  BY <1>2, <1>3
<1>4. CASE r \notin orphans
  <2>1. ASSUME NEW c \in User, ConnectionFails(c) \/ Crash(c)
        PROVE  /\ state[c] = "sent" /\ r = request[c]
               /\ request'[c] = NoRequest /\ state'[c] = "menu"
    BY <1>4, <2>1 DEF ConnectionFails, Crash, BackToMenu, TypeOK, Replace
  <2>2. ASSUME NEW c \in User, StepOf(c), ~(ConnectionFails(c) \/ Crash(c))
        PROVE  FALSE
    BY <1>4, <2>2, StartFrame, ProgramFrame, ServerFrame DEF StepOf, ReadSpoiled, Exit, Replace
  <2>3. ~ServerRestart /\ ~UNCHANGED vars
    BY <1>4 DEF ServerRestart, vars
  <2> QED
    BY <1>1, <1>4, <2>1, <2>2, <2>3, NextSteps
<1> QED
  BY <1>3, <1>4

LEMMA AcknowledgedSteps ==
    ASSUME TypeOK, Conversation, [Next]_vars, NEW x \in acknowledged'
    PROVE  \/ x \in acknowledged
           \/ \E c \in User : /\ ReadNothing(c) /\ state[c] = "answered"
                              /\ Carries(request[c], 3) /\ x = request[c].message.text
<1>1. ASSUME NEW c \in User, ReadNothing(c), x \notin acknowledged
      PROVE  state[c] = "answered" /\ Carries(request[c], 3) /\ x = request[c].message.text
  BY <1>1 DEF ReadNothing, Read, Carries, Conversation
<1>2. ASSUME NEW c \in User, StepOf(c), ~ReadNothing(c)
      PROVE  acknowledged' = acknowledged
  BY <1>2, StartFrame, ProgramFrame, ServerFrame, FaultFrame DEF StepOf
<1>3. ASSUME NEW r \in orphans, ServeOrphan(r)
      PROVE  acknowledged' = acknowledged
  BY <1>3 DEF ServeOrphan, history
<1>4. ServerRestart \/ UNCHANGED vars => acknowledged' = acknowledged
  BY DEF ServerRestart, vars, history
<1> QED
  BY <1>1, <1>2, <1>3, <1>4, NextSteps

\* A text is displayed when its message is read.
Shows(p, m) ==
    /\ ReadTextMessage(p) /\ ReadStep(p)
    /\ m \in Message /\ m.type = 3 /\ m = Line(p)[1]
    /\ shown' = Append(shown, Displayed(m))

LEMMA ShownSteps ==
    ASSUME TypeOK, TypeOK', [Next]_vars
    PROVE  shown' = shown \/ \E p \in User, m \in Message : Shows(p, m)
<1>1. ASSUME NEW p \in User, ReadTextMessage(p)
      PROVE  \E m \in Message : Shows(p, m)
  <2>1. ReadStep(p)
    BY <1>1, ReadLine DEF Reads
  <2>2. PICK m : m = Head(reply[p].messages)
    OBVIOUS
  <2>3. m.type = 3 /\ shown' = Append(shown, Displayed(m))
    BY <1>1, <2>2 DEF ReadTextMessage
  <2>4. m = Line(p)[1] /\ m \in Message
    <3>1. /\ HasMessages(p) /\ NextMessage(p) /\ reply[p].messages # <<>>
          /\ m = Line(p)[1]
      BY <1>1, <2>1, <2>2 DEF ReadStep, ReadTextMessage, ReadingMessages, HasMessages
    <3> QED
      BY <2>2, <3>1, NextMessageTypes
  <2> QED
    BY <1>1, <2>1, <2>3, <2>4 DEF Shows
<1>2. ASSUME NEW c \in User, StepOf(c), ~ReadTextMessage(c)
      PROVE  shown' = shown
  BY <1>2, StartFrame, ProgramFrame, ServerFrame, FaultFrame DEF StepOf
<1>3. ASSUME NEW r \in orphans, ServeOrphan(r)
      PROVE  shown' = shown
  BY <1>3 DEF ServeOrphan, history
<1>4. ServerRestart \/ UNCHANGED vars => shown' = shown
  BY DEF ServerRestart, vars, history
<1> QED
  BY <1>1, <1>2, <1>3, <1>4, NextSteps

LEMMA ShownGrows ==
    ASSUME TypeOK, TypeOK', [Next]_vars, NEW i \in DOMAIN shown'
    PROVE  /\ Len(shown) \in Nat /\ DOMAIN shown = 1..Len(shown)
           /\ DOMAIN shown' = 1..Len(shown')
           /\ \/ i \in DOMAIN shown /\ shown'[i] = shown[i]
              \/ /\ i = Len(shown) + 1
                 /\ \E p \in User, m \in Message : Shows(p, m) /\ shown'[i] = Displayed(m)
<1>1. /\ shown \in Seq([to: User, from: User, text: Text])
      /\ shown' \in Seq([to: User, from: User, text: Text])
  BY DEF TypeOK
<1>2. CASE shown' = shown
  BY <1>1, <1>2
<1>3. ASSUME NEW p \in User, NEW m \in Message, Shows(p, m)
      PROVE  \/ i \in DOMAIN shown /\ shown'[i] = shown[i]
             \/ i = Len(shown) + 1 /\ shown'[i] = Displayed(m)
  <2>1. PICK d : d = Displayed(m)
    OBVIOUS
  <2>2. shown' = Append(shown, d) /\ d \in [to: User, from: User, text: Text]
    BY <1>3, <2>1, MessageKinds DEF Shows, Displayed
  <2>3. i \in 1..(Len(shown) + 1)
    BY <1>1, <2>2
  <2>4. i \in 1..Len(shown) => shown'[i] = shown[i]
    BY <1>1, <2>2
  <2>5. shown'[Len(shown) + 1] = d
    BY <1>1, <2>2
  <2> QED
    BY <1>1, <2>1, <2>3, <2>4, <2>5
<1> QED
  BY <1>1, <1>2, <1>3, ShownSteps


-------------------------------------------------------------------------------
(* The keys and texts of messages. *)

\* A message on its way in the next state is on its way already, or is stored now.
LEMMA InLine ==
    ASSUME TypeOK, TypeOK', Conversation, [Next]_vars, NEW p \in User, NEW j \in DOMAIN Line(p)'
    PROVE  \/ \E i \in DOMAIN Line(p) : Line(p)'[j] = Line(p)[i]
           \/ \E m \in Message : GrowStep(p, m) /\ j = Len(Line(p)) + 1 /\ Line(p)'[j] = m
<1>1. /\ DOMAIN Line(p)' = 1..Len(Line(p)') /\ DOMAIN Line(p) = 1..Len(Line(p))
      /\ Len(Line(p)) \in Nat /\ Len(Line(p)') \in Nat
  BY LineIsSeq, NextLineIsSeq
<1>2. ASSUME NEW d \in 0..Len(Line(p)), Shifted(p, d)
      PROVE  j + d \in DOMAIN Line(p) /\ Line(p)'[j] = Line(p)[j + d]
  BY <1>1, <1>2 DEF Shifted
<1>3. ASSUME CutShort(p)
      PROVE  j \in DOMAIN Line(p) /\ Line(p)'[j] = Line(p)[j]
  BY <1>1, <1>3 DEF CutShort
<1>4. ASSUME NEW m \in Message, GrowStep(p, m), j \notin DOMAIN Line(p)
      PROVE  j = Len(Line(p)) + 1 /\ Line(p)'[j] = m
  BY <1>1, <1>4 DEF GrowStep, Grown
<1>5. ASSUME NEW m \in Message, GrowStep(p, m), j \in DOMAIN Line(p)
      PROVE  Line(p)'[j] = Line(p)[j]
  BY <1>1, <1>5 DEF GrowStep, Grown
<1>6. Shifted(p, 1) => 1 \in 0..Len(Line(p))
  BY DEF Shifted
<1>7. 0 \in 0..Len(Line(p))
  BY <1>1
<1> QED
  BY <1>2, <1>3, <1>4, <1>5, <1>6, <1>7, LineSteps DEF LineStep, ReadStep, DropStep, CutStep

LEMMA SoundKept ==
    ASSUME TypeOK, [Next]_vars, NEW m, Sound(m)
    PROVE  Sound(m)'
BY HistoryGrows DEF Sound

\* The message that a step stores is that of a request.
LEMMA DeliveredSound ==
    ASSUME TypeOK, Conversation, MessagesSound, NEW p \in User, NEW m, Delivers(p, m)
    PROVE  m.to = p /\ Sound(m)
BY DEF Delivers, MessagesSound

LEMMA SentSound ==
    ASSUME TypeOK, TypeOK', KeysHeld, [Next]_vars, NEW c \in User, Starts(c),
           request'[c].code = 603, NEW m, m = request'[c].message
    PROVE  Sound(m)'
<1>1. CASE m.type = 1
  BY <1>1 DEF Sound
<1>2. CASE m.type = 2
  <2>1. m.from = c /\ m.to \in User /\ KeyMade(c, m.to) /\ m.key = Len(keys) + 1
    BY <1>2, NewMessages
  <2>2. m.key \in DOMAIN keys' /\ keys'[m.key] = [from |-> m.from, to |-> m.to]
    BY <2>1, NewKeyLast
  <2> QED
    BY <1>2, <2>2 DEF Sound
<1>3. CASE m.type = 3
  <2>1. PICK p \in User : p = m.to
    BY NewMessages
  <2>2. /\ m.from = c /\ TextWritten(c, p) /\ m.text = Len(texts) + 1
        /\ m.key = SymmetricKey(c, p) /\ m.key # NoKey
    BY <1>3, <2>1, NewMessages
  <2>3. m.text \in DOMAIN texts' /\ texts'[m.text] = [from |-> c, to |-> p]
    BY <2>2, NewTextLast
  <2>4. m.key \in DOMAIN keys /\ keys[m.key] \in {[from |-> c, to |-> p], [from |-> p, to |-> c]}
    BY <2>2 DEF KeysHeld, KeyOfPair
  <2>5. m.key \in DOMAIN keys' /\ keys'[m.key] = keys[m.key]
    BY <2>4, HistoryGrows
  <2> QED
    BY <1>3, <2>1, <2>2, <2>3, <2>4, <2>5 DEF Sound
<1> QED
  BY <1>1, <1>2, <1>3, NewMessages

LEMMA MessagesSoundInit == Init => MessagesSound
<1> SUFFICES ASSUME Init PROVE MessagesSound
  OBVIOUS
<1>1. ASSUME NEW p \in User
      PROVE  DOMAIN Line(p) = {} /\ request[p].code = 0
  <2>1. Len(Line(p)) = 0 /\ DOMAIN Line(p) = 1..Len(Line(p))
    <3>1. Unread(p) = <<>> /\ mailbox[p] = <<>>
      BY DEF Init, Unread, NoReply
    <3> QED
      BY <3>1, TypeInit, LineIsSeq
  <2> QED
    BY <2>1 DEF Init, NoRequest
<1>2. orphans = {} /\ acknowledged = {} /\ DOMAIN shown = {}
  BY DEF Init
<1> QED
  BY <1>1, <1>2 DEF MessagesSound

LEMMA MessagesSoundNext ==
    ASSUME TypeOK, TypeOK', Conversation, MessagesSound, KeysHeld, [Next]_vars
    PROVE  MessagesSound'
<1>1. ASSUME NEW p \in User, NEW j \in DOMAIN Line(p)'
      PROVE  Line(p)'[j].to = p /\ Sound(Line(p)[j])'
  <2>1. PICK m : m = Line(p)'[j]
    OBVIOUS
  <2>2. m.to = p /\ Sound(m)
    BY <1>1, <2>1, InLine, DeliveredSound DEF MessagesSound, GrowStep
  <2>3. Sound(m)'
    BY <2>2, SoundKept
  <2> QED
    BY <2>1, <2>2, <2>3 DEF Sound
<1>2. ASSUME NEW c \in User, request'[c].code = 603
      PROVE  Sound(request[c].message)'
  <2>1. PICK m : m = request'[c].message
    OBVIOUS
  <2>2. CASE request'[c] = request[c]
    <3>1. Sound(m)
      BY <1>2, <2>1, <2>2 DEF MessagesSound
    <3> QED
      BY <2>1, <3>1, SoundKept DEF Sound
  <2>3. CASE Starts(c)
    <3>1. Sound(m)'
      BY <1>2, <2>1, <2>3, SentSound
    <3> QED
      BY <2>1, <3>1 DEF Sound
  <2> QED
    BY <1>2, <2>2, <2>3, RequestSteps DEF NoRequest
<1>3. ASSUME NEW r \in orphans', r.code = 603
      PROVE  Sound(r.message)'
  <2>1. PICK m : m = r.message
    OBVIOUS
  <2>2. Sound(m)
    BY <1>3, <2>1, OrphanSteps DEF MessagesSound
  <2> QED
    BY <2>1, <2>2, SoundKept DEF Sound
<1>4. acknowledged' \subseteq DOMAIN texts'
  <2>1. ASSUME NEW x \in acknowledged'
        PROVE  x \in DOMAIN texts
    <3>1. CASE x \in acknowledged
      BY <3>1 DEF MessagesSound
    <3>2. ASSUME NEW c \in User, Carries(request[c], 3), NEW m, m = request[c].message,
                 x = m.text
          PROVE  x \in DOMAIN texts
      <4>1. Sound(m) /\ m.type = 3
        BY <3>2 DEF MessagesSound, Carries
      <4> QED
        BY <3>2, <4>1 DEF Sound
    <3> QED
      BY <3>1, <3>2, AcknowledgedSteps
  <2> QED
    BY <2>1, HistoryGrows
<1>5. ASSUME NEW i \in DOMAIN shown'
      PROVE  /\ shown'[i].text \in DOMAIN texts'
             /\ texts'[shown'[i].text] = [from |-> shown'[i].from, to |-> shown'[i].to]
  <2>1. PICK s : s = shown'[i]
    OBVIOUS
  <2>2. s.text \in DOMAIN texts /\ texts[s.text] = [from |-> s.from, to |-> s.to]
    <3>1. CASE i \in DOMAIN shown /\ shown'[i] = shown[i]
      BY <2>1, <3>1 DEF MessagesSound
    <3>2. ASSUME NEW p \in User, NEW m \in Message, Shows(p, m), s = Displayed(m)
          PROVE  s.text \in DOMAIN texts /\ texts[s.text] = [from |-> s.from, to |-> s.to]
      <4>1. m.type = 3 /\ 1 \in DOMAIN Line(p) /\ m = Line(p)[1]
        BY <3>2, LineIsSeq DEF Shows, ReadStep
      <4>2. Sound(m)
        BY <4>1 DEF MessagesSound
      <4> QED
        BY <3>2, <4>1, <4>2 DEF Sound, Displayed
    <3>3. \/ i \in DOMAIN shown /\ shown'[i] = shown[i]
          \/ \E p \in User, m \in Message : Shows(p, m) /\ s = Displayed(m)
      BY <2>1, ShownGrows
    <3> QED
      BY <3>1, <3>2, <3>3
  <2> QED
    BY <2>1, <2>2, HistoryGrows
<1> QED
  BY <1>1, <1>2, <1>3, <1>4, <1>5 DEF MessagesSound

-------------------------------------------------------------------------------
(* The keys that clients hold. *)

\* What becomes of the key a client holds for a user.
KeyStep(c, p, k, l) ==
    \/ l = k
    \/ l = NoKey
    \/ KeyMade(c, p) /\ p \in Known(c) /\ l = Len(keys) + 1
    \/ /\ ReadSymKey(c) /\ p \in Known(c)
       /\ Line(c)[1].type = 2 /\ p = Line(c)[1].from /\ l = Line(c)[1].key

LEMMA KeySteps ==
    ASSUME TypeOK, TypeOK', [Next]_vars, NEW c \in User, NEW p \in User,
           NEW k, k = SymmetricKey(c, p), NEW l, l = SymmetricKey(c, p)'
    PROVE  KeyStep(c, p, k, l)
<1>1. ASSUME UNCHANGED m_clients
      PROVE  l = k
  BY <1>1 DEF SymmetricKey, Known
<1>2. ASSUME NEW d \in User, StepOf(d), d # c
      PROVE  l = k
  BY <1>2, OthersKept DEF SymmetricKey, Known
<1>3. ASSUME StepOf(c)
      PROVE  KeyStep(c, p, k, l)
  <2>1. CASE SameKnowledge(c) \/ NoKnowledge(c) \/ NewList(c)
    BY <2>1 DEF SameKnowledge, NoKnowledge, NewList, KeyStep
  <2>2. ASSUME NEW q \in User, StartSymKey(c, q), NEW n, n = Len(keys) + 1, NewKey(c, q, n)
        PROVE  KeyStep(c, p, k, l)
    <3>1. KeyMade(c, q)
      BY <2>2 DEF StartSymKey, KeyMade
    <3> QED
      BY <2>2, <3>1 DEF NewKey, KeyStep
  <2>3. ASSUME NEW m, m = Head(reply[c].messages), ReadSymKey(c),
               NEW q, NEW n, q = m.from, n = m.key, NewKey(c, q, n)
        PROVE  KeyStep(c, p, k, l)
    <3>1. m = Line(c)[1]
      BY <2>3, ReadLine DEF Reads, ReadStep
    <3>2. m.type = 2
      BY <2>3 DEF ReadSymKey
    <3> QED
      BY <2>3, <3>1, <3>2 DEF NewKey, KeyStep
  <2>4. \A q \in User : StartSymKey(c, q) /\ NewKey(c, q, Len(keys) + 1)
          => \E n : n = Len(keys) + 1 /\ NewKey(c, q, n)
    BY DEF NewKey
  <2> QED
    BY <1>3, <2>1, <2>2, <2>3, <2>4, KnowledgeSteps
<1>4. \/ \E r \in orphans : ServeOrphan(r)
      \/ ServerRestart
      \/ UNCHANGED vars
      => UNCHANGED m_clients
  BY DEF ServeOrphan, ServerRestart, vars, client
<1> QED
  BY <1>1, <1>2, <1>3, <1>4, NextSteps DEF KeyStep

\* The first message of a line, when its program reads it.
LEMMA KeyRead ==
    ASSUME TypeOK, TypeOK', MessagesSound, NEW c \in User, ReadSymKey(c)
    PROVE  /\ 1 \in DOMAIN Line(c) /\ Line(c)[1].to = c /\ Line(c)[1].type = 2
           /\ Line(c)[1].key \in DOMAIN keys
           /\ keys[Line(c)[1].key] = [from |-> Line(c)[1].from, to |-> c]
<1>1. PICK m : m = Line(c)[1]
  OBVIOUS
<1>2. m.type = 2
  <2>1. m = Head(reply[c].messages)
    BY <1>1, ReadLine DEF Reads, ReadStep
  <2> QED
    BY <2>1 DEF ReadSymKey
<1>3. 1 \in DOMAIN Line(c)
  BY ReadLine, LineIsSeq DEF Reads, ReadStep
<1>4. m.to = c /\ Sound(m)
  BY <1>1, <1>3 DEF MessagesSound
<1>5. m.key \in DOMAIN keys /\ keys[m.key] = [from |-> m.from, to |-> m.to]
  BY <1>2, <1>4 DEF Sound
<1> QED
  BY <1>1, <1>2, <1>3, <1>4, <1>5

\* A new key is owed if its addressee has its generator on its list.
LEMMA OwedSteps ==
    ASSUME [Next]_vars, NEW k \in owed', k \notin owed
    PROVE  \E c, p \in User : KeyMade(c, p) /\ c \in Known(p) /\ k = Len(keys) + 1
<1>1. ASSUME NEW c \in User, NEW p \in User, StartSymKey(c, p)
      PROVE  KeyMade(c, p) /\ c \in Known(p) /\ k = Len(keys) + 1
  <2>1. owed' = IF c \in Known(p) THEN owed \cup {Len(keys) + 1} ELSE owed
    BY <1>1 DEF StartSymKey
  <2>2. KeyMade(c, p)
    BY <1>1 DEF StartSymKey, KeyMade
  <2> QED
    BY <2>1, <2>2
<1>2. ASSUME NEW c \in User, StepOf(c), \A p \in User : ~StartSymKey(c, p)
      PROVE  owed' \subseteq owed
  <2>1. CASE RegisterUser(c) \/ Serve(c)
    BY <2>1 DEF RegisterUser, Serve, history
  <2>2. CASE Starts(c)
    BY <1>2, <2>2 DEF Starts, StartClientsList, StartWaitingMessages, StartPublicKey,
                StartTextMessage, StartSymKeyRequest, Replace
  <2>3. CASE ReadNothing(c) \/ ReadClientsList(c) \/ ReadPublicKey(c)
    BY <2>3 DEF ReadNothing, ReadClientsList, ReadPublicKey, Replace
  <2>4. CASE EndOfMessages(c) \/ ReadSymKeyRequest(c) \/ ReadSymKey(c)
    BY <2>4 DEF EndOfMessages, ReadSymKeyRequest, ReadSymKey, ReadingMessages
  <2>5. CASE ReadTextMessage(c) \/ ReadUnreadable(c) \/ DecryptThrows(c)
    BY <2>5 DEF ReadTextMessage, ReadUnreadable, DecryptThrows, ReadingMessages
  <2>6. CASE ConnectionFails(c) \/ ReadSpoiled(c) \/ Crash(c) \/ Exit(c)
    BY <2>6 DEF ConnectionFails, ReadSpoiled, Crash, Exit, Replace, history
  <2> QED
    BY <1>2, <2>1, <2>2, <2>3, <2>4, <2>5, <2>6 DEF StepOf, Program
<1>3. \/ \E r \in orphans : ServeOrphan(r)
      \/ ServerRestart
      \/ UNCHANGED vars
      => owed' = owed
  BY DEF ServeOrphan, ServerRestart, vars, history
<1> QED
  BY <1>1, <1>2, <1>3, NextSteps

\* A client keeps its list, or is owed nothing any more.
LEMMA ListSteps ==
    ASSUME TypeOK, [Next]_vars, NEW p \in User
    PROVE  Known(p)' = Known(p) \/ NothingOwed(p)
<1>1. ASSUME NEW d \in User, StepOf(d), d # p
      PROVE  Known(p)' = Known(p)
  BY <1>1, OthersKept DEF Known
<1>2. StepOf(p) => Known(p)' = Known(p) \/ NothingOwed(p)
  BY KnowledgeSteps DEF SameKnowledge, NoKnowledge, NewList, NewKey
<1>3. \/ \E r \in orphans : ServeOrphan(r)
      \/ ServerRestart
      \/ UNCHANGED vars
      => Known(p)' = Known(p)
  BY DEF ServeOrphan, ServerRestart, vars, client, Known
<1> QED
  BY <1>1, <1>2, <1>3, NextSteps

\* Whoever is owed a key has its generator on its list.
LEMMA OwedListed ==
    ASSUME TypeOK, TypeOK', KeysHeld, [Next]_vars, NEW k \in owed'
    PROVE  /\ k \in DOMAIN keys'
           /\ \E c, p \in User : keys'[k] = [from |-> c, to |-> p] /\ c \in Known(p)'
<1>1. CASE k \notin owed
  <2>1. PICK c \in User, p \in User : KeyMade(c, p) /\ c \in Known(p) /\ k = Len(keys) + 1
    BY <1>1, OwedSteps
  <2>2. k \in DOMAIN keys' /\ keys'[k] = [from |-> c, to |-> p]
    BY <2>1, NewKeyLast
  <2>3. c # p => Known(p)' = Known(p)
    BY <2>1, OthersKept DEF KeyMade, StepOf, Starts, Known
  <2>4. c = p => Known(p)' = Known(p)
    <3>1. PICK n : n = Len(keys) + 1
      OBVIOUS
    <3>2. m_clients' = [m_clients EXCEPT ![c][p].symmetricKey = n]
      BY <2>1, <3>1 DEF KeyMade, StartSymKey
    <3> QED
      BY <3>2, KeySet
  <2> QED
    BY <2>1, <2>2, <2>3, <2>4
<1>2. CASE k \in owed
  <2>1. PICK c \in User, p \in User : k \in DOMAIN keys /\ keys[k] = [from |-> c, to |-> p]
    <3>1. PICK S : S = [from: User, to: User]
      OBVIOUS
    <3>2. k \in DOMAIN keys /\ keys \in Seq(S)
      BY <1>2, <3>1 DEF KeysHeld, TypeOK
    <3>3. keys[k] \in S
      BY <3>2
    <3> QED
      BY <3>1, <3>2, <3>3
  <2>2. k \in DOMAIN keys' /\ keys'[k] = [from |-> c, to |-> p]
    BY <2>1, HistoryGrows
  <2>3. c \in Known(p)
    BY <1>2, <2>1 DEF KeysHeld
  <2>4. ~NothingOwed(p)
    BY <2>1 DEF NothingOwed
  <2> QED
    BY <2>2, <2>3, <2>4, ListSteps
<1> QED
  BY <1>1, <1>2

\* A client that has no key of a user any more is owed none of it.
LEMMA KeyForgotten ==
    ASSUME TypeOK, TypeOK', MessagesSound, [Next]_vars, NEW p \in User, NEW c \in User,
           SymmetricKey(p, c) # NoKey, SymmetricKey(p, c)' = NoKey
    PROVE  NothingOwed(p)
<1>1. ~UNCHANGED m_clients
  BY DEF SymmetricKey, Known
<1>2. StepOf(p)
  <2>1. ASSUME NEW d \in User, StepOf(d), d # p
        PROVE  FALSE
    BY <2>1, OthersKept DEF SymmetricKey, Known
  <2>2. \/ \E r \in orphans : ServeOrphan(r)
        \/ ServerRestart
        \/ UNCHANGED vars
        => UNCHANGED m_clients
    BY DEF ServeOrphan, ServerRestart, vars, client
  <2> QED
    BY <1>1, <2>1, <2>2, NextSteps
<1>3. ASSUME NEW q \in User, NewKey(p, q, Len(keys) + 1)
      PROVE  FALSE
  <2>1. Len(keys) + 1 # NoKey
    BY DEF TypeOK, NoKey
  <2> QED
    BY <1>3, <2>1 DEF NewKey
<1>4. ASSUME NEW m, m = Head(reply[p].messages), ReadSymKey(p),
             NEW q, NEW k, q = m.from, k = m.key, NewKey(p, q, k)
      PROVE  FALSE
  <2>1. m = Line(p)[1]
    BY <1>4, ReadLine DEF Reads, ReadStep
  <2>2. k \in DOMAIN keys
    BY <1>4, <2>1, KeyRead
  <2>3. k # NoKey
    BY <2>2, HistoryGrows DEF NoKey
  <2> QED
    BY <1>4, <2>3 DEF NewKey
<1> QED
  BY <1>2, <1>3, <1>4, KnowledgeSteps DEF SameKnowledge, NoKnowledge, NewList

LEMMA KeysHeldInit == Init => KeysHeld
<1> SUFFICES ASSUME Init PROVE KeysHeld
  OBVIOUS
<1>1. \A c, p \in User : SymmetricKey(c, p) = NoKey
  BY DEF Init, SymmetricKey, Known, Nobody
<1>2. owed = {}
  BY DEF Init
<1> QED
  BY <1>1, <1>2 DEF KeysHeld, KeyOfPair

LEMMA KeysHeldNext ==
    ASSUME TypeOK, TypeOK', MessagesSound, KeysHeld, [Next]_vars
    PROVE  KeysHeld'
<1>1. ASSUME NEW c \in User, NEW p \in User, NEW l, l = SymmetricKey(c, p)', l # NoKey
      PROVE  l \in DOMAIN keys' /\ keys'[l] \in {[from |-> c, to |-> p], [from |-> p, to |-> c]}
  <2>1. PICK k : k = SymmetricKey(c, p)
    OBVIOUS
  <2>2. CASE l = k
    <3>1. k \in DOMAIN keys /\ keys[k] \in {[from |-> c, to |-> p], [from |-> p, to |-> c]}
      BY <1>1, <2>1, <2>2 DEF KeysHeld, KeyOfPair
    <3> QED
      BY <2>2, <3>1, HistoryGrows
  <2>3. CASE KeyMade(c, p) /\ l = Len(keys) + 1
    BY <2>3, NewKeyLast
  <2>4. CASE ReadSymKey(c) /\ p = Line(c)[1].from /\ l = Line(c)[1].key
    BY <2>4, KeyRead, HistoryGrows
  <2> QED
    BY <1>1, <2>1, <2>2, <2>3, <2>4, KeySteps DEF KeyStep
<1>2. ASSUME NEW k \in owed'
      PROVE  k \in DOMAIN keys' /\ (keys[k].from \in Known(keys[k].to))'
  <2>1. k \in DOMAIN keys'
    BY <1>2, OwedListed
  <2>2. PICK c \in User, p \in User :
          keys'[k] = [from |-> c, to |-> p] /\ c \in DOMAIN m_clients'[p]
    BY <1>2, OwedListed DEF Known
  <2>3. keys'[k].from = c /\ keys'[k].to = p
    BY <2>2
  <2> QED
    BY <2>1, <2>2, <2>3 DEF Known
<1> QED
  BY <1>1, <1>2 DEF KeysHeld, KeyOfPair

\* A client does not hold a key for itself, so a key of a pair has one generator.
LEMMA KeyGenerator ==
    ASSUME TypeOK, Conversation, KeysHeld, NEW c \in User, NEW p \in User,
           NEW k, k = SymmetricKey(c, p), k # NoKey
    PROVE  /\ p # c /\ p \in Known(c) /\ k \in DOMAIN keys
           /\ \/ keys[k].from = c /\ keys[k].to = p
              \/ keys[k].from = p /\ keys[k].to = c
<1>1. p \in Known(c) /\ p # c
  BY DEF SymmetricKey, Conversation
<1>2. k \in DOMAIN keys /\ keys[k] \in {[from |-> c, to |-> p], [from |-> p, to |-> c]}
  BY DEF KeysHeld, KeyOfPair
<1> QED
  BY <1>1, <1>2

\* A new key is that of its generator at once.
LEMMA KeyInUse ==
    ASSUME TypeOK, TypeOK', NEW c \in User, NEW p \in User, KeyMade(c, p),
           NEW l, l = SymmetricKey(c, p)'
    PROVE  l = Len(keys) + 1
<1>1. PICK k : k = Len(keys) + 1
  OBVIOUS
<1>2. m_clients' = [m_clients EXCEPT ![c][p].symmetricKey = k] /\ p \in Known(c)
  BY <1>1 DEF KeyMade, StartSymKey
<1> QED
  BY <1>1, <1>2, KeySet

LEMMA OwnNewestInit == Init => OwnNewest
BY DEF Init, OwnNewest, SymmetricKey, Known, Nobody

LEMMA OwnNewestNext ==
    ASSUME TypeOK, TypeOK', Conversation, Conversation', MessagesSound, KeysHeld, KeysHeld',
           OwnNewest, [Next]_vars
    PROVE  OwnNewest'
<1>1. ASSUME NEW c \in User, NEW p \in User, NEW l, l = SymmetricKey(c, p)', l # NoKey,
             keys'[l] = [from |-> c, to |-> p], NEW n \in DOMAIN keys', keys'[n] = keys'[l]
      PROVE  n <= l
  <2>1. PICK k : k = SymmetricKey(c, p)
    OBVIOUS
  <2>2. DOMAIN keys = 1..Len(keys) /\ Len(keys) \in Nat
    BY HistoryGrows
  <2>3. CASE l = k
    <3>1. k \in DOMAIN keys
      BY <1>1, <2>1, <2>3 DEF KeysHeld
    <3>2. keys[k] = [from |-> c, to |-> p]
      BY <1>1, <2>3, <3>1, HistoryGrows
    <3>3. CASE n \in DOMAIN keys
      <4>1. keys[n] = keys[k]
        BY <1>1, <2>3, <3>1, <3>3, HistoryGrows
      <4> QED
        BY <1>1, <2>1, <2>3, <3>2, <3>3, <4>1 DEF OwnNewest
    <3>4. CASE n \notin DOMAIN keys
      <4>1. PICK d \in User, q \in User : KeyMade(d, q)
        BY <1>1, <3>4, HistorySteps
      <4>2. n = Len(keys) + 1 /\ keys'[n] = [from |-> d, to |-> q]
        BY <1>1, <2>2, <3>4, <4>1, NewKeyLast
      <4>3. d = c /\ q = p
        BY <1>1, <4>2
      <4>4. l = Len(keys) + 1
        BY <1>1, <4>1, <4>3, KeyInUse
      <4> QED
        BY <2>2, <4>2, <4>4
    <3> QED
      BY <3>3, <3>4
  <2>4. CASE KeyMade(c, p) /\ l = Len(keys) + 1
    BY <1>1, <2>2, <2>4, NewKeyLast
  <2>5. CASE ReadSymKey(c) /\ p \in Known(c) /\ p = Line(c)[1].from /\ l = Line(c)[1].key
    <3>1. l \in DOMAIN keys /\ keys[l] = [from |-> p, to |-> c]
      BY <2>5, KeyRead
    <3>2. keys'[l] = [from |-> p, to |-> c]
      BY <3>1, HistoryGrows
    <3>3. p = c
      BY <1>1, <3>2
    <3> QED
      BY <2>5, <3>3 DEF Conversation
  <2> QED
    BY <1>1, <2>1, <2>3, <2>4, <2>5, KeySteps DEF KeyStep
<1> QED
  BY <1>1 DEF OwnNewest

LEMMA SenderAhead ==
    ASSUME KeysHeld, OwnNewest
    PROVE  SenderNotBehind
<1>1. ASSUME NEW c \in User, NEW p \in User,
             SymmetricKey(c, p) # NoKey, SymmetricKey(p, c) # NoKey,
             keys[SymmetricKey(c, p)] = [from |-> c, to |-> p],
             keys[SymmetricKey(p, c)] = [from |-> c, to |-> p]
      PROVE  SymmetricKey(p, c) <= SymmetricKey(c, p)
  <2>1. SymmetricKey(p, c) \in DOMAIN keys
    BY <1>1 DEF KeysHeld
  <2> QED
    BY <1>1, <2>1 DEF OwnNewest
<1> QED
  BY <1>1 DEF SenderNotBehind

-------------------------------------------------------------------------------
(* No text is delivered twice. *)

\* The texts of requests are those of their senders.
LEMMA RequestText ==
    ASSUME Conversation, MessagesSound, NEW c \in User, Carries(request[c], 3),
           NEW x, x = request[c].message.text
    PROVE  x \in DOMAIN texts /\ texts[x].from = c
<1>1. PICK m : m = request[c].message
  OBVIOUS
<1>2. m.from = c /\ m.type = 3 /\ Sound(m)
  BY <1>1 DEF Conversation, MessagesSound, Carries
<1> QED
  BY <1>1, <1>2 DEF Sound

LEMMA OrphanText ==
    ASSUME MessagesSound, NEW r \in orphans, Carries(r, 3), NEW x, x = r.message.text
    PROVE  x \in DOMAIN texts
<1>1. PICK m : m = r.message
  OBVIOUS
<1>2. m.type = 3 /\ Sound(m)
  BY <1>1 DEF MessagesSound, Carries
<1> QED
  BY <1>1, <1>2 DEF Sound

LEMMA LineText ==
    ASSUME MessagesSound, NEW p \in User, NEW j \in DOMAIN Line(p), Line(p)[j].type = 3
    PROVE  /\ Line(p)[j].to = p /\ Line(p)[j].text \in DOMAIN texts
           /\ texts[Line(p)[j].text] = [from |-> Line(p)[j].from, to |-> p]
<1>1. PICK m : m = Line(p)[j]
  OBVIOUS
<1>2. m.to = p /\ m.type = 3 /\ Sound(m)
  BY <1>1 DEF MessagesSound
<1> QED
  BY <1>1, <1>2 DEF Sound

\* A step passes text x on: it stores its message, or tells its sender.
Stored(x) == \E p \in User, m \in Message : GrowStep(p, m) /\ m.type = 3 /\ m.text = x
Told(x) ==
    \E c \in User : /\ ReadNothing(c) /\ state[c] = "answered"
                    /\ Carries(request[c], 3) /\ x = request[c].message.text

LEMMA UnseenKept ==
    ASSUME TypeOK, TypeOK', Conversation, [Next]_vars, NEW x, Unseen(x), ~Stored(x), ~Told(x)
    PROVE  Unseen(x)'
<1>1. x \notin acknowledged'
  BY AcknowledgedSteps DEF Unseen, Told
<1>2. ASSUME NEW i \in DOMAIN shown'
      PROVE  shown'[i].text # x
  <2>1. CASE i \in DOMAIN shown /\ shown'[i] = shown[i]
    BY <2>1 DEF Unseen
  <2>2. ASSUME NEW p \in User, NEW m \in Message, Shows(p, m), shown'[i] = Displayed(m)
        PROVE  shown'[i].text # x
    <3>1. m.type = 3 /\ 1 \in DOMAIN Line(p) /\ m = Line(p)[1]
      BY <2>2, LineIsSeq DEF Shows, ReadStep
    <3>2. m.text # x
      BY <3>1 DEF Unseen
    <3> QED
      BY <2>2, <3>2 DEF Displayed
  <2> QED
    BY <2>1, <2>2, ShownGrows
<1>3. ASSUME NEW p \in User, NEW j \in DOMAIN Line(p)', Line(p)'[j].type = 3
      PROVE  Line(p)'[j].text # x
  BY <1>3, InLine DEF Unseen, Stored
<1> QED
  BY <1>1, <1>2, <1>3 DEF Unseen

\* A text that is stored or told of was in a request.
LEMMA StoredText ==
    ASSUME NEW x, Stored(x)
    PROVE  \/ \E c \in User : /\ Serve(c)
                              /\ Carries(request[c], 3) /\ x = request[c].message.text
           \/ \E r \in orphans : ServeOrphan(r) /\ Carries(r, 3) /\ x = r.message.text
BY DEF Stored, GrowStep, Delivers, Carries

\* The text of a request, while its program waits for the reply or has given up.
LEMMA WaitingText ==
    ASSUME TypeOK, TypeOK', Conversation, MessagesSound, TextsOnce, [Next]_vars,
           NEW c \in User, state[c] = "sent", state'[c] # "answered", Carries(request[c], 3),
           NEW x, x = request[c].message.text
    PROVE  Unseen(x)'
<1>1. Unseen(x) /\ \A r \in orphans : Carries(r, 3) => r.message.text # x
  BY DEF TextsOnce
<1>2. texts[x].from = c
  BY RequestText
<1>3. ASSUME NEW d \in User, Carries(request[d], 3), x = request[d].message.text
      PROVE  d = c
  BY <1>2, <1>3, RequestText
<1>4. ~Serve(c)
  BY DEF Serve, TypeOK
<1>5. ~Stored(x)
  BY <1>1, <1>3, <1>4, StoredText
<1>6. ~Told(x)
  BY <1>3 DEF Told
<1> QED
  BY <1>1, <1>5, <1>6, UnseenKept

LEMMA NewText ==
    ASSUME TypeOK, TypeOK', Conversation, MessagesSound, [Next]_vars,
           NEW x, x \notin DOMAIN texts
    PROVE  Unseen(x)'
<1>1. Unseen(x)
  <2>1. x \notin acknowledged /\ \A i \in DOMAIN shown : shown[i].text # x
    BY DEF MessagesSound
  <2>2. ASSUME NEW p \in User, NEW j \in DOMAIN Line(p), Line(p)[j].type = 3
        PROVE  Line(p)[j].text # x
    BY <2>2, LineText
  <2> QED
    BY <2>1, <2>2 DEF Unseen
<1>2. ~Stored(x)
  BY StoredText, RequestText, OrphanText
<1>3. ~Told(x)
  BY RequestText DEF Told
<1> QED
  BY <1>1, <1>2, <1>3, UnseenKept

LEMMA OrphanKept ==
    ASSUME TypeOK, TypeOK', Conversation, MessagesSound, TextsOnce, [Next]_vars,
           NEW r \in orphans, ~ServeOrphan(r), Carries(r, 3), NEW x, x = r.message.text
    PROVE  Unseen(x)'
<1>1. /\ Unseen(x)
      /\ \A q \in orphans : Carries(q, 3) /\ q.message.text = x => q = r
      /\ \A c \in User : Carries(request[c], 3) => request[c].message.text # x
  BY DEF TextsOnce
<1>2. ~Stored(x)
  BY <1>1, StoredText
<1>3. ~Told(x)
  BY <1>1 DEF Told
<1> QED
  BY <1>1, <1>2, <1>3, UnseenKept

LEMMA TextsOnceInit == Init => TextsOnce
BY DEF Init, TextsOnce, Carries, NoRequest

\* A request that carries a text, after the step.
RequestOnce(c, x) ==
    /\ \A y \in DOMAIN texts : texts[y].from = c => y <= x
    /\ \A r \in orphans : Carries(r, 3) => r.message.text # x
    /\ state[c] = "sent" => Unseen(x)

LEMMA RequestOnceKept ==
    ASSUME TypeOK, TypeOK', Conversation, MessagesSound, TextsOnce, [Next]_vars,
           NEW c \in User, Carries(request[c], 3), request'[c] = request[c],
           state'[c] = "sent" => state[c] = "sent",
           NEW x, x = request[c].message.text
    PROVE  RequestOnce(c, x)'
<1>1. request[c] # NoRequest
  BY DEF Carries, NoRequest
<1>2. x \in DOMAIN texts /\ texts[x].from = c
  BY RequestText
<1>3. ASSUME NEW y \in DOMAIN texts', texts'[y].from = c
      PROVE  y <= x
  <2>1. CASE y \in DOMAIN texts
    BY <1>3, <2>1, HistoryGrows DEF TextsOnce
  <2>2. CASE y \notin DOMAIN texts
    <3>1. PICK d \in User, q \in User : TextWritten(d, q)
      BY <1>3, <2>2, HistorySteps
    <3>2. texts'[y] = [from |-> d, to |-> q]
      <4>1. y = Len(texts) + 1
        <5>1. PICK n \in Nat :
                n = Len(texts) /\ DOMAIN texts = 1..n /\ DOMAIN texts' = 1..(n + 1)
          BY <3>1, NewTextLast
        <5> QED
          BY <1>3, <2>2, <5>1
      <4> QED
        BY <3>1, <4>1, NewTextLast
    <3>3. d = c
      BY <1>3, <3>2
    <3>4. state[c] = "menu"
      BY <3>1, <3>3 DEF TextWritten, StartTextMessage, Send, Call
    <3> QED
      BY <1>1, <3>4 DEF Conversation
  <2> QED
    BY <2>1, <2>2
<1>4. ASSUME NEW r \in orphans', Carries(r, 3)
      PROVE  r.message.text # x
  <2>1. CASE r \in orphans
    BY <1>4, <2>1 DEF TextsOnce
  <2>2. ASSUME NEW d \in User, r = request[d], request'[d] = NoRequest
        PROVE  r.message.text # x
    <3>1. d # c
      BY <1>1, <2>2
    <3>2. Carries(request[d], 3)
      BY <1>4, <2>2
    <3> QED
      BY <1>2, <2>2, <3>1, <3>2, RequestText
  <2> QED
    BY <2>1, <2>2, OrphanSteps
<1>5. ASSUME state'[c] = "sent"
      PROVE  Unseen(x)'
  BY <1>5, WaitingText
<1> QED
  BY <1>3, <1>4, <1>5 DEF RequestOnce

LEMMA RequestOnceSent ==
    ASSUME TypeOK, TypeOK', Conversation, MessagesSound, [Next]_vars,
           NEW c \in User, Starts(c), Carries(request'[c], 3),
           NEW x, x = request'[c].message.text
    PROVE  RequestOnce(c, x)'
<1>1. PICK m : m = request'[c].message
  OBVIOUS
<1>2. PICK p \in User : p = m.to /\ TextWritten(c, p) /\ m.text = Len(texts) + 1
  BY <1>1, NewMessages DEF Carries
<1>3. x \notin DOMAIN texts /\ \A y \in DOMAIN texts' : y <= x
  <2>1. PICK n \in Nat : n = Len(texts) /\ DOMAIN texts = 1..n /\ DOMAIN texts' = 1..(n + 1)
    BY <1>2, NewTextLast
  <2>2. x = n + 1
    BY <1>1, <1>2, <2>1
  <2> QED
    BY <2>1, <2>2
<1>4. Unseen(x)'
  BY <1>3, NewText
<1>5. orphans' = orphans
  BY StartFrame
<1>6. \A r \in orphans' : Carries(r, 3) => r.message.text # x
  BY <1>3, <1>5, OrphanText
<1> QED
  BY <1>3, <1>4, <1>6 DEF RequestOnce

LEMMA TextsOnceNext ==
    ASSUME TypeOK, TypeOK', Conversation, MessagesSound, TextsOnce, [Next]_vars
    PROVE  TextsOnce'
<1>1. ASSUME NEW c \in User, Carries(request[c], 3)', NEW x, x = request'[c].message.text
      PROVE  RequestOnce(c, x)'
  <2>1. CASE request'[c] = request[c] /\ (state'[c] = "sent" => state[c] = "sent")
    BY <1>1, <2>1, RequestOnceKept DEF Carries
  <2>2. CASE Starts(c)
    BY <1>1, <2>2, RequestOnceSent DEF Carries
  <2>3. request'[c] # NoRequest
    BY <1>1 DEF Carries, NoRequest
  <2> QED
    BY <2>1, <2>2, <2>3, RequestSteps
<1>2. ASSUME NEW r \in orphans', Carries(r, 3), NEW x, x = r.message.text
      PROVE  /\ Unseen(x)'
             /\ \A q \in orphans' : Carries(q, 3) /\ q.message.text = x => q = r
  <2>1. CASE r \in orphans /\ ~ServeOrphan(r)
    <3>1. Unseen(x)'
      BY <1>2, <2>1, OrphanKept
    <3>2. ASSUME NEW q \in orphans', Carries(q, 3), q.message.text = x
          PROVE  q = r
      BY <1>2, <2>1, <3>2, OrphanSteps DEF TextsOnce
    <3> QED
      BY <3>1, <3>2
  <2>2. ASSUME NEW c \in User, state[c] = "sent", r = request[c], state'[c] = "menu"
        PROVE  /\ Unseen(x)'
               /\ \A q \in orphans' : Carries(q, 3) /\ q.message.text = x => q = r
    <3>1. Carries(request[c], 3) /\ x = request[c].message.text
      BY <1>2, <2>2
    <3>2. Unseen(x)'
      BY <2>2, <3>1, WaitingText
    <3>3. ASSUME NEW q \in orphans', Carries(q, 3), q.message.text = x
          PROVE  q = r
      <4>1. CASE q \in orphans
        BY <3>1, <3>3, <4>1 DEF TextsOnce
      <4>2. ASSUME NEW d \in User, q = request[d]
            PROVE  q = r
        <5>1. texts[x].from = c /\ texts[x].from = d
          BY <3>1, <3>3, <4>2, RequestText
        <5> QED
          BY <2>2, <4>2, <5>1
      <4> QED
        BY <4>1, <4>2, OrphanSteps
    <3> QED
      BY <3>2, <3>3
  <2> QED
    BY <2>1, <2>2, OrphanSteps
<1>3. ASSUME NEW c \in User, Carries(request[c], 3)'
      PROVE  RequestOnce(c, request[c].message.text)'
  <2>1. PICK x : x = request'[c].message.text
    OBVIOUS
  <2>2. RequestOnce(c, x)'
    BY <1>1, <1>3, <2>1
  <2> QED
    BY <2>1, <2>2 DEF RequestOnce, Unseen
<1>4. ASSUME NEW r \in orphans', Carries(r, 3)
      PROVE  /\ Unseen(r.message.text)'
             /\ \A q \in orphans' : Carries(q, 3) /\ q.message.text = r.message.text => q = r
  BY <1>2, <1>4
<1> QED
  BY <1>3, <1>4 DEF TextsOnce, RequestOnce, Carries

-------------------------------------------------------------------------------
(* The order of the texts of a user. *)

\* Two messages on their way in the next state are on their way in the same order
\* already, or the later one is stored now.
LEMMA InLineBefore ==
    ASSUME TypeOK, TypeOK', Conversation, [Next]_vars, NEW p \in User,
           NEW i \in DOMAIN Line(p)', NEW j \in DOMAIN Line(p)', i < j
    PROVE  \E g \in DOMAIN Line(p) :
             /\ Line(p)'[i] = Line(p)[g]
             /\ \/ \E h \in DOMAIN Line(p) : g < h /\ Line(p)'[j] = Line(p)[h]
                \/ \E m \in Message : GrowStep(p, m) /\ Line(p)'[j] = m
<1>1. /\ DOMAIN Line(p)' = 1..Len(Line(p)') /\ DOMAIN Line(p) = 1..Len(Line(p))
      /\ Len(Line(p)) \in Nat /\ Len(Line(p)') \in Nat
  BY LineIsSeq, NextLineIsSeq
<1>2. ASSUME NEW d \in 0..Len(Line(p)), Shifted(p, d)
      PROVE  /\ i + d \in DOMAIN Line(p) /\ Line(p)'[i] = Line(p)[i + d]
             /\ j + d \in DOMAIN Line(p) /\ Line(p)'[j] = Line(p)[j + d] /\ i + d < j + d
  BY <1>1, <1>2 DEF Shifted
<1>3. ASSUME CutShort(p)
      PROVE  /\ i \in DOMAIN Line(p) /\ Line(p)'[i] = Line(p)[i]
             /\ j \in DOMAIN Line(p) /\ Line(p)'[j] = Line(p)[j]
  BY <1>1, <1>3 DEF CutShort
<1>4. ASSUME NEW m \in Message, GrowStep(p, m)
      PROVE  /\ i \in DOMAIN Line(p) /\ Line(p)'[i] = Line(p)[i]
             /\ \/ j \in DOMAIN Line(p) /\ Line(p)'[j] = Line(p)[j]
                \/ Line(p)'[j] = m
  BY <1>1, <1>4 DEF GrowStep, Grown
<1>5. Shifted(p, 1) => 1 \in 0..Len(Line(p))
  BY DEF Shifted
<1>6. 0 \in 0..Len(Line(p))
  BY <1>1
<1> QED
  BY <1>2, <1>3, <1>4, <1>5, <1>6, LineSteps DEF LineStep, ReadStep, DropStep, CutStep

\* A record that names a text, and its sender and addressee.
Names(a) == a.text \in DOMAIN texts /\ texts[a.text] = [from |-> a.from, to |-> a.to]

LEMMA AfterKept ==
    ASSUME TypeOK, Conversation, MessagesSound, TextsOnce, [Next]_vars,
           NEW a, NEW b, Names(a), Names(b), After(a, b)
    PROVE  After(a, b)'
<1>1. ASSUME NEW c \in User, Carries(request[c], 3), b.text = request[c].message.text,
             a.from = b.from, a.text # b.text
      PROVE  a.text < b.text
  <2>1. texts[b.text].from = c
    BY <1>1, RequestText
  <2>2. texts[a.text].from = c
    BY <1>1, <2>1 DEF Names
  <2>3. a.text <= b.text
    BY <1>1, <2>2 DEF TextsOnce, Names
  <2>4. a.text \in Nat /\ b.text \in Nat
    BY HistoryGrows DEF Names
  <2> QED
    BY <1>1, <2>3, <2>4
<1>2. ASSUME a.from = b.from, a.to = b.to, b.text \in acknowledged'
      PROVE  a.text < b.text
  BY <1>1, <1>2, AcknowledgedSteps DEF After
<1> QED
  BY <1>2 DEF After

LEMMA LineNames ==
    ASSUME MessagesSound, NEW p \in User, NEW j \in DOMAIN Line(p), Line(p)[j].type = 3
    PROVE  Names(Line(p)[j]) /\ Line(p)[j].to = p
<1>1. PICK m : m = Line(p)[j]
  OBVIOUS
<1>2. m.to = p /\ m.type = 3 /\ Sound(m)
  BY <1>1 DEF MessagesSound
<1> QED
  BY <1>1, <1>2 DEF Sound, Names

\* The text that a step stores is nowhere yet.
LEMMA StoredUnseen ==
    ASSUME Conversation, MessagesSound, TextsOnce, NEW p \in User,
           NEW m \in Message, GrowStep(p, m), m.type = 3
    PROVE  Unseen(m.text) /\ Names(m) /\ m.to = p
<1>1. ASSUME NEW c \in User, Serve(c), request[c].code = 603, request[c].message = m
      PROVE  Unseen(m.text) /\ Sound(m)
  BY <1>1 DEF TextsOnce, MessagesSound, Carries, Serve
<1>2. ASSUME NEW r \in orphans, r.code = 603, r.message = m
      PROVE  Unseen(m.text) /\ Sound(m)
  BY <1>2 DEF TextsOnce, MessagesSound, Carries
<1>3. Unseen(m.text) /\ Sound(m) /\ m.to = p
  BY <1>1, <1>2 DEF GrowStep, Delivers
<1> QED
  BY <1>3 DEF Sound, Names

LEMMA DisplayedAfter ==
    ASSUME NEW m, NEW b
    PROVE  /\ After(Displayed(m), b) <=> After(m, b)
           /\ After(b, Displayed(m)) <=> After(b, m)
           /\ Names(Displayed(m)) <=> Names(m)
BY DEF Displayed, After, Names

LEMMA TextsInOrderInit == Init => TextsInOrder /\ ShownInOrder
<1> SUFFICES ASSUME Init PROVE TextsInOrder /\ ShownInOrder
  OBVIOUS
<1>1. ASSUME NEW p \in User
      PROVE  DOMAIN Line(p) = {}
  <2>1. Unread(p) = <<>> /\ mailbox[p] = <<>>
    BY DEF Init, Unread, NoReply
  <2> QED
    BY <2>1, TypeInit, LineIsSeq
<1>2. DOMAIN shown = {}
  BY DEF Init
<1> QED
  BY <1>1, <1>2 DEF TextsInOrder, ShownInOrder

\* Message b is on its way in the next state.
LEMMA ShownBefore ==
    ASSUME TypeOK, TypeOK', Conversation, MessagesSound, TextsOnce, TextsInOrder, [Next]_vars,
           NEW p \in User, NEW j \in DOMAIN Line(p)', NEW b, b = Line(p)'[j], b.type = 3,
           NEW i \in DOMAIN shown', NEW a, a = shown'[i]
    PROVE  After(a, b)'
<1>1. ASSUME i \in DOMAIN shown, a = shown[i]
      PROVE  After(a, b)'
  <2>1. Names(a)
    BY <1>1 DEF MessagesSound, Names
  <2>2. ASSUME NEW h \in DOMAIN Line(p), b = Line(p)[h]
        PROVE  Names(b) /\ After(a, b)
    BY <1>1, <2>2, LineNames DEF TextsInOrder
  <2>3. ASSUME GrowStep(p, b), b \in Message
        PROVE  Names(b) /\ After(a, b)
    BY <1>1, <2>3, StoredUnseen DEF Unseen, After
  <2> QED
    BY <2>1, <2>2, <2>3, InLine, AfterKept
<1>2. ASSUME NEW q \in User, NEW m \in Message, Shows(q, m), a = Displayed(m)
      PROVE  After(a, b)'
  <2>1. /\ m.type = 3 /\ 1 \in DOMAIN Line(q) /\ m = Line(q)[1] /\ ReadStep(q)
    BY <1>2, LineIsSeq DEF Shows, ReadStep
  <2>2. Names(m) /\ m.to = q
    BY <2>1, LineNames
  <2>3. CASE q = p
    <3>1. j + 1 \in DOMAIN Line(p) /\ b = Line(p)[j + 1] /\ 1 < j + 1
      BY <2>1, <2>3, LineIsSeq, NextLineIsSeq DEF ReadStep, Shifted
    <3>2. Names(b) /\ After(m, b)
      BY <2>1, <2>3, <3>1, LineNames DEF TextsInOrder
    <3>3. After(m, b)'
      BY <2>2, <3>2, AfterKept
    <3> QED
      BY <1>2, <3>3 DEF After, Displayed
  <2>4. CASE q # p
    <3>1. b.to = p
      BY InLine, LineNames, StoredUnseen
    <3> QED
      BY <1>2, <2>2, <2>4, <3>1 DEF After, Displayed
  <2> QED
    BY <2>3, <2>4
<1> QED
  BY <1>1, <1>2, ShownGrows

LEMMA LineBefore ==
    ASSUME TypeOK, TypeOK', Conversation, MessagesSound, TextsOnce, TextsInOrder, [Next]_vars,
           NEW p \in User, NEW i \in DOMAIN Line(p)', NEW j \in DOMAIN Line(p)', i < j,
           NEW a, a = Line(p)'[i], a.type = 3, NEW b, b = Line(p)'[j], b.type = 3
    PROVE  After(a, b)'
<1>1. PICK g \in DOMAIN Line(p) :
        /\ a = Line(p)[g]
        /\ \/ \E h \in DOMAIN Line(p) : g < h /\ b = Line(p)[h]
           \/ b \in Message /\ GrowStep(p, b)
  BY InLineBefore
<1>2. Names(a)
  BY <1>1, LineNames
<1>3. ASSUME NEW h \in DOMAIN Line(p), g < h, b = Line(p)[h]
      PROVE  Names(b) /\ After(a, b)
  BY <1>1, <1>3, LineNames DEF TextsInOrder
<1>4. ASSUME b \in Message, GrowStep(p, b)
      PROVE  Names(b) /\ After(a, b)
  BY <1>1, <1>4, StoredUnseen DEF Unseen, After
<1> QED
  BY <1>1, <1>2, <1>3, <1>4, AfterKept

LEMMA TextsInOrderNext ==
    ASSUME TypeOK, TypeOK', Conversation, MessagesSound, TextsOnce, TextsInOrder, [Next]_vars
    PROVE  TextsInOrder'
<1>1. ASSUME NEW p \in User, NEW j \in DOMAIN Line(p)', Line(p)'[j].type = 3,
             NEW i \in DOMAIN shown'
      PROVE  After(shown[i], Line(p)[j])'
  <2>1. PICK a, b : a = shown'[i] /\ b = Line(p)'[j]
    OBVIOUS
  <2>2. After(a, b)'
    BY <1>1, <2>1, ShownBefore
  <2> QED
    BY <2>1, <2>2 DEF After
<1>2. ASSUME NEW p \in User, NEW j \in DOMAIN Line(p)', Line(p)'[j].type = 3,
             NEW i \in DOMAIN Line(p)', i < j, Line(p)'[i].type = 3
      PROVE  After(Line(p)[i], Line(p)[j])'
  <2>1. PICK a, b : a = Line(p)'[i] /\ b = Line(p)'[j]
    OBVIOUS
  <2>2. After(a, b)'
    BY <1>2, <2>1, LineBefore
  <2> QED
    BY <2>1, <2>2 DEF After
<1> QED
  BY <1>1, <1>2 DEF TextsInOrder

LEMMA ShownInOrderNext ==
    ASSUME TypeOK, TypeOK', Conversation, MessagesSound, TextsOnce, TextsInOrder, ShownInOrder,
           [Next]_vars
    PROVE  ShownInOrder'
<1>1. ASSUME NEW i \in DOMAIN shown', NEW j \in DOMAIN shown', i < j,
             NEW a, a = shown'[i], NEW b, b = shown'[j]
      PROVE  After(a, b)'
  <2>1. i \in DOMAIN shown /\ a = shown[i]
    <3>1. Len(shown) \in Nat /\ DOMAIN shown = 1..Len(shown) /\ DOMAIN shown' = 1..Len(shown')
      BY <1>1, ShownGrows
    <3>2. i = Len(shown) + 1 => FALSE
      <4>1. j \in DOMAIN shown \/ j = Len(shown) + 1
        BY ShownGrows
      <4> QED
        BY <1>1, <3>1, <4>1
    <3> QED
      BY <1>1, <3>2, ShownGrows
  <2>2. Names(a)
    BY <2>1 DEF MessagesSound, Names
  <2>3. ASSUME j \in DOMAIN shown, b = shown[j]
        PROVE  Names(b) /\ After(a, b)
    BY <1>1, <2>1, <2>3 DEF MessagesSound, Names, ShownInOrder, After
  <2>4. ASSUME NEW q \in User, NEW m \in Message, Shows(q, m), b = Displayed(m)
        PROVE  Names(b) /\ After(a, b)
    <3>1. m.type = 3 /\ 1 \in DOMAIN Line(q) /\ m = Line(q)[1]
      BY <2>4, LineIsSeq DEF Shows, ReadStep
    <3>2. Names(m) /\ After(a, m)
      BY <2>1, <3>1, LineNames DEF TextsInOrder
    <3> QED
      BY <2>4, <3>2, DisplayedAfter
  <2> QED
    BY <1>1, <2>2, <2>3, <2>4, ShownGrows, AfterKept
<1> QED
  BY <1>1 DEF ShownInOrder, After

-------------------------------------------------------------------------------
(* Steps without faults. *)

LEMMA FaultlessSteps ==
    ASSUME TypeOK, [Next]_vars, faults' = 0
    PROVE  /\ faults = 0 /\ ~ServerRestart /\ clients \subseteq clients'
           /\ \A c \in User :
                ~ConnectionFails(c) /\ ~ReadSpoiled(c) /\ ~Crash(c) /\ ~Exit(c)
<1>1. ~Fault
  BY DEF Fault, TypeOK
<1>2. ~ServerRestart /\ \A c \in User : ~ConnectionFails(c) /\ ~ReadSpoiled(c) /\ ~Crash(c) /\ ~Exit(c)
  BY <1>1 DEF ServerRestart, ConnectionFails, ReadSpoiled, Crash, Exit
<1>3. ASSUME NEW c \in User, StepOf(c)
      PROVE  faults' = faults /\ clients \subseteq clients'
  BY <1>2, <1>3, StartFrame, ProgramFrame, ServerFrame DEF StepOf
<1>4. ASSUME NEW r \in orphans, ServeOrphan(r)
      PROVE  UNCHANGED <<faults, clients>>
  BY <1>4 DEF ServeOrphan
<1>5. UNCHANGED vars => UNCHANGED <<faults, clients>>
  BY DEF vars, server
<1> QED
  BY <1>2, <1>3, <1>4, <1>5, NextSteps

LEMMA FaultlessOrphans ==
    ASSUME TypeOK, [Next]_vars, faults' = 0, orphans = {}
    PROVE  orphans' = {}
BY FaultlessSteps, OrphanSteps

LEMMA FaultlessLine ==
    ASSUME TypeOK, TypeOK', Conversation, [Next]_vars, faults' = 0, orphans = {}, NEW p \in User
    PROVE  \/ Shifted(p, 0)
           \/ ReadStep(p)
           \/ DecryptThrows(p) /\ \E d \in 0..Len(Line(p)) : Shifted(p, d)
           \/ \E m \in Message : GrowStep(p, m)
BY FaultlessSteps, LineSteps DEF LineStep, DropStep, CutStep

LEMMA ReplySteps ==
    ASSUME TypeOK, [Next]_vars, NEW c \in User
    PROVE  \/ reply'[c] = reply[c]
           \/ Serve(c) /\ reply'[c] = ReplyTo(request[c])
           \/ reply'[c] = NoReply
           \/ reply'[c].code = 2104
<1>1. ASSUME NEW d \in User, StepOf(d), d # c
      PROVE  reply'[c] = reply[c]
  BY <1>1, OthersKept
<1>2. CASE Starts(c)
  BY <1>2, StartFrame
<1>3. CASE BackToMenu(c)
  BY <1>3 DEF BackToMenu, TypeOK
<1>4. CASE RegisterUser(c) \/ Exit(c)
  BY <1>4 DEF RegisterUser, Exit, Replace
<1>5. CASE Reads(c)
  <2>1. reply[c].code = 2104 /\ NextMessage(c) /\ reply[c].messages # <<>>
    BY <1>5 DEF Reads, ReadSymKeyRequest, ReadSymKey, ReadTextMessage, ReadUnreadable, ReadSpoiled,
                ReadingMessages
  <2> QED
    BY <2>1, NextMessageTypes DEF HasMessages
<1>6. CASE Serve(c)
  BY <1>6 DEF Serve, TypeOK
<1>7. StepOf(c) => BackToMenu(c) \/ Starts(c) \/ RegisterUser(c) \/ Serve(c) \/ Exit(c) \/ Reads(c)
  BY DEF StepOf, Program, Reads, ReadNothing, ReadClientsList, ReadPublicKey, EndOfMessages,
         DecryptThrows, ConnectionFails, Crash, Replace
<1>8. \/ \E r \in orphans : ServeOrphan(r)
      \/ ServerRestart
      \/ UNCHANGED vars
      => reply' = reply
  BY DEF ServeOrphan, ServerRestart, vars, client
<1> QED
  BY <1>1, <1>2, <1>3, <1>4, <1>5, <1>6, <1>7, <1>8, NextSteps

LEMMA ReachableNext ==
    ASSUME TypeOK, TypeOK', Conversation, [Next]_vars, faults' = 0, Reachable
    PROVE  Reachable'
<1>1. clients \subseteq clients'
  BY FaultlessSteps
<1>2. ASSUME NEW c \in User
      PROVE  Known(c)' \subseteq clients
  <2>1. CASE StepOf(c)
    BY <2>1, KnowledgeSteps
    DEF SameKnowledge, NoKnowledge, NewList, NewKey, Reachable
  <2>2. ASSUME NEW d \in User, StepOf(d), d # c
        PROVE  m_clients'[c] = m_clients[c]
    BY <2>2, OthersKept
  <2>3. (\E r \in orphans : ServeOrphan(r)) \/ UNCHANGED vars => UNCHANGED m_clients
    BY DEF ServeOrphan, vars, client
  <2>4. m_clients'[c] = m_clients[c] => Known(c)' \subseteq clients
    BY DEF Known, Reachable
  <2> QED
    BY <2>1, <2>2, <2>3, <2>4, NextSteps, FaultlessSteps
<1>3. ASSUME NEW c \in User, reply'[c].code = 2101
      PROVE  reply'[c].users \subseteq clients
  <2>1. CASE reply'[c] = reply[c]
    BY <1>3, <2>1 DEF Reachable
  <2>2. CASE Serve(c) /\ reply'[c] = ReplyTo(request[c])
    <3>1. request[c] \in Request
      BY <2>2 DEF Serve, TypeOK, Conversation
    <3> QED
      BY <1>3, <2>2, <3>1 DEF ReplyTo, ErrorReply
  <2> QED
    BY <1>3, <2>1, <2>2, ReplySteps DEF NoReply
<1>4. ASSUME NEW c \in User, request'[c].code = 603
      PROVE  request'[c].message.to \in clients
  <2>1. CASE request'[c] = request[c]
    BY <1>4, <2>1 DEF Reachable
  <2>2. CASE Starts(c)
    BY <1>4, <2>2, NewMessages DEF Reachable
  <2> QED
    BY <1>4, <2>1, <2>2, RequestSteps DEF NoRequest
<1> QED
  BY <1>1, <1>2, <1>3, <1>4 DEF Reachable

LEMMA ReachableInit == Init => Reachable
BY DEF Init, Reachable, Known, Nobody, NoReply, NoRequest

-------------------------------------------------------------------------------
(* The keys on their way, as long as nothing fails. *)

LEMMA OwnKeyKept ==
    ASSUME TypeOK, [Next]_vars, NEW m, Sound(m)
    PROVE  OwnKey(m)' <=> OwnKey(m)
BY HistoryGrows DEF OwnKey, Sound

LEMMA OwnKeyOf ==
    ASSUME NEW m, Sound(m)
    PROVE  /\ OwnKey(m) => m.key \in DOMAIN keys /\ keys[m.key] = [from |-> m.from, to |-> m.to]
           /\ m.type = 2 => OwnKey(m)
BY DEF OwnKey, Sound

\* The message that a step stores is the newest of its sender.
LEMMA StoredNewest ==
    ASSUME Conversation, MessagesSound, orphans = {}, NewestSent, NEW p \in User,
           NEW m \in Message, GrowStep(p, m)
    PROVE  /\ Serve(m.from) /\ m.from \in User
           /\ Request603(m.from) /\ request[m.from].message = m
           /\ m.to = p /\ Sound(m)
           /\ OwnKey(m) => Newest(m.from, p, m.key)
           /\ m.type = 2 => NotYetSent(m.from, p, m.key)
           /\ UNCHANGED <<m_clients, keys>>
<1>1. PICK c \in User : Serve(c) /\ request[c].code = 603 /\ request[c].message = m /\ m.to = p
  BY DEF GrowStep, Delivers
<1>2. m.from = c /\ Request603(c) /\ Sound(m)
  BY <1>1 DEF Conversation, MessagesSound, Request603, Serve
<1>3. /\ OwnKey(m) => Newest(c, p, m.key)
      /\ m.type = 2 => NotYetSent(c, p, m.key)
  <2>1. OwnKey(m) => Newest(c, p, m.key) /\ (m.type = 2 => NotYetSent(c, p, m.key))
    BY <1>1, <1>2 DEF NewestSent
  <2>2. m.type = 2 => OwnKey(m)
    BY <1>2, OwnKeyOf
  <2> QED
    BY <2>1, <2>2
<1>4. UNCHANGED <<m_clients, keys>>
  BY <1>1 DEF Serve, history
<1> QED
  BY <1>1, <1>2, <1>3, <1>4

LEMMA KeyReadOwn ==
    ASSUME TypeOK, TypeOK', MessagesSound, NEW p \in User, ReadSymKey(p), NEW b, b = Line(p)[1]
    PROVE  /\ 1 \in DOMAIN Line(p) /\ b.type = 2 /\ OwnKey(b) /\ Sound(b)
           /\ b.key \in DOMAIN keys /\ keys[b.key] = [from |-> b.from, to |-> p]
<1>1. 1 \in DOMAIN Line(p) /\ b.type = 2 /\ keys[b.key] = [from |-> b.from, to |-> p]
  BY KeyRead
<1>2. Sound(b)
  BY <1>1 DEF MessagesSound
<1> QED
  BY <1>1, <1>2, OwnKeyOf, KeyRead

\* A program that waits for its reply generates no key.
LEMMA NewestKept ==
    ASSUME TypeOK, Conversation, [Next]_vars, NEW c \in User, Request603(c),
           NEW p \in User, NEW k, Newest(c, p, k)
    PROVE  Newest(c, p, k)'
<1>1. state[c] # "menu"
  BY DEF Request603
<1>2. ASSUME NEW n \in DOMAIN keys', keys'[n] = [from |-> c, to |-> p]
      PROVE  n <= k
  <2>1. CASE n \in DOMAIN keys
    BY <1>2, <2>1, HistoryGrows DEF Newest
  <2>2. CASE n \notin DOMAIN keys
    <3>1. PICK d \in User, q \in User : KeyMade(d, q)
      BY <1>2, <2>2, HistorySteps
    <3>2. keys'[n] = [from |-> d, to |-> q]
      <4>1. n = Len(keys) + 1
        <5>1. PICK l \in Nat : l = Len(keys) /\ DOMAIN keys = 1..l /\ DOMAIN keys' = 1..(l + 1)
          BY <3>1, NewKeyLast
        <5> QED
          BY <1>2, <2>2, <5>1
      <4> QED
        BY <3>1, <4>1, NewKeyLast
    <3>3. d = c
      BY <1>2, <3>2
    <3> QED
      BY <1>1, <3>1, <3>3 DEF KeyMade, StartSymKey, Send, Call
  <2> QED
    BY <2>1, <2>2
<1> QED
  BY <1>2 DEF Newest

\* A key in a request is not handed over before the request is served.
LEMMA NotYetSentKept ==
    ASSUME TypeOK, TypeOK', Conversation, MessagesSound, KeysHeld, [Next]_vars,
           orphans = {}, NewestSent, NEW c \in User, ~Serve(c), NEW p \in User,
           NEW k \in DOMAIN keys, NotYetSent(c, p, k)
    PROVE  NotYetSent(c, p, k)'
<1>1. DOMAIN keys = 1..Len(keys) /\ Len(keys) \in Nat
  BY HistoryGrows
<1>2. ASSUME NEW l, l = SymmetricKey(p, c)'
      PROVE  l # k
  <2>1. PICK o : o = SymmetricKey(p, c)
    OBVIOUS
  <2>2. CASE l = o
    BY <2>1, <2>2 DEF NotYetSent
  <2>3. CASE l = NoKey
    BY <1>1, <2>3 DEF NoKey
  <2>4. CASE l = Len(keys) + 1
    BY <1>1, <2>4
  <2>5. CASE ReadSymKey(p) /\ c = Line(p)[1].from /\ l = Line(p)[1].key
    <3>1. PICK b : b = Line(p)[1]
      OBVIOUS
    <3>2. 1 \in DOMAIN Line(p) /\ OwnKey(b) /\ b.key \in DOMAIN keys
      BY <2>5, <3>1, KeyReadOwn
    <3>3. b.key < k
      BY <2>5, <3>1, <3>2 DEF NotYetSent
    <3> QED
      BY <1>1, <2>5, <3>1, <3>2, <3>3
  <2> QED
    BY <1>2, <2>1, <2>2, <2>3, <2>4, <2>5, KeySteps DEF KeyStep
<1>3. ASSUME NEW j \in DOMAIN Line(p)', NEW b, b = Line(p)'[j], b.from = c, OwnKey(b)'
      PROVE  b.key < k
  <2>1. ASSUME NEW i \in DOMAIN Line(p), b = Line(p)[i]
        PROVE  b.key < k
    <3>1. Sound(b)
      BY <2>1 DEF MessagesSound
    <3>2. OwnKey(b)
      BY <1>3, <3>1, OwnKeyKept
    <3> QED
      BY <1>3, <2>1, <3>2 DEF NotYetSent
  <2>2. ASSUME b \in Message, GrowStep(p, b)
        PROVE  FALSE
    BY <1>3, <2>2, StoredNewest
  <2> QED
    BY <1>3, <2>1, <2>2, InLine
<1>4. ASSUME NEW j \in DOMAIN Line(p)', Line(p)'[j].from = c, OwnKey(Line(p)[j])'
      PROVE  Line(p)'[j].key < k
  <2>1. PICK b : b = Line(p)'[j]
    OBVIOUS
  <2>2. OwnKey(b)'
    BY <1>4, <2>1 DEF OwnKey
  <2> QED
    BY <1>3, <1>4, <2>1, <2>2
<1> QED
  BY <1>2, <1>4 DEF NotYetSent

\* A program that sends a request does not change what is on its way to others, or
\* what they know.
LEMMA StartsLine ==
    ASSUME TypeOK, NEW c \in User, Starts(c), NEW p \in User, p # c
    PROVE  Line(p)' = Line(p) /\ SymmetricKey(p, c)' = SymmetricKey(p, c)
<1>1. reply'[p] = reply[p] /\ m_clients'[p] = m_clients[p]
  BY OthersKept DEF StepOf
<1>2. mailbox' = mailbox
  BY StartFrame
<1> QED
  BY <1>1, <1>2 DEF Line, Unread, SymmetricKey, Known

\* A request that is sent is the newest of its sender.
LEMMA NewestNew ==
    ASSUME TypeOK, TypeOK', Conversation, MessagesSound, KeysHeld, OwnNewest, [Next]_vars,
           NEW c \in User, Starts(c), request'[c].code = 603,
           NEW m, m = request'[c].message, NEW p \in User, p = m.to, OwnKey(m)'
    PROVE  /\ Newest(c, p, m.key)'
           /\ m.type = 2 => NotYetSent(c, p, m.key)'
<1>1. m.from = c /\ p \in Known(c) /\ p # c
  BY NewMessages DEF Conversation
<1>2. Line(p)' = Line(p) /\ SymmetricKey(p, c)' = SymmetricKey(p, c)
  BY <1>1, StartsLine
<1>3. PICK n \in Nat : n = Len(keys) /\ DOMAIN keys = 1..n
  BY HistoryGrows
<1>4. CASE m.type = 2
  <2>1. KeyMade(c, p) /\ m.key = n + 1
    BY <1>3, <1>4, NewMessages
  <2>2. DOMAIN keys' = 1..(n + 1)
    BY <1>3, <2>1, NewKeyLast
  <2>3. Newest(c, p, m.key)'
    BY <2>1, <2>2 DEF Newest
  <2>4. SymmetricKey(p, c)' # m.key
    <3>1. SymmetricKey(p, c) \in DOMAIN keys \cup {NoKey}
      BY DEF KeysHeld
    <3> QED
      BY <1>2, <1>3, <2>1, <3>1 DEF NoKey
  <2>5. ASSUME NEW j \in DOMAIN Line(p), NEW b, b = Line(p)[j], OwnKey(b)'
        PROVE  b.key < m.key
    <3>1. Sound(b)
      BY <2>5 DEF MessagesSound
    <3>2. b.key \in DOMAIN keys
      <4>1. OwnKey(b)
        BY <2>5, <3>1, OwnKeyKept
      <4> QED
        BY <3>1, <4>1 DEF OwnKey, Sound
    <3> QED
      BY <1>3, <2>1, <3>2
  <2>6. ASSUME NEW j \in DOMAIN Line(p)', OwnKey(Line(p)[j])'
        PROVE  Line(p)'[j].key < m.key
    <3>1. PICK b : b = Line(p)'[j]
      OBVIOUS
    <3>2. OwnKey(b)'
      BY <2>6, <3>1 DEF OwnKey
    <3> QED
      BY <1>2, <2>5, <2>6, <3>1, <3>2
  <2> QED
    BY <2>3, <2>4, <2>6 DEF NotYetSent
<1>5. CASE m.type = 3
  <2>1. UNCHANGED keys
    BY <1>5, NewMessages
  <2>2. m.key = SymmetricKey(c, m.to) /\ m.key # NoKey
    BY <1>5, NewMessages
  <2>3. PICK k : k = SymmetricKey(c, p)
    OBVIOUS
  <2>4. m.key = k /\ k # NoKey
    BY <2>2, <2>3
  <2>5. keys[k].from = c
    BY <1>1, <2>1, <2>4 DEF OwnKey
  <2>6. keys[k] = [from |-> c, to |-> p]
    <3>1. keys[k] \in {[from |-> c, to |-> p], [from |-> p, to |-> c]}
      BY <2>3, <2>4 DEF KeysHeld, KeyOfPair
    <3> QED
      BY <1>1, <2>5, <3>1
  <2>7. Newest(c, p, k)
    BY <2>3, <2>4, <2>6 DEF OwnNewest, Newest
  <2> QED
    BY <1>5, <2>1, <2>4, <2>7 DEF Newest
<1> QED
  BY <1>4, <1>5 DEF OwnKey

LEMMA NewestSentNext ==
    ASSUME TypeOK, TypeOK', Conversation, MessagesSound, KeysHeld, OwnNewest, [Next]_vars,
           orphans = {}, NewestSent
    PROVE  NewestSent'
<1>1. ASSUME NEW c \in User, NEW p \in User, NEW m, m = request'[c].message,
             Request603(c)', m.to = p, OwnKey(m)'
      PROVE  /\ Newest(c, p, m.key)'
             /\ m.type = 2 => NotYetSent(c, p, m.key)'
  <2>1. state'[c] = "sent" /\ request'[c].code = 603
    BY <1>1 DEF Request603
  <2>2. CASE request'[c] = request[c] /\ state[c] = "sent"
    <3>1. Request603(c) /\ m = request[c].message
      BY <1>1, <2>1, <2>2 DEF Request603
    <3>2. Sound(m)
      BY <3>1 DEF MessagesSound, Request603
    <3>3. OwnKey(m) /\ m.key \in DOMAIN keys
      BY <1>1, <3>2, OwnKeyKept, OwnKeyOf
    <3>4. PICK k \in DOMAIN keys : k = m.key
      BY <3>3
    <3>5. Newest(c, p, k) /\ (m.type = 2 => NotYetSent(c, p, k))
      BY <1>1, <3>1, <3>3, <3>4 DEF NewestSent
    <3>6. ~Serve(c)
      BY <2>1 DEF Serve, TypeOK
    <3>7. Newest(c, p, k)' /\ (m.type = 2 => NotYetSent(c, p, k)')
      BY <3>1, <3>5, <3>6, NewestKept, NotYetSentKept
    <3> QED
      BY <3>4, <3>7 DEF Newest, NotYetSent
  <2>3. CASE Starts(c)
    BY <1>1, <2>1, <2>3, NewestNew
  <2> QED
    BY <2>1, <2>2, <2>3, RequestSteps DEF NoRequest
<1>2. ASSUME NEW c \in User, NEW p \in User, Request603(c)', request'[c].message.to = p,
             OwnKey(request[c].message)'
      PROVE  /\ Newest(c, p, request[c].message.key)'
             /\ request'[c].message.type = 2 => NotYetSent(c, p, request[c].message.key)'
  <2>1. PICK m : m = request'[c].message
    OBVIOUS
  <2>2. OwnKey(m)'
    BY <1>2, <2>1 DEF OwnKey
  <2>3. Newest(c, p, m.key)' /\ (m.type = 2 => NotYetSent(c, p, m.key)')
    BY <1>1, <1>2, <2>1, <2>2
  <2> QED
    BY <2>1, <2>3 DEF Newest, NotYetSent
<1> QED
  BY <1>2 DEF NewestSent

LEMMA NewestOf ==
    ASSUME TypeOK, NEW c \in User, NEW p \in User, NEW k, Newest(c, p, k),
           NEW n \in DOMAIN keys, keys[n].from = c, keys[n].to = p
    PROVE  n <= k
<1>1. PICK r \in [from: User, to: User] : r = keys[n]
  <2>1. PICK S : S = [from: User, to: User]
    OBVIOUS
  <2>2. keys \in Seq(S)
    BY <2>1 DEF TypeOK
  <2>3. keys[n] \in S
    BY <2>2
  <2> QED
    BY <2>1, <2>3
<1>2. r = [from |-> c, to |-> p]
  BY <1>1
<1> QED
  BY <1>1, <1>2 DEF Newest

LEMMA OwnKeyFields ==
    ASSUME NEW m, Sound(m), OwnKey(m)
    PROVE  m.key \in DOMAIN keys /\ keys[m.key].from = m.from /\ keys[m.key].to = m.to
<1>1. m.key \in DOMAIN keys /\ keys[m.key] = [from |-> m.from, to |-> m.to]
  BY OwnKeyOf
<1> QED
  BY <1>1

LEMMA KeyBeforeKept ==
    ASSUME TypeOK, [Next]_vars, NEW k, NEW c, NEW b, Sound(b), KeyBefore(k, c, b)
    PROVE  KeyBefore(k, c, b)'
BY OwnKeyKept DEF KeyBefore

\* A message that is stored comes after the keys on their way.
LEMMA StoredAfterLine ==
    ASSUME TypeOK, Conversation, MessagesSound, orphans = {}, NewestSent, NEW p \in User,
           NEW m \in Message, GrowStep(p, m), NEW i \in DOMAIN Line(p), NEW a, a = Line(p)[i],
           OwnKey(a)
    PROVE  KeyBefore(a.key, a.from, m)
<1>1. PICK c \in User : c = m.from
  BY StoredNewest
<1>2. Sound(a) /\ a.to = p
  BY DEF MessagesSound
<1>3. SUFFICES ASSUME m.from = a.from, OwnKey(m)
               PROVE  a.key <= m.key /\ (m.type = 2 => a.key < m.key)
  BY DEF KeyBefore
<1>4. PICK k : k = m.key
  OBVIOUS
<1>5. Newest(c, p, k) /\ (m.type = 2 => NotYetSent(c, p, k))
  BY <1>1, <1>3, <1>4, StoredNewest
<1>6. a.key <= k
  BY <1>1, <1>2, <1>3, <1>5, OwnKeyFields, NewestOf
<1>7. m.type = 2 => a.key < k
  BY <1>1, <1>3, <1>5 DEF NotYetSent
<1> QED
  BY <1>4, <1>6, <1>7

\* It comes after the key that its addressee has of its sender.
LEMMA StoredAfterHeld ==
    ASSUME TypeOK, Conversation, MessagesSound, KeysHeld, orphans = {}, NewestSent,
           NEW p \in User, NEW m \in Message, GrowStep(p, m),
           NEW c \in User, NEW told, told = SymmetricKey(p, c), told # NoKey, keys[told].from = c
    PROVE  KeyBefore(told, c, m)
<1>1. told \in DOMAIN keys /\ keys[told].to = p /\ told \in Nat
  BY KeyGenerator DEF TypeOK
<1>2. SUFFICES ASSUME m.from = c, OwnKey(m)
               PROVE  told <= m.key /\ (m.type = 2 => told < m.key)
  BY DEF KeyBefore
<1>3. PICK k : k = m.key
  OBVIOUS
<1>4. Newest(c, p, k) /\ (m.type = 2 => NotYetSent(c, p, k)) /\ Sound(m)
  BY <1>2, <1>3, StoredNewest
<1>5. told <= k
  BY <1>1, <1>4, NewestOf
<1>6. m.type = 2 => told # k
  BY <1>4 DEF NotYetSent
<1>7. k \in Nat
  BY <1>2, <1>3, MessageKinds DEF OwnKey, Key
<1> QED
  BY <1>1, <1>3, <1>5, <1>6, <1>7

LEMMA KeysInOrderInit == Init => KeysInOrder
<1> SUFFICES ASSUME Init PROVE KeysInOrder
  OBVIOUS
<1>1. ASSUME NEW p \in User
      PROVE  DOMAIN Line(p) = {}
  <2>1. Unread(p) = <<>> /\ mailbox[p] = <<>>
    BY DEF Init, Unread, NoReply
  <2> QED
    BY <2>1, TypeInit, LineIsSeq
<1> QED
  BY <1>1 DEF KeysInOrder

LEMMA LineKeysNext ==
    ASSUME TypeOK, TypeOK', Conversation, MessagesSound, KeysHeld, [Next]_vars,
           orphans = {}, NewestSent, KeysInOrder, NEW p \in User,
           NEW i \in DOMAIN Line(p)', NEW j \in DOMAIN Line(p)', i < j,
           NEW a, a = Line(p)'[i], OwnKey(a)', NEW b, b = Line(p)'[j]
    PROVE  KeyBefore(a.key, a.from, b)'
<1>1. PICK g \in DOMAIN Line(p) :
        /\ a = Line(p)[g]
        /\ \/ \E h \in DOMAIN Line(p) : g < h /\ b = Line(p)[h]
           \/ b \in Message /\ GrowStep(p, b)
  BY InLineBefore
<1>2. Sound(a) /\ OwnKey(a)
  BY <1>1, OwnKeyKept DEF MessagesSound
<1>3. PICK k, c : k = a.key /\ c = a.from
  OBVIOUS
<1>4. ASSUME NEW h \in DOMAIN Line(p), g < h, b = Line(p)[h]
      PROVE  Sound(b) /\ KeyBefore(k, c, b)
  BY <1>1, <1>2, <1>3, <1>4 DEF KeysInOrder, MessagesSound
<1>5. ASSUME b \in Message, GrowStep(p, b)
      PROVE  Sound(b) /\ KeyBefore(k, c, b)
  BY <1>1, <1>2, <1>3, <1>5, StoredAfterLine, StoredNewest
<1>6. KeyBefore(k, c, b)'
  BY <1>1, <1>4, <1>5, KeyBeforeKept
<1> QED
  BY <1>3, <1>6 DEF KeyBefore

LEMMA HeldKeysNext ==
    ASSUME TypeOK, TypeOK', Conversation, MessagesSound, KeysHeld, [Next]_vars,
           orphans = {}, NewestSent, KeysInOrder, NEW p \in User, NEW c \in User,
           NEW j \in DOMAIN Line(p)', NEW b, b = Line(p)'[j],
           NEW l, l = SymmetricKey(p, c)', l # NoKey, keys'[l].from = c
    PROVE  KeyBefore(l, c, b)'
<1>1. PICK k : k = SymmetricKey(p, c)
  OBVIOUS
<1>2. CASE l = k
  <2>1. k \in DOMAIN keys
    BY <1>1, <1>2, KeyGenerator
  <2>2. keys[k].from = c /\ k # NoKey
    BY <1>2, <2>1, HistoryGrows
  <2>3. ASSUME NEW h \in DOMAIN Line(p), b = Line(p)[h]
        PROVE  Sound(b) /\ KeyBefore(k, c, b)
    BY <1>1, <2>2, <2>3 DEF KeysInOrder, MessagesSound
  <2>4. ASSUME b \in Message, GrowStep(p, b)
        PROVE  Sound(b) /\ KeyBefore(k, c, b)
    BY <1>1, <2>2, <2>4, StoredAfterHeld, StoredNewest
  <2> QED
    BY <1>2, <2>3, <2>4, InLine, KeyBeforeKept
<1>3. CASE KeyMade(p, c) /\ c \in Known(p) /\ l = Len(keys) + 1
  <2>1. keys'[l] = [from |-> p, to |-> c]
    BY <1>3, NewKeyLast
  <2>2. c = p
    BY <2>1
  <2> QED
    BY <1>3, <2>2 DEF Conversation
<1>4. CASE ReadSymKey(p) /\ c = Line(p)[1].from /\ l = Line(p)[1].key
  <2>1. PICK a : a = Line(p)[1]
    OBVIOUS
  <2>2. 1 \in DOMAIN Line(p) /\ OwnKey(a)
    BY <1>4, <2>1, KeyReadOwn
  <2>3. ReadStep(p)
    BY <1>4, ReadLine DEF Reads
  <2>4. j + 1 \in DOMAIN Line(p) /\ b = Line(p)[j + 1] /\ 1 < j + 1
    <3>1. Len(Line(p)') = Len(Line(p)) - 1 /\ Len(Line(p)) \in Nat
      BY <2>3, LineIsSeq DEF ReadStep, Shifted
    <3>2. PICK n \in Nat : n = Len(Line(p)) /\ DOMAIN Line(p) = 1..n /\ j \in 1..(n - 1)
      BY <3>1, LineIsSeq, NextLineIsSeq
    <3>3. b = Line(p)[j + 1]
      BY <2>3, <3>1, <3>2 DEF ReadStep, Shifted
    <3> QED
      BY <3>2, <3>3
  <2>5. PICK h \in DOMAIN Line(p) : b = Line(p)[h] /\ 1 < h
    BY <2>4
  <2>6. Sound(b) /\ KeyBefore(l, c, b)
    BY <1>4, <2>1, <2>2, <2>5 DEF KeysInOrder, MessagesSound
  <2> QED
    BY <2>6, KeyBeforeKept
<1> QED
  BY <1>1, <1>2, <1>3, <1>4, KeySteps DEF KeyStep

LEMMA KeysInOrderNext ==
    ASSUME TypeOK, TypeOK', Conversation, MessagesSound, KeysHeld, [Next]_vars,
           orphans = {}, NewestSent, KeysInOrder
    PROVE  KeysInOrder'
<1>1. ASSUME NEW p \in User, NEW j \in DOMAIN Line(p)', NEW i \in DOMAIN Line(p)', i < j,
             OwnKey(Line(p)[i])'
      PROVE  KeyBefore(Line(p)[i].key, Line(p)[i].from, Line(p)[j])'
  <2>1. PICK a, b : a = Line(p)'[i] /\ b = Line(p)'[j]
    OBVIOUS
  <2>2. OwnKey(a)'
    BY <1>1, <2>1 DEF OwnKey
  <2>3. KeyBefore(a.key, a.from, b)'
    BY <1>1, <2>1, <2>2, LineKeysNext
  <2> QED
    BY <2>1, <2>3 DEF KeyBefore, OwnKey
<1>2. ASSUME NEW p \in User, NEW j \in DOMAIN Line(p)', NEW c \in User,
             SymmetricKey(p, c)' # NoKey, keys'[SymmetricKey(p, c)'].from = c
      PROVE  KeyBefore(SymmetricKey(p, c), c, Line(p)[j])'
  <2>1. PICK l, b : l = SymmetricKey(p, c)' /\ b = Line(p)'[j]
    OBVIOUS
  <2>2. l # NoKey /\ keys'[l].from = c
    BY <1>2, <2>1
  <2>3. KeyBefore(l, c, b)'
    BY <1>2, <2>1, <2>2, HeldKeysNext
  <2> QED
    BY <2>1, <2>3 DEF KeyBefore, OwnKey
<1> QED
  BY <1>1, <1>2 DEF KeysInOrder

-------------------------------------------------------------------------------
(* A user who sends no key gets every key that is sent to it. *)

LEMMA HeadOfLine ==
    ASSUME TypeOK, NEW p \in User, reply[p].code = 2104, reply[p].messages # <<>>
    PROVE  1 \in DOMAIN Line(p) /\ Line(p)[1] = Head(reply[p].messages)
<1>1. PICK s \in Seq(Message) : s = reply[p].messages
  BY ReplyKinds DEF TypeOK
<1>2. Unread(p) = s /\ s # <<>>
  BY <1>1 DEF Unread
<1>3. Len(s) >= 1 /\ Len(s) \in Nat /\ Head(s) = s[1]
  BY <1>2
<1>4. Line(p)[1] = s[1]
  BY <1>2, <1>3, LineIsSeq
<1>5. Len(mailbox[p]) \in Nat
  BY LineIsSeq
<1>6. 1 \in DOMAIN Line(p)
  BY <1>2, <1>3, <1>5, LineIsSeq
<1> QED
  BY <1>1, <1>3, <1>4, <1>6

LEMMA KeyToRead ==
    ASSUME NEW p \in User, ReadSymKey(p)
    PROVE  reply[p].code = 2104 /\ reply[p].messages # <<>>
BY DEF ReadSymKey, ReadingMessages

\* The key of a known user is kept.
LEMMA KeyKept ==
    ASSUME TypeOK, TypeOK', NEW p \in User, ReadSymKey(p), NEW m, m = Line(p)[1],
           NEW c, c = m.from, NEW l, l = SymmetricKey(p, c)'
    PROVE  /\ owed' = owed
           /\ l = m.key \/ (l = NoKey /\ c \notin Known(p))
<1>6. owed' = owed
  BY DEF ReadSymKey, ReadingMessages
<1>1. m = Head(reply[p].messages)
  BY KeyToRead, HeadOfLine
<1>2. PICK k : k = m.key
  OBVIOUS
<1>3. \/ c \in Known(p) /\ m_clients' = [m_clients EXCEPT ![p][c].symmetricKey = k]
      \/ c \notin Known(p) /\ UNCHANGED m_clients
  BY <1>1, <1>2 DEF ReadSymKey
<1>4. CASE c \in Known(p) /\ m_clients' = [m_clients EXCEPT ![p][c].symmetricKey = k]
  BY <1>2, <1>4, <1>6, KeySet
<1>5. CASE c \notin Known(p) /\ UNCHANGED m_clients
  BY <1>5, <1>6 DEF SymmetricKey, Known
<1> QED
  BY <1>3, <1>4, <1>5

\* It can read every text, so it gives up no messages.
LEMMA NothingDropped ==
    ASSUME TypeOK, Conversation, MessagesSound, KeysHeld, Flow,
           NEW p \in User, SendsNoKey(p)
    PROVE  ~DecryptThrows(p)
<1> SUFFICES ASSUME DecryptThrows(p) PROVE FALSE
  OBVIOUS
<1>1. reply[p].code = 2104 /\ reply[p].messages # <<>>
  BY DEF DecryptThrows, ReadingMessages
<1>2. PICK m : m = Head(reply[p].messages)
  OBVIOUS
<1>3. 1 \in DOMAIN Line(p) /\ m = Line(p)[1]
  BY <1>1, <1>2, HeadOfLine
<1>4. PICK d \in User : d = m.from
  <2>1. Line(p)[1] \in Message
    BY <1>3, LineIsSeq
  <2> QED
    BY <1>3, <2>1, MessageKinds
<1>5. PICK told, k : told = SymmetricKey(p, d) /\ k = m.key
  OBVIOUS
<1>6. m.type = 3 /\ told # NoKey /\ told # k
  BY <1>2, <1>4, <1>5 DEF DecryptThrows
<1>7. Sound(m) /\ m.to = p
  BY <1>3 DEF MessagesSound
<1>8. /\ k \in DOMAIN keys /\ told \in DOMAIN keys
      /\ keys[k].from = d /\ keys[k].to = p /\ keys[told].from = d /\ d # p
  <2>1. keys[k] \in {[from |-> d, to |-> p], [from |-> p, to |-> d]} /\ k \in DOMAIN keys
    BY <1>4, <1>5, <1>6, <1>7 DEF Sound
  <2>2. told \in DOMAIN keys /\ d # p /\ (keys[told].from = p \/ keys[told].from = d)
    BY <1>5, <1>6, KeyGenerator
  <2> QED
    BY <2>1, <2>2 DEF SendsNoKey
<1>9. OwnKey(m)
  BY <1>4, <1>5, <1>6, <1>8 DEF OwnKey
<1>10. k \in Nat /\ told \in Nat
  BY <1>8, KeyNumbers
<1>11. KeyBefore(told, d, m)
  BY <1>3, <1>5, <1>6, <1>8 DEF Flow, KeysInOrder
<1>12. told < k
  BY <1>4, <1>5, <1>6, <1>9, <1>10, <1>11 DEF KeyBefore
<1>13. KeyArrives(d, p, k)
  <2>1. PICK r : r = keys[k]
    OBVIOUS
  <2>2. keys[k] = [from |-> d, to |-> p]
    BY <1>4, <1>5, <1>6, <1>7, <1>8 DEF Sound
  <2> QED
    BY <1>8, <2>2 DEF Flow, KeysArrive
<1>14. ASSUME NEW j \in DOMAIN Line(p), NEW b, b = Line(p)[j], b.type = 2, b.key = k
       PROVE  FALSE
  <2>1. Sound(b)
    BY <1>14 DEF MessagesSound
  <2>2. OwnKey(b) /\ b.from = d
    BY <1>8, <1>14, <2>1, OwnKeyOf, OwnKeyFields
  <2>3. 1 < j
    <3>1. j # 1
      BY <1>3, <1>6, <1>14
    <3>2. j \in Nat /\ j >= 1
      BY <1>14, LineIsSeq
    <3> QED
      BY <3>1, <3>2
  <2>4. KeyBefore(k, d, b)
    BY <1>3, <1>4, <1>5, <1>9, <1>14, <2>3 DEF Flow, KeysInOrder
  <2> QED
    BY <1>10, <1>14, <2>2, <2>4 DEF KeyBefore
<1>15. ASSUME NEW n, n = request[d].message, Request603(d), n.type = 2, n.key = k
       PROVE  FALSE
  <2>1. Sound(n) /\ n.from = d
    BY <1>15 DEF MessagesSound, Request603, Conversation
  <2>2. OwnKey(n) /\ n.to = p
    BY <1>8, <1>15, <2>1, OwnKeyOf, OwnKeyFields
  <2>3. NotYetSent(d, p, k)
    BY <1>15, <2>2 DEF Flow, NewestSent
  <2>4. k < k
    BY <1>3, <1>4, <1>5, <1>9, <2>3 DEF NotYetSent
  <2> QED
    BY <1>10, <2>4
<1>16. CASE k <= told \/ (told = NoKey /\ k \notin owed)
  BY <1>6, <1>10, <1>12, <1>16
<1> QED
  BY <1>5, <1>13, <1>14, <1>15, <1>16 DEF KeyArrives

\* A program that waits for its reply goes on waiting until it is served.
LEMMA RequestWaits ==
    ASSUME TypeOK, Conversation, [Next]_vars, faults' = 0,
           NEW c \in User, state[c] = "sent", ~Serve(c)
    PROVE  request'[c] = request[c] /\ state'[c] = "sent"
<1>1. ~StepOf(c)
  BY StartFrame, ProgramFrame, FaultlessSteps DEF StepOf, RegisterUser
<1>2. ASSUME NEW d \in User, StepOf(d)
      PROVE  request'[c] = request[c] /\ state'[c] = "sent"
  BY <1>1, <1>2, OthersKept
<1>3. (\E r \in orphans : ServeOrphan(r)) \/ UNCHANGED vars => UNCHANGED <<request, state>>
  BY DEF ServeOrphan, vars, client
<1> QED
  BY <1>2, <1>3, NextSteps, FaultlessSteps

LEMMA KeySent ==
    ASSUME TypeOK, NEW c \in User, NEW p \in User, KeyMade(c, p), NEW k, k = Len(keys) + 1
    PROVE  Request603(c)' /\ request'[c].message.type = 2 /\ request'[c].message.key = k
<1> DEFINE m == [type |-> 2, from |-> c, to |-> p, key |-> k]
<1>1. Send(c, m)
  BY DEF KeyMade, StartSymKey
<1>2. m.type = 2 /\ m.key = k
  OBVIOUS
<1> HIDE DEF m
<1>3. PICK r : r = [code |-> 603, from |-> c, message |-> m]
  OBVIOUS
<1>4. request'[c] = r /\ state'[c] = "sent"
  BY <1>1, <1>3 DEF Send, Call, TypeOK
<1>5. r.code = 603 /\ r.message = m
  BY <1>3
<1> QED
  BY <1>2, <1>4, <1>5 DEF Request603

\* The key is among the messages on their way.
LEMMA ArrivesFromLine ==
    ASSUME TypeOK, TypeOK', Conversation, MessagesSound, KeysHeld, [Next]_vars, faults' = 0, Flow,
           NEW c \in User, NEW p \in User, SendsNoKey(p),
           NEW k \in DOMAIN keys, keys[k].from = c, keys[k].to = p,
           NEW j \in DOMAIN Line(p), NEW a, a = Line(p)[j], a.type = 2, a.key = k
    PROVE  KeyArrives(c, p, k)'
<1>1. PICK n \in Nat : n = Len(Line(p)) /\ DOMAIN Line(p) = 1..n
  BY LineIsSeq
<1>2. PICK n2 \in Nat : n2 = Len(Line(p)') /\ DOMAIN Line(p)' = 1..n2
  BY NextLineIsSeq
<1>3. Sound(a) /\ OwnKey(a) /\ a.from = c
  <2>1. Sound(a)
    BY DEF MessagesSound
  <2> QED
    BY <2>1, OwnKeyOf, OwnKeyFields
<1>4. ASSUME NEW i \in DOMAIN Line(p)', Line(p)'[i] = a
      PROVE  KeyArrives(c, p, k)'
  BY <1>4 DEF KeyArrives
<1>5. CASE Shifted(p, 0)
  <2>1. j \in DOMAIN Line(p)' /\ Line(p)'[j] = a
    BY <1>1, <1>2, <1>5 DEF Shifted
  <2> QED
    BY <1>4, <2>1
<1>6. ASSUME NEW m \in Message, GrowStep(p, m)
      PROVE  KeyArrives(c, p, k)'
  <2>1. j \in DOMAIN Line(p)' /\ Line(p)'[j] = a
    BY <1>1, <1>2, <1>6 DEF GrowStep, Grown
  <2> QED
    BY <1>4, <2>1
<1>7. CASE ReadStep(p) /\ j # 1
  <2>1. j - 1 \in 1..n2 /\ (j - 1) + 1 = j /\ \A i \in 1..n2 : Line(p)'[i] = Line(p)[i + 1]
    BY <1>1, <1>2, <1>7 DEF ReadStep, Shifted
  <2>2. Line(p)'[j - 1] = Line(p)[j]
    BY <2>1
  <2> QED
    BY <1>2, <1>4, <2>1, <2>2
<1>8. CASE ReadStep(p) /\ j = 1
  <2>1. ReadSymKey(p)
    BY <1>8, FaultlessSteps
    DEF ReadStep, Reads, ReadSymKeyRequest, ReadTextMessage, ReadUnreadable
  <2>2. ASSUME NEW i \in DOMAIN Line(p)', NEW b, b = Line(p)'[i], b.type = 2, b.from = c
        PROVE  k < b.key
    <3>1. i + 1 \in 1..n /\ 1 < i + 1 /\ b = Line(p)[i + 1]
      BY <1>1, <1>2, <1>8, <2>2 DEF ReadStep, Shifted
    <3>2. PICK h \in DOMAIN Line(p) : b = Line(p)[h] /\ 1 < h
      BY <1>1, <3>1
    <3>3. Sound(b)
      BY <3>2 DEF MessagesSound
    <3>4. KeyBefore(k, c, b)
      BY <1>3, <1>8, <3>2 DEF Flow, KeysInOrder
    <3> QED
      BY <2>2, <3>3, <3>4, OwnKeyOf DEF KeyBefore
  <2>3. PICK l : l = SymmetricKey(p, c)'
    OBVIOUS
  <2>4. owed' = owed /\ (l = k \/ (l = NoKey /\ c \notin Known(p)))
    BY <1>3, <1>8, <2>1, <2>3, KeyKept
  <2>6. c \notin Known(p) => k \notin owed
    BY DEF KeysHeld
  <2>5. k <= k
    BY KeyNumbers
  <2> QED
    BY <2>2, <2>3, <2>4, <2>5, <2>6 DEF KeyArrives
<1> QED
  BY <1>5, <1>6, <1>7, <1>8, FaultlessLine, NothingDropped DEF Flow

\* The key is in a request.
LEMMA ArrivesFromRequest ==
    ASSUME TypeOK, TypeOK', Conversation, MessagesSound, [Next]_vars, faults' = 0, Reachable,
           NEW c \in User, NEW p \in User, NEW k \in DOMAIN keys, keys[k].to = p,
           Request603(c), NEW m, m = request[c].message, m.type = 2, m.key = k
    PROVE  KeyArrives(c, p, k)'
<1>1. Sound(m) /\ m.to = p
  <2>1. Sound(m)
    BY DEF MessagesSound, Request603
  <2> QED
    BY <2>1, OwnKeyOf, OwnKeyFields
<1>2. CASE Serve(c)
  <2>1. p \in clients /\ request[c].code = 603
    BY <1>1 DEF Reachable, Request603
  <2>2. GrowStep(p, m)
    BY <1>1, <1>2, <2>1, ServeLine
  <2>3. PICK n \in Nat : n = Len(Line(p))
    <3>1. Len(Line(p)) \in Nat
      BY LineIsSeq
    <3> QED
      BY <3>1
  <2>4. n + 1 \in DOMAIN Line(p)' /\ Line(p)'[n + 1] = m
    BY <2>2, <2>3, NextLineIsSeq DEF GrowStep, Grown
  <2> QED
    BY <2>4 DEF KeyArrives
<1>3. CASE ~Serve(c)
  <2>1. request'[c] = request[c] /\ state'[c] = "sent"
    BY <1>3, RequestWaits DEF Request603
  <2> QED
    BY <2>1 DEF KeyArrives, Request603
<1> QED
  BY <1>2, <1>3

\* The key was read, or forgotten.
LEMMA ArrivesFromRead ==
    ASSUME TypeOK, TypeOK', Conversation, MessagesSound, KeysHeld, [Next]_vars, faults' = 0, Flow,
           NEW c \in User, NEW p \in User, SendsNoKey(p)',
           NEW k \in DOMAIN keys, keys[k].from = c, keys[k].to = p,
           ~(Request603(c) /\ request[c].message.type = 2 /\ request[c].message.key = k),
           \A j \in DOMAIN Line(p) :
             Line(p)[j].type = 2 /\ Line(p)[j].from = c => k < Line(p)[j].key,
           NEW told, told = SymmetricKey(p, c),
           k <= told \/ (told = NoKey /\ k \notin owed)
    PROVE  KeyArrives(c, p, k)'
<1>1. k \in Nat /\ k # 0
  BY HistoryGrows
<1>2. ASSUME NEW j \in DOMAIN Line(p)', NEW b, b = Line(p)'[j], b.type = 2, b.from = c
      PROVE  k < b.key
  <2>1. ASSUME NEW h \in DOMAIN Line(p), b = Line(p)[h]
        PROVE  k < b.key
    BY <1>2, <2>1
  <2>2. ASSUME b \in Message, GrowStep(p, b)
        PROVE  k < b.key
    <3>1. PICK l : l = b.key
      OBVIOUS
    <3>2. Sound(b) /\ OwnKey(b)
      BY <1>2, <2>2, StoredNewest, OwnKeyOf DEF Flow
    <3>3. Newest(c, p, l) /\ Request603(c) /\ request[c].message = b
      BY <1>2, <2>2, <3>1, <3>2, StoredNewest DEF Flow
    <3>4. k <= l
      BY <3>3, NewestOf
    <3>5. l # k
      BY <1>2, <3>1, <3>3
    <3>6. l \in Nat
      <4>1. l \in DOMAIN keys
        BY <3>1, <3>2, OwnKeyFields
      <4> QED
        BY <4>1, HistoryGrows
    <3> QED
      BY <1>1, <3>1, <3>4, <3>5, <3>6
  <2> QED
    BY <1>2, <2>1, <2>2, InLine
<1>3. ASSUME NEW l, l = SymmetricKey(p, c)', l # NoKey
      PROVE  k <= l
  <2>1. CASE l = told
    BY <1>3, <2>1 DEF NoKey
  <2>2. CASE KeyMade(p, c) /\ l = Len(keys) + 1
    <3>1. keys'[l] = [from |-> p, to |-> c] /\ l \in DOMAIN keys'
      BY <2>2, NewKeyLast
    <3> QED
      BY <3>1 DEF SendsNoKey
  <2>3. CASE ReadSymKey(p) /\ c = Line(p)[1].from /\ l = Line(p)[1].key
    <3>1. 1 \in DOMAIN Line(p) /\ Line(p)[1].type = 2 /\ Line(p)[1].key \in DOMAIN keys
      BY <2>3, KeyRead
    <3>2. k < l
      BY <2>3, <3>1
    <3>3. l \in DOMAIN keys
      BY <2>3, <3>1
    <3>4. l \in Nat
      BY <3>3, HistoryGrows
    <3> QED
      BY <1>1, <3>2, <3>4
  <2> QED
    BY <1>3, <2>1, <2>2, <2>3, KeySteps DEF KeyStep
<1>4. ASSUME SymmetricKey(p, c)' = NoKey
      PROVE  k \notin owed'
  <2>1. k \notin owed => k \notin owed'
    <3>1. k # Len(keys) + 1
      BY HistoryGrows
    <3> QED
      BY <3>1, OwedSteps
  <2>2. CASE told = NoKey
    BY <1>1, <2>1, <2>2 DEF NoKey
  <2>3. CASE told # NoKey
    <3>1. NothingOwed(p)
      BY <1>4, <2>3, KeyForgotten
    <3> QED
      BY <3>1 DEF NothingOwed
  <2> QED
    BY <2>2, <2>3
<1>5. PICK l : l = SymmetricKey(p, c)'
  OBVIOUS
<1> QED
  BY <1>2, <1>3, <1>4, <1>5 DEF KeyArrives

LEMMA KeysArriveNext ==
    ASSUME TypeOK, TypeOK', Conversation, MessagesSound, KeysHeld, [Next]_vars, faults' = 0, Flow
    PROVE  KeysArrive'
<1>1. ASSUME NEW c \in User, NEW p \in User, c # p, SendsNoKey(p)',
             NEW k \in DOMAIN keys', keys'[k].from = c, keys'[k].to = p
      PROVE  KeyArrives(c, p, k)'
  <2>1. SendsNoKey(p)
    BY <1>1, HistoryGrows DEF SendsNoKey
  <2>2. CASE k \notin DOMAIN keys
    <3>1. PICK d \in User, q \in User : KeyMade(d, q)
      BY <1>1, <2>2, HistorySteps
    <3>2. k = Len(keys) + 1
      <4>1. PICK n \in Nat : n = Len(keys) /\ DOMAIN keys = 1..n /\ DOMAIN keys' = 1..(n + 1)
        BY <3>1, NewKeyLast
      <4> QED
        BY <1>1, <2>2, <4>1
    <3>3. d = c
      <4>1. keys'[k] = [from |-> d, to |-> q]
        BY <3>1, <3>2, NewKeyLast
      <4> QED
        BY <1>1, <4>1
    <3>4. Request603(c)' /\ request'[c].message.type = 2 /\ request'[c].message.key = k
      BY <3>1, <3>2, <3>3, KeySent
    <3> QED
      BY <3>4 DEF KeyArrives
  <2>3. CASE k \in DOMAIN keys
    <3>1. keys[k].from = c /\ keys[k].to = p
      BY <1>1, <2>3, HistoryGrows
    <3>2. KeyArrives(c, p, k)
      <4>1. PICK r \in [from: User, to: User] : r = keys[k]
        <5>1. PICK S : S = [from: User, to: User]
          OBVIOUS
        <5>2. keys \in Seq(S)
          BY <5>1 DEF TypeOK
        <5>3. keys[k] \in S
          BY <2>3, <5>2
        <5> QED
          BY <5>1, <5>3
      <4>2. r = [from |-> c, to |-> p]
        BY <3>1, <4>1
      <4> QED
        BY <1>1, <2>1, <2>3, <4>1, <4>2 DEF Flow, KeysArrive
    <3>3. ASSUME NEW j \in DOMAIN Line(p), Line(p)[j].type = 2, Line(p)[j].key = k
          PROVE  KeyArrives(c, p, k)'
      BY <2>1, <2>3, <3>1, <3>3, ArrivesFromLine
    <3>4. CASE Request603(c) /\ request[c].message.type = 2 /\ request[c].message.key = k
      BY <2>3, <3>1, <3>4, ArrivesFromRequest DEF Flow
    <3>5. CASE /\ ~(/\ Request603(c) /\ request[c].message.type = 2
                    /\ request[c].message.key = k)
               /\ \A j \in DOMAIN Line(p) :
                    Line(p)[j].type = 2 /\ Line(p)[j].from = c => k < Line(p)[j].key
               /\ \/ k <= SymmetricKey(p, c)
                  \/ SymmetricKey(p, c) = NoKey /\ k \notin owed
      BY <1>1, <2>3, <3>1, <3>5, ArrivesFromRead
    <3> QED
      BY <3>2, <3>3, <3>4, <3>5 DEF KeyArrives
  <2> QED
    BY <2>2, <2>3
<1>2. ASSUME NEW c \in User, NEW p \in User, c # p, SendsNoKey(p)',
             NEW k \in DOMAIN keys', keys'[k] = [from |-> c, to |-> p]
      PROVE  KeyArrives(c, p, k)'
  BY <1>1, <1>2
<1> QED
  BY <1>2 DEF KeysArrive

LEMMA FlowInit == Init => Flow
<1> SUFFICES ASSUME Init PROVE Flow
  OBVIOUS
<1>1. orphans = {} /\ NewestSent /\ KeysArrive
  BY DEF Init, NewestSent, Request603, KeysArrive
<1> QED
  BY <1>1, ReachableInit, KeysInOrderInit DEF Flow

LEMMA FlowNext ==
    ASSUME TypeOK, TypeOK', Conversation, MessagesSound, KeysHeld, OwnNewest,
           [Next]_vars, faults = 0 => Flow
    PROVE  (faults = 0 => Flow)'
<1> SUFFICES ASSUME faults' = 0 PROVE Flow'
  OBVIOUS
<1>1. Flow /\ orphans = {} /\ Reachable /\ NewestSent /\ KeysInOrder
  BY FaultlessSteps DEF Flow
<1>2. orphans' = {}
  BY <1>1, FaultlessOrphans
<1>3. Reachable'
  BY <1>1, ReachableNext
<1>4. NewestSent'
  BY <1>1, NewestSentNext
<1>5. KeysInOrder'
  BY <1>1, KeysInOrderNext
<1>6. KeysArrive'
  BY <1>1, KeysArriveNext
<1> QED
  BY <1>2, <1>3, <1>4, <1>5, <1>6 DEF Flow

-------------------------------------------------------------------------------
(* The inductive invariant and the properties. *)

LEMMA ExchangeInvInit == Init => ExchangeInv
BY TypeInit, ConversationInit, MessagesSoundInit, KeysHeldInit, OwnNewestInit, TextsOnceInit,
   TextsInOrderInit, FlowInit
DEF ExchangeInv

LEMMA ExchangeInvNext ==
    ASSUME ExchangeInv, [Next]_vars
    PROVE  ExchangeInv'
<1>1. /\ TypeOK /\ Conversation /\ MessagesSound /\ KeysHeld /\ OwnNewest
      /\ TextsOnce /\ TextsInOrder /\ ShownInOrder /\ (faults = 0 => Flow)
  BY DEF ExchangeInv
<1>2. TypeOK' /\ Conversation'
  BY <1>1, TypeNext, ConversationNext
<1>3. MessagesSound' /\ KeysHeld'
  BY <1>1, <1>2, MessagesSoundNext, KeysHeldNext
<1>4. OwnNewest'
  BY <1>1, <1>2, <1>3, OwnNewestNext
<1>5. TextsOnce' /\ TextsInOrder' /\ ShownInOrder'
  BY <1>1, <1>2, TextsOnceNext, TextsInOrderNext, ShownInOrderNext
<1>6. (faults = 0 => Flow)'
  BY <1>1, <1>2, FlowNext
<1> QED
  BY <1>2, <1>3, <1>4, <1>5, <1>6 DEF ExchangeInv

\* What the properties rest on holds in every reachable state, whatever fails.
THEOREM KeyExchangeInvariant == Spec => []ExchangeInv
BY ExchangeInvInit, ExchangeInvNext, PTL DEF Spec

\* The clients' and the server's variables have the types of Client.h, Request and
\* Message.h.
THEOREM KeyExchangeType == Spec => []TypeOK
<1>1. ExchangeInv => TypeOK
  BY DEF ExchangeInv
<1> QED
  BY <1>1, KeyExchangeInvariant, PTL

\* For any users and keys, a key is filed under the user it was exchanged with
\* (ReadSymKey::run finds the sender in m_clients).
THEOREM KeysOfPairs == Spec => []KeyOfPair
<1>1. ExchangeInv => KeyOfPair
  BY DEF ExchangeInv, KeysHeld
<1> QED
  BY <1>1, KeyExchangeInvariant, PTL

\* Whatever fails, nobody holds a newer key of a user than that user
\* (SendSymKey::run keeps the key before it sends it).
THEOREM SendersNotBehind == Spec => []SenderNotBehind
<1>1. ExchangeInv => SenderNotBehind
  BY SenderAhead DEF ExchangeInv
<1> QED
  BY <1>1, KeyExchangeInvariant, PTL

\* Whatever fails, no text is displayed twice or, if its sender was told that it was
\* sent, after a later one.
THEOREM TextsShownInOrder == Spec => []ShownInOrder
<1>1. ExchangeInv => ShownInOrder
  BY DEF ExchangeInv
<1> QED
  BY <1>1, KeyExchangeInvariant, PTL

LEMMA KeyInLine ==
    ASSUME TypeOK, NEW p \in User, NEW j \in DOMAIN Line(p), Line(p)[j].type = 2
    PROVE  Line(p)[j].key \in KeysTo(p)
<1>1. PICK m : m = Line(p)[j]
  OBVIOUS
<1>2. PICK n \in Nat, k \in Nat : n = Len(Unread(p)) /\ k = Len(mailbox[p])
  BY LineIsSeq
<1>3. j \in 1..(n + k)
  BY <1>2, LineIsSeq
<1>4. CASE j \in 1..n
  <2>1. m = Unread(p)[j] /\ j \in DOMAIN Unread(p)
    BY <1>1, <1>2, <1>4, LineIsSeq
  <2>2. reply[p].code = 2104 /\ Unread(p) = reply[p].messages
    BY <1>4, <2>1, LineIsSeq DEF Unread
  <2>3. m \in Range(reply[p].messages)
    BY <2>1, <2>2 DEF Range
  <2> QED
    BY <1>1, <2>2, <2>3 DEF KeysTo
<1>5. CASE j \notin 1..n
  <2>1. PICK i \in 1..k : j = n + i
    <3>1. j - n \in 1..k /\ j = n + (j - n)
      BY <1>2, <1>3, <1>5
    <3> QED
      BY <3>1
  <2>2. m = mailbox[p][i] /\ i \in DOMAIN mailbox[p]
    BY <1>1, <1>2, <2>1, LineIsSeq
  <2>3. m \in Range(mailbox[p])
    BY <2>2 DEF Range
  <2> QED
    BY <1>1, <2>3 DEF KeysTo
<1> QED
  BY <1>4, <1>5

\* What p holds of c, if nothing that carries a key of c is on its way.
LEMMA KeyHasArrived ==
    ASSUME TypeOK, Conversation, MessagesSound, KeysArrive,
           NEW c \in User, NEW p \in User, c # p, SendsNoKey(p),
           \A k \in KeysTo(p) : keys[k].from # c,
           NEW k \in DOMAIN keys, keys[k] = [from |-> c, to |-> p]
    PROVE  \/ k <= SymmetricKey(p, c)
           \/ SymmetricKey(p, c) = NoKey /\ k \notin owed
<1>1. keys[k].from = c /\ keys[k].to = p
  OBVIOUS
<1>2. KeyArrives(c, p, k)
  BY DEF KeysArrive
<1>3. ASSUME NEW j \in DOMAIN Line(p), Line(p)[j].type = 2, Line(p)[j].key = k
      PROVE  FALSE
  <2>1. k \in KeysTo(p)
    BY <1>3, KeyInLine
  <2> QED
    BY <1>1, <2>1
<1>4. ASSUME NEW m, m = request[c].message, Request603(c), m.type = 2, m.key = k
      PROVE  FALSE
  <2>1. Sound(m)
    BY <1>4 DEF MessagesSound, Request603
  <2>2. m.to = p
    BY <1>1, <1>4, <2>1, OwnKeyOf, OwnKeyFields
  <2>3. k \in KeysTo(p)
    BY <1>4, <2>2 DEF KeysTo, Request603
  <2> QED
    BY <1>1, <2>3
<1> QED
  BY <1>2, <1>3, <1>4 DEF KeyArrives

LEMMA OneWayAgreement ==
    ASSUME ExchangeInv, faults = 0
    PROVE  KeysAgreeOneWay
<1>1. /\ TypeOK /\ Conversation /\ MessagesSound /\ KeysHeld /\ OwnNewest /\ KeysArrive
  BY DEF ExchangeInv, Flow
<1>2. ASSUME NEW c \in User, NEW p \in User, c # p, SendsNoKey(p),
             \A k \in KeysTo(p) : keys[k].from # c,
             NEW k \in DOMAIN keys, k \in owed, keys[k] = [from |-> c, to |-> p]
      PROVE  k <= SymmetricKey(p, c)
  BY <1>1, <1>2, KeyHasArrived
<1>3. ASSUME NEW c \in User, NEW p \in User, c # p, SendsNoKey(p),
             \A k \in KeysTo(p) : keys[k].from # c,
             NEW own, own = SymmetricKey(c, p), own # NoKey,
             NEW told, told = SymmetricKey(p, c), told # NoKey
      PROVE  own = told
  <2>1. own \in DOMAIN keys /\ keys[own] = [from |-> c, to |-> p]
    <3>1. keys[own] \in {[from |-> c, to |-> p], [from |-> p, to |-> c]} /\ own \in DOMAIN keys
      BY <1>1, <1>3 DEF KeysHeld, KeyOfPair
    <3> QED
      BY <1>3, <3>1 DEF SendsNoKey
  <2>2. told \in DOMAIN keys /\ keys[told] = [from |-> c, to |-> p]
    <3>1. keys[told] \in {[from |-> c, to |-> p], [from |-> p, to |-> c]} /\ told \in DOMAIN keys
      BY <1>1, <1>3 DEF KeysHeld, KeyOfPair
    <3> QED
      BY <1>3, <3>1 DEF SendsNoKey
  <2>3. own \in Nat /\ told \in Nat
    BY <1>1, <2>1, <2>2 DEF TypeOK
  <2>4. told <= own
    BY <1>1, <1>3, <2>1, <2>2 DEF OwnNewest
  <2>5. own <= told
    BY <1>1, <1>3, <2>1, KeyHasArrived
  <2> QED
    BY <2>3, <2>4, <2>5
<1> QED
  BY <1>2, <1>3 DEF KeysAgreeOneWay

\* As long as nothing fails, a user who sends no key holds, once it has read the
\* keys that were sent to it, every key that was generated for it while it had the
\* generator on its list, or a later one, unless its list was replaced since; and
\* the key it holds is the one its generator uses, if that still has it.
THEOREM OneWayKeysAgree == Spec => [](faults = 0 => KeysAgreeOneWay)
<1>1. ExchangeInv => (faults = 0 => KeysAgreeOneWay)
  BY OneWayAgreement
<1> QED
  BY <1>1, KeyExchangeInvariant, PTL

LEMMA KeyAdvances ==
    ASSUME ExchangeInv, [Next]_vars, faults = 0, NEW c \in User, NEW p \in User,
           NEW k, k = SymmetricKey(c, p), k # NoKey, keys[k].from = p,
           NEW l, l = SymmetricKey(c, p)', l # NoKey, keys'[l].from = p
    PROVE  k <= l
<1>1. TypeOK /\ Conversation /\ MessagesSound /\ KeysHeld /\ KeysInOrder /\ TypeOK'
  BY ExchangeInvNext DEF ExchangeInv, Flow
<1>2. k \in DOMAIN keys /\ DOMAIN keys = 1..Len(keys) /\ Len(keys) \in Nat
  BY <1>1, HistoryGrows DEF KeysHeld
<1>3. CASE l = k
  BY <1>2, <1>3
<1>4. CASE KeyMade(c, p) /\ l = Len(keys) + 1
  BY <1>2, <1>4
<1>5. CASE ReadSymKey(c) /\ p = Line(c)[1].from /\ l = Line(c)[1].key
  <2>1. PICK b : b = Line(c)[1]
    OBVIOUS
  <2>2. 1 \in DOMAIN Line(c) /\ b.type = 2 /\ OwnKey(b) /\ b.key \in DOMAIN keys
    BY <1>1, <1>5, <2>1, KeyReadOwn
  <2>3. KeyBefore(k, p, b)
    BY <1>1, <2>1, <2>2 DEF KeysInOrder
  <2> QED
    BY <1>5, <2>1, <2>2, <2>3 DEF KeyBefore
<1> QED
  BY <1>1, <1>3, <1>4, <1>5, KeySteps DEF KeyStep

\* As long as nothing fails, a client never goes back to an older key of a user.
THEOREM FaultlessKeysAdvance == Spec /\ [](faults = 0) => KeysAdvance
<1> DEFINE Step ==
             \A c, p \in User :
               LET k == SymmetricKey(c, p)
                   l == SymmetricKey(c, p)'
               IN  k # NoKey /\ l # NoKey /\ keys[k].from = p /\ keys'[l].from = p => k <= l
<1>1. ExchangeInv /\ faults = 0 /\ [Next]_vars => [Step]_vars
  BY KeyAdvances
<1> HIDE DEF Step
<1>2. Spec /\ [](faults = 0) => [][Step]_vars
  BY <1>1, KeyExchangeInvariant, PTL DEF Spec
<1> QED
  BY <1>2 DEF Step, KeysAdvance

===============================================================================
