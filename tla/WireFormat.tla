------------------------------ MODULE WireFormat ------------------------------
(***************************************************************************)
(* The sizes on the wire: what SendTextMessage, SendSymKey, SendSymKeyReq  *)
(* and Register write, what the server cuts out of it and packs into the   *)
(* replies 2101 and 2104, and how the client counts those replies down.    *)
(*                                                                         *)
(* A message is its type, the size its sender announced and the number of  *)
(* bytes the server kept: one recv may return only part of the content.    *)
(* A name is its length.  Content and identifiers are left out, so is the  *)
(* order of threads: a reply is read before anything else happens.  Sizes  *)
(* are those of the code, except that Modulus stands for 2^32 and for the  *)
(* modulus of size_t.                                                      *)
(***************************************************************************)
EXTENDS Integers, Sequences, SequencesExt

CONSTANTS
    TextLengths,  \* lengths of the texts users type
    NameLengths,  \* lengths of the names users type
    Modulus,      \* unsigned integers wrap around here
    MaxMessages,  \* bound: messages that wait
    MaxNames      \* bound: users

ASSUME WireAssumption ==
    /\ TextLengths \subseteq Nat \ {0}
    /\ NameLengths \subseteq Nat \ {0}
    /\ Modulus \in Nat \ {0}
    /\ MaxMessages \in Nat
    /\ MaxNames \in Nat

VARIABLES
    mailbox,      \* the messages waiting for the client
    reply,        \* the messages of the 2104 reply that are still unread
    payloadSize,  \* the client's count of unread bytes
    phase,        \* of the client: "idle", "reading" or "astray"
    names,        \* lengths of the registered names
    heard         \* the names the client took from the last 2101 reply

vars == <<mailbox, reply, payloadSize, phase, names, heard>>

-------------------------------------------------------------------------------
HeaderSize == 16 + 4 + 1 + 4    \* in front of each message of a 2104 reply
EncryptedKeySize == 128         \* RSA with a 1024-bit key
ListEntrySize == 16 + 255       \* what the client takes for one user

\* AES-CBC pads to whole blocks of 16 bytes and always adds at least one byte.
CipherSize(n) == 16 * (n \div 16 + 1)

Contents ==
    {[type |-> 1, announced |-> 0], [type |-> 2, announced |-> EncryptedKeySize]}
      \cup {[type |-> 3, announced |-> CipherSize(n)] : n \in TextLengths}

\* How much of a content of n bytes the one recv of the server may return.
Received(n) == {k \in {0, n - 1, n} : k >= 0}

\* Variant: the server passes on the size the sender announced.
ContentSizeAnnounced(m) == m.announced

\* The size the server announces for a stored message.
ContentSize(m) == m.kept

\* The sum of the numbers in s: rest[i] is that of the last i.
Total(s) ==
    LET rest[i \in 0..Len(s)] ==
          IF i = 0 THEN 0 ELSE s[Len(s) - i + 1] + rest[i - 1]
    IN  rest[Len(s)]

Bytes(ms) == Total([i \in DOMAIN ms |-> HeaderSize + ms[i].kept])

Message == [type: 1..3, announced: Nat, kept: Nat]

TypeOK ==
    /\ mailbox \in Seq(Message)
    /\ reply \in Seq(Message)
    /\ payloadSize \in 0..Modulus - 1
    /\ phase \in {"idle", "reading", "astray"}
    /\ names \in Seq(Nat)
    /\ heard \in Seq(Nat)

Init ==
    /\ mailbox = <<>>
    /\ reply = <<>>
    /\ payloadSize = 0
    /\ phase = "idle"
    /\ names = <<>>
    /\ heard = <<>>

-------------------------------------------------------------------------------
(* Messages *)

\* A 603 request is written, received, whole or cut, and stored.
SendMessage(c, k) ==
    /\ phase = "idle"
    /\ Len(mailbox) < MaxMessages
    /\ mailbox' = Append(mailbox, [type |-> c.type, announced |-> c.announced, kept |-> k])
    /\ UNCHANGED <<reply, payloadSize, phase, names, heard>>

\* struct.pack refuses a size of 2^32: the client gets an error and the
\* messages stay.
ReplyTooLarge == Bytes(mailbox) >= Modulus

\* Variant: nobody checks that the size fits its four bytes.
CollectUnchecked ==
    /\ phase = "idle"
    /\ reply' = mailbox
    /\ mailbox' = <<>>
    /\ payloadSize' = Bytes(mailbox)
    /\ phase' = IF payloadSize' = 0 THEN "idle" ELSE "reading"
    /\ UNCHANGED <<names, heard>>

\* The 2104 reply: its announced size is the length of the payload.
Collect ==
    /\ phase = "idle"
    /\ ~ReplyTooLarge
    /\ reply' = mailbox
    /\ mailbox' = <<>>
    /\ payloadSize' = Bytes(mailbox)
    /\ phase' = IF payloadSize' = 0 THEN "idle" ELSE "reading"
    /\ UNCHANGED <<names, heard>>

\* What the loop of handleWaitingMessagesResponse subtracts for a message: a key
\* request is never followed by a content, an empty content is not read.
Consumed(m) == HeaderSize + (IF m.type = 1 THEN 0 ELSE ContentSize(m))

\* One turn of the loop.  When the client reads more or less than the server
\* wrote, it takes the following bytes for something they are not.
ReadMessage ==
    LET m == Head(reply)
    IN  /\ phase = "reading"
        /\ reply # <<>>
        /\ reply' = Tail(reply)
        /\ payloadSize' = (payloadSize - Consumed(m)) % Modulus
        /\ phase' = IF Consumed(m) # HeaderSize + m.kept THEN "astray"
                    ELSE IF payloadSize' = 0 THEN "idle" ELSE "reading"
        /\ UNCHANGED <<mailbox, names, heard>>

\* decrypt throws on a text that was cut, or that was encrypted with another key than
\* the client has: the rest of the reply is not read.
DecryptThrows ==
    LET m == Head(reply)
    IN  /\ phase = "reading"
        /\ reply # <<>>
        /\ m.type = 3 /\ 0 < m.kept
        /\ reply' = <<>>
        /\ payloadSize' = 0
        /\ phase' = "idle"
        /\ UNCHANGED <<mailbox, names, heard>>

-------------------------------------------------------------------------------
(* Names *)

\* 255 - username.length(), the NUL included, in size_t.
Padding(n) == (255 - (n + 1)) % Modulus

\* vector::insert throws length_error beyond max_size.
CanPad(n) == Padding(n) < Modulus \div 2

\* The server wants a payload of 415 bytes and a NUL in its first 255.
Accepted(n) == n + 1 + Padding(n) + 160 = 415 /\ n < 255

Register(n) ==
    /\ Len(names) < MaxNames
    /\ CanPad(n)
    /\ Accepted(n)
    /\ names' = Append(names, n)
    /\ UNCHANGED <<mailbox, reply, payloadSize, phase, heard>>

\* Variant: the name is padded to 255 bytes before its NUL is added.
ListedPadded(n) == 16 + 255 + 1

\* encode + NUL, then ljust(255), which cuts nothing.
Listed(n) == 16 + (IF n + 1 < 255 THEN 255 ELSE n + 1)

ListBytes == Total([i \in DOMAIN names |-> Listed(names[i])])

\* The 2101 reply: the client takes payloadSize / 271 users, one every 271 bytes.
ListClients ==
    /\ phase = "idle"
    /\ ListBytes < Modulus
    /\ heard' = IF ListBytes = 0 THEN heard
                ELSE [i \in 1..(ListBytes \div ListEntrySize) |->
                        IF i \in DOMAIN names /\ Listed(names[i]) = ListEntrySize
                        THEN names[i] ELSE 0]
    /\ UNCHANGED <<mailbox, reply, payloadSize, phase, names>>

Next ==
    \/ \E c \in Contents : \E k \in Received(c.announced) : SendMessage(c, k)
    \/ Collect \/ ReadMessage \/ DecryptThrows
    \/ \E n \in NameLengths : Register(n)
    \/ ListClients

Spec == Init /\ [][Next]_vars

-------------------------------------------------------------------------------
(* Properties *)

\* At the head of the loop (RequestWaitingMessages.cpp:61) the unsigned count is
\* the number of bytes of the reply that are unread, whatever was cut before it
\* was stored (server.py:66, 228): it never wraps around and the loop ends exactly
\* at the end of the reply.
CounterInStep ==
    /\ phase # "astray"
    /\ payloadSize = Bytes(reply)
    /\ phase = "idle" <=> reply = <<>>

\* The users a client lists are the registered ones in their order, each under
\* its whole name: names of up to 254 characters fill their field and longer ones
\* never reach the server (Register.cpp:47-48, server.py:160-161).
NamesWhole == IsPrefix(heard, names)

-------------------------------------------------------------------------------
(* The inductive invariant *)

\* Nothing of a key request is kept: it has no content, so the client may leave
\* out reading one.
RequestsEmpty ==
    \A ms \in {mailbox, reply} :
      \A i \in DOMAIN ms : ms[i].type = 1 => ms[i].kept = 0

\* A name and its NUL fit in 255 bytes, so ljust makes all of them equally long.
NamesFit == \A i \in DOMAIN names : names[i] < 255

\* The unread bytes, the users listed, and the two facts about what the server
\* stores that they depend on.
WireInv ==
    /\ TypeOK
    /\ CounterInStep
    /\ NamesWhole
    /\ RequestsEmpty
    /\ NamesFit

===============================================================================
