-------------------------- MODULE WireFormat_proofs --------------------------
(***************************************************************************)
(* Proofs about WireFormat: the client's count of unread bytes and the     *)
(* list of users are right for texts, names and replies of every size.     *)
(***************************************************************************)
EXTENDS WireFormat, SequenceTheorems, WellFoundedInduction, TLAPS

-------------------------------------------------------------------------------
(* Numbers *)

\* A non-empty set of natural numbers has a least element.
LEMMA LeastNumber ==
  ASSUME NEW T \in SUBSET Nat, T # {}
  PROVE  \E n \in T : \A m \in T : n <= m
<1> DEFINE Less == {ss \in Nat \X Nat : ss[1] < ss[2]}
<1>1. IsWellFoundedOn(Less, Nat)
  <2>1. OpToRel(<, Nat) = Less
    BY DEF OpToRel
  <2> HIDE DEF Less
  <2>2. QED
    BY <2>1, NatLessThanWellFounded
<1>2. PICK x \in T : \A y \in T : ~(<<y, x>> \in Less)
  <2> HIDE DEF Less
  <2>1. QED
    BY <1>1, WFMin
<1>3. ASSUME NEW y \in T PROVE x <= y
  <2>1. <<y, x>> \in Nat \X Nat /\ <<y, x>> \notin Less
    BY <1>2
  <2>2. <<y, x>>[1] = y /\ <<y, x>>[2] = x
    OBVIOUS
  <2>3. ~(y < x)
    BY <2>1, <2>2
  <2>4. QED
    BY <2>3
<1>4. QED
  BY <1>3

\* A set of natural numbers that has 0, and with each number up to n the next
\* one, has all numbers up to n.
LEMMA UpTo ==
  ASSUME NEW n \in Nat, NEW T, 0 \in T,
         \A i \in 1..n : i - 1 \in T => i \in T
  PROVE  0..n \subseteq T
<1>1. SUFFICES ASSUME (0..n) \ T # {} PROVE FALSE
  OBVIOUS
<1>2. PICK i \in (0..n) \ T : \A j \in (0..n) \ T : i <= j
  <2>1. (0..n) \ T \in SUBSET Nat
    OBVIOUS
  <2>2. QED
    BY <1>1, <2>1, LeastNumber
<1>3. i - 1 \in T
  BY <1>2
<1>4. QED
  BY <1>2, <1>3

\* A number below the modulus does not wrap around.
LEMMA ModSmall ==
  ASSUME NEW m \in Nat \ {0}, NEW x \in 0..m - 1
  PROVE  x % m = x
OBVIOUS

-------------------------------------------------------------------------------
(* Sums *)

\* f[i] is the sum of the last i numbers of s, for i up to n.
Rest(f, s, n) ==
    \A i \in 0..n : f[i] = IF i = 0 THEN 0 ELSE s[Len(s) - i + 1] + f[i - 1]

\* There is such a function.
LEMMA RestExists ==
  ASSUME NEW s \in Seq(Nat)
  PROVE  \E f \in [0..Len(s) -> Nat] : Rest(f, s, Len(s))
<1> DEFINE T == {n \in Nat : n <= Len(s) => \E f \in [0..n -> Nat] : Rest(f, s, n)}
<1>1. 0 \in T
  <2>1. [i \in 0..0 |-> 0] \in [0..0 -> Nat]
    OBVIOUS
  <2>2. Rest([i \in 0..0 |-> 0], s, 0)
    BY DEF Rest
  <2>3. QED
    BY <2>1, <2>2
<1>2. ASSUME NEW n \in 1..Len(s), n - 1 \in T PROVE n \in T
  <2>1. PICK f \in [0..n - 1 -> Nat] : Rest(f, s, n - 1)
    BY <1>2
  <2> DEFINE g == [i \in 0..n |-> IF i = n THEN s[Len(s) - n + 1] + f[n - 1] ELSE f[i]]
  <2>2. s[Len(s) - n + 1] \in Nat /\ f[n - 1] \in Nat
    OBVIOUS
  <2>3. g \in [0..n -> Nat]
    BY <2>2
  <2>4. Rest(g, s, n)
    <3>1. \A i \in 0..n - 1 : g[i] = f[i]
      BY <2>3
    <3>2. \A i \in 0..n - 1 : f[i] = IF i = 0 THEN 0 ELSE s[Len(s) - i + 1] + f[i - 1]
      BY <2>1 DEF Rest
    <3>3. \A i \in 0..n - 1 : g[i] = IF i = 0 THEN 0 ELSE s[Len(s) - i + 1] + g[i - 1]
      BY <3>1, <3>2
    <3>4. g[n] = s[Len(s) - n + 1] + g[n - 1]
      BY <3>1
    <3> HIDE DEF g
    <3>5. QED
      BY <3>3, <3>4 DEF Rest
  <2>5. \E e \in [0..n -> Nat] : Rest(e, s, n)
    <3> HIDE DEF g
    <3>1. QED
      BY <2>3, <2>4
  <2>6. n \in Nat
    OBVIOUS
  <2>7. QED
    BY <2>5, <2>6, Zenon
<1>3. Len(s) \in T
  <2> HIDE DEF T
  <2>1. Len(s) \in Nat
    OBVIOUS
  <2>2. 0..Len(s) \subseteq T
    BY <1>1, <1>2, <2>1, UpTo
  <2>3. QED
    BY <2>1, <2>2
<1>4. QED
  BY <1>3

\* Sequences with the same n last numbers have the same sums of them.
LEMMA RestSame ==
  ASSUME NEW s \in Seq(Nat), NEW t \in Seq(Nat), NEW n \in Nat,
         NEW f, NEW g, Rest(f, s, n), Rest(g, t, n),
         \A i \in 1..n : s[Len(s) - i + 1] = t[Len(t) - i + 1]
  PROVE  \A i \in 0..n : f[i] = g[i]
<1> DEFINE T == {i \in 0..n : f[i] = g[i]}
<1>1. 0 \in T
  BY DEF Rest
<1>2. ASSUME NEW i \in 1..n, i - 1 \in T PROVE i \in T
  BY <1>2 DEF Rest
<1>3. 0..n \subseteq T
  <2> HIDE DEF T
  <2>1. QED
    BY <1>1, <1>2, UpTo
<1>4. QED
  BY <1>3

\* Total is the last value of that function.
LEMMA TotalRest ==
  ASSUME NEW s \in Seq(Nat), NEW f \in [0..Len(s) -> Nat], Rest(f, s, Len(s))
  PROVE  Total(s) = f[Len(s)]
<1> DEFINE h == CHOOSE r : r = [i \in 0..Len(s) |->
                                  IF i = 0 THEN 0 ELSE s[Len(s) - i + 1] + r[i - 1]]
<1>1. f = [i \in 0..Len(s) |-> IF i = 0 THEN 0 ELSE s[Len(s) - i + 1] + f[i - 1]]
  BY DEF Rest
<1>2. h = [i \in 0..Len(s) |-> IF i = 0 THEN 0 ELSE s[Len(s) - i + 1] + h[i - 1]]
  <2>1. \E r : r = [i \in 0..Len(s) |->
                      IF i = 0 THEN 0 ELSE s[Len(s) - i + 1] + r[i - 1]]
    BY <1>1
  <2>2. QED
    BY <2>1
<1>3. Total(s) = h[Len(s)]
  BY DEF Total
<1> HIDE DEF h
<1>4. Rest(h, s, Len(s))
  BY <1>2 DEF Rest
<1>5. \A i \in 0..Len(s) : h[i] = f[i]
  BY <1>4, RestSame, Len(s) \in Nat
<1>6. QED
  BY <1>3, <1>5

\* The sum of no numbers.
LEMMA TotalOfNone == Total(<<>>) = 0
<1>1. <<>> \in Seq(Nat) /\ Len(<<>>) = 0
  OBVIOUS
<1>2. PICK f \in [0..0 -> Nat] : Rest(f, <<>>, 0)
  BY <1>1, RestExists
<1>3. f[0] = 0
  BY <1>2 DEF Rest
<1>4. QED
  BY <1>1, <1>2, <1>3, TotalRest

\* A sum of numbers is a number.
LEMMA TotalType ==
  ASSUME NEW s \in Seq(Nat)
  PROVE  Total(s) \in Nat
<1>1. PICK f \in [0..Len(s) -> Nat] : Rest(f, s, Len(s))
  BY RestExists
<1>2. QED
  BY <1>1, TotalRest, Len(s) \in Nat

\* The sum of some numbers is the first one and the sum of the others.
LEMMA TotalOfSome ==
  ASSUME NEW s \in Seq(Nat), s # <<>>
  PROVE  Total(s) = s[1] + Total(Tail(s))
<1>1. /\ Tail(s) \in Seq(Nat)
      /\ Len(s) \in Nat \ {0}
      /\ Len(Tail(s)) = Len(s) - 1
      /\ \A i \in 1..Len(s) - 1 : Tail(s)[i] = s[i + 1]
  OBVIOUS
<1>2. PICK f \in [0..Len(s) -> Nat] : Rest(f, s, Len(s))
  BY RestExists
<1>3. PICK g \in [0..Len(Tail(s)) -> Nat] : Rest(g, Tail(s), Len(Tail(s)))
  BY <1>1, RestExists
<1> PICK n \in Nat : n = Len(s) - 1
  <2>1. Len(s) - 1 \in Nat
    BY <1>1
  <2>2. QED
    BY <2>1
<1>4. Rest(f, s, n) /\ Rest(g, Tail(s), n)
  <2>1. 0..n \subseteq 0..Len(s) /\ Len(Tail(s)) = n
    BY <1>1
  <2>2. Rest(f, s, n)
    BY <1>2, <2>1 DEF Rest
  <2>3. QED
    BY <1>3, <2>1, <2>2
<1>5. \A i \in 1..n : s[Len(s) - i + 1] = Tail(s)[Len(Tail(s)) - i + 1]
  BY <1>1
<1>6. f[n] = g[n]
  <2>1. \A i \in 0..n : f[i] = g[i]
    BY <1>1, <1>4, <1>5, RestSame
  <2>2. QED
    BY <2>1
<1>7. Total(s) = f[Len(s)] /\ Total(Tail(s)) = g[n]
  BY <1>1, <1>2, <1>3, TotalRest
<1>8. f[Len(s)] = s[1] + f[n]
  BY <1>1, <1>2 DEF Rest
<1>9. QED
  BY <1>6, <1>7, <1>8

\* The sum of equal numbers.
LEMMA TotalOfEqual ==
  ASSUME NEW s \in Seq(Nat), \A i \in DOMAIN s : s[i] = ListEntrySize
  PROVE  Total(s) = ListEntrySize * Len(s)
<1>1. PICK f \in [0..Len(s) -> Nat] : Rest(f, s, Len(s))
  BY RestExists
<1> DEFINE T == {i \in 0..Len(s) : f[i] = ListEntrySize * i}
<1>2. 0 \in T
  BY <1>1 DEF Rest, ListEntrySize
<1>3. ASSUME NEW i \in 1..Len(s), i - 1 \in T PROVE i \in T
  <2>1. f[i] = s[Len(s) - i + 1] + f[i - 1]
    BY <1>1 DEF Rest
  <2>2. s[Len(s) - i + 1] = ListEntrySize
    OBVIOUS
  <2>3. QED
    BY <1>3, <2>1, <2>2 DEF ListEntrySize
<1>4. Len(s) \in T
  <2> HIDE DEF T
  <2>1. Len(s) \in Nat
    OBVIOUS
  <2>2. 0..Len(s) \subseteq T
    BY <1>2, <1>3, <2>1, UpTo
  <2>3. QED
    BY <2>1, <2>2
<1>5. QED
  BY <1>1, <1>4, TotalRest

-------------------------------------------------------------------------------
(* Sizes *)

\* The fields of a message.
LEMMA MessageFields ==
  ASSUME NEW m \in Message
  PROVE  m.type \in 1..3 /\ m.announced \in Nat /\ m.kept \in Nat
BY DEF Message

\* The sizes of messages on the wire.
LEMMA SizesType ==
  ASSUME NEW ms \in Seq(Message)
  PROVE  /\ [i \in DOMAIN ms |-> HeaderSize + ms[i].kept] \in Seq(Nat)
         /\ Len([i \in DOMAIN ms |-> HeaderSize + ms[i].kept]) = Len(ms)
<1>1. ASSUME NEW i \in 1..Len(ms) PROVE HeaderSize + ms[i].kept \in Nat
  <2>1. ms[i] \in Message
    OBVIOUS
  <2>2. ms[i].kept \in Nat
    BY <2>1, MessageFields
  <2>3. QED
    BY <2>2 DEF HeaderSize
<1>2. QED
  BY <1>1

\* A reply has a number of bytes.
LEMMA BytesType ==
  ASSUME NEW ms \in Seq(Message)
  PROVE  Bytes(ms) \in Nat
BY SizesType, TotalType DEF Bytes

\* The loop of the client takes the first message off the count.
LEMMA BytesOfSome ==
  ASSUME NEW ms \in Seq(Message), ms # <<>>
  PROVE  Bytes(ms) = HeaderSize + Head(ms).kept + Bytes(Tail(ms))
<1> DEFINE sizes == [i \in DOMAIN ms |-> HeaderSize + ms[i].kept]
<1>1. sizes \in Seq(Nat) /\ Len(sizes) = Len(ms)
  BY SizesType
<1>2. Len(ms) \in Nat \ {0} /\ Tail(ms) \in Seq(Message)
  OBVIOUS
<1>3. sizes # <<>> /\ sizes[1] = HeaderSize + Head(ms).kept
  BY <1>1, <1>2
<1>4. Tail(sizes) = [i \in DOMAIN Tail(ms) |-> HeaderSize + Tail(ms)[i].kept]
  BY <1>1, <1>2
<1>5. Total(sizes) = sizes[1] + Total(Tail(sizes))
  <2> HIDE DEF sizes
  <2>1. QED
    BY <1>1, <1>3, TotalOfSome
<1>6. Bytes(ms) = Total(sizes) /\ Bytes(Tail(ms)) = Total(Tail(sizes))
  BY <1>4 DEF Bytes
<1>7. QED
  BY <1>3, <1>5, <1>6

\* No bytes mean no messages: each has a header.
LEMMA BytesOfNone ==
  ASSUME NEW ms \in Seq(Message)
  PROVE  Bytes(ms) = 0 <=> ms = <<>>
<1>1. CASE ms = <<>>
  <2>1. [i \in DOMAIN ms |-> HeaderSize + ms[i].kept] = <<>>
    BY <1>1
  <2>2. QED
    BY <1>1, <2>1, TotalOfNone DEF Bytes
<1>2. CASE ms # <<>>
  <2>1. Tail(ms) \in Seq(Message) /\ Head(ms) \in Message
    BY <1>2
  <2>2. Bytes(Tail(ms)) \in Nat /\ Head(ms).kept \in Nat
    BY <2>1, BytesType, MessageFields
  <2>3. QED
    BY <1>2, <2>1, <2>2, BytesOfSome DEF HeaderSize
<1>3. QED
  BY <1>1, <1>2

\* The list of users is 271 bytes for each.
LEMMA ListBytesOfFit ==
  ASSUME names \in Seq(Nat), NamesFit
  PROVE  ListBytes = ListEntrySize * Len(names)
<1> DEFINE sizes == [i \in DOMAIN names |-> Listed(names[i])]
<1>1. \A i \in 1..Len(names) : Listed(names[i]) = ListEntrySize
  BY DEF NamesFit, Listed, ListEntrySize
<1>2. ListEntrySize \in Nat
  BY DEF ListEntrySize
<1>3. /\ sizes \in Seq(Nat)
      /\ Len(sizes) = Len(names)
      /\ \A i \in DOMAIN sizes : sizes[i] = ListEntrySize
  <2>1. DOMAIN names = 1..Len(names) /\ Len(names) \in Nat
    OBVIOUS
  <2>2. sizes = [i \in 1..Len(names) |-> ListEntrySize]
    BY <2>1, <1>1
  <2> HIDE DEF sizes
  <2>3. QED
    BY <1>2, <2>1, <2>2
<1>4. Total(sizes) = ListEntrySize * Len(sizes)
  <2> HIDE DEF sizes
  <2>1. QED
    BY <1>3, TotalOfEqual
<1>5. QED
  BY <1>3, <1>4 DEF ListBytes

-------------------------------------------------------------------------------
(* The inductive invariant *)

\* Nothing waits and nobody is registered.
LEMMA WireInvInit ==
  ASSUME WireAssumption, Init
  PROVE  WireInv
<1>1. TypeOK
  BY DEF Init, TypeOK, WireAssumption
<1>2. CounterInStep
  BY BytesOfNone, <<>> \in Seq(Message) DEF Init, CounterInStep
<1>3. NamesWhole
  BY DEF Init, NamesWhole, IsPrefix
<1>4. RequestsEmpty /\ NamesFit
  BY DEF Init, RequestsEmpty, NamesFit
<1>5. QED
  BY <1>1, <1>2, <1>3, <1>4 DEF WireInv

\* A stored message has the bytes that one recv returned, and nothing comes of
\* nothing.
LEMMA SendMessageStep ==
  ASSUME WireAssumption, WireInv,
         NEW c \in Contents, NEW k \in Received(c.announced), SendMessage(c, k)
  PROVE  WireInv'
<1> DEFINE m == [type |-> c.type, announced |-> c.announced, kept |-> k]
<1>1. c.type \in 1..3 /\ c.announced \in Nat /\ (c.type = 1 => c.announced = 0)
  <2>1. \A n \in TextLengths : CipherSize(n) \in Nat
    BY DEF CipherSize, WireAssumption
  <2>2. QED
    BY <2>1 DEF Contents, EncryptedKeySize
<1>2. k \in Nat /\ (c.announced = 0 => k = 0)
  BY <1>1 DEF Received
<1>3. m \in Message /\ (m.type = 1 => m.kept = 0)
  BY <1>1, <1>2 DEF Message
<1> HIDE DEF m
<1>4. mailbox' = Append(mailbox, m)
  BY DEF SendMessage, m
<1>5. TypeOK'
  BY <1>3, <1>4 DEF WireInv, TypeOK, SendMessage
<1>6. CounterInStep'
  BY DEF WireInv, CounterInStep, SendMessage
<1>7. RequestsEmpty'
  <2>1. mailbox \in Seq(Message)
    BY DEF WireInv, TypeOK
  <2>2. \A i \in DOMAIN mailbox' :
          mailbox'[i] = m \/ (i \in DOMAIN mailbox /\ mailbox'[i] = mailbox[i])
    BY <1>4, <2>1
  <2>3. \A i \in DOMAIN mailbox : mailbox[i].type = 1 => mailbox[i].kept = 0
    BY DEF WireInv, RequestsEmpty
  <2>4. \A i \in DOMAIN mailbox' : mailbox'[i].type = 1 => mailbox'[i].kept = 0
    BY <1>3, <2>2, <2>3
  <2>5. \A i \in DOMAIN reply' : reply'[i].type = 1 => reply'[i].kept = 0
    BY DEF WireInv, RequestsEmpty, SendMessage
  <2>6. QED
    BY <2>4, <2>5 DEF RequestsEmpty
<1>8. NamesWhole' /\ NamesFit'
  BY DEF WireInv, NamesWhole, NamesFit, SendMessage
<1>9. QED
  BY <1>5, <1>6, <1>7, <1>8 DEF WireInv

\* The client starts with the number of bytes of the reply, which is no less
\* than its modulus only if struct.pack refuses it.
LEMMA CollectStep ==
  ASSUME WireAssumption, WireInv, Collect
  PROVE  WireInv'
<1>1. mailbox \in Seq(Message) /\ Modulus \in Nat \ {0}
  BY DEF WireInv, TypeOK, WireAssumption
<1>2. Bytes(mailbox) \in 0..Modulus - 1
  BY <1>1, BytesType DEF Collect, ReplyTooLarge
<1>3. TypeOK'
  BY <1>1, <1>2 DEF WireInv, TypeOK, Collect
<1>4. CounterInStep'
  BY <1>1, BytesOfNone DEF WireInv, CounterInStep, Collect
<1>5. RequestsEmpty'
  BY DEF WireInv, RequestsEmpty, Collect
<1>6. NamesWhole' /\ NamesFit'
  BY DEF WireInv, NamesWhole, NamesFit, Collect
<1>7. QED
  BY <1>3, <1>4, <1>5, <1>6 DEF WireInv

\* What the client reads of a message is what the server wrote, so the count
\* goes down by its bytes and never below 0.
LEMMA ReadMessageStep ==
  ASSUME WireAssumption, WireInv, ReadMessage
  PROVE  WireInv'
<1> DEFINE m == Head(reply)
<1>1. /\ reply \in Seq(Message) /\ reply # <<>> /\ reply' = Tail(reply)
      /\ Modulus \in Nat \ {0}
      /\ payloadSize = Bytes(reply) /\ payloadSize \in 0..Modulus - 1
  BY DEF WireInv, TypeOK, CounterInStep, WireAssumption, ReadMessage
<1>2. /\ m \in Message /\ Tail(reply) \in Seq(Message)
      /\ 1 \in DOMAIN reply /\ m = reply[1]
      /\ \A i \in DOMAIN Tail(reply) :
           i + 1 \in DOMAIN reply /\ Tail(reply)[i] = reply[i + 1]
  BY <1>1
<1>3. m.type = 1 => m.kept = 0
  BY <1>2 DEF WireInv, RequestsEmpty
<1>4. Consumed(m) = HeaderSize + m.kept
  BY <1>2, <1>3 DEF Consumed, ContentSize, HeaderSize, Message
<1>5. Bytes(Tail(reply)) \in Nat
  BY <1>2, BytesType
<1>6. Bytes(reply) = HeaderSize + m.kept + Bytes(Tail(reply))
  BY <1>1, BytesOfSome
<1>7. payloadSize - Consumed(m) = Bytes(Tail(reply)) /\ Bytes(Tail(reply)) \in 0..Modulus - 1
  <2>1. m.kept \in Nat
    BY <1>2, MessageFields
  <2> HIDE DEF m
  <2>2. QED
    BY <1>1, <1>4, <1>5, <1>6, <2>1 DEF HeaderSize
<1>8. payloadSize' = Bytes(Tail(reply))
  BY <1>1, <1>7, ModSmall DEF ReadMessage
<1>9. phase' = IF payloadSize' = 0 THEN "idle" ELSE "reading"
  BY <1>4 DEF ReadMessage
<1>10. TypeOK'
  BY <1>1, <1>2, <1>7, <1>8, <1>9 DEF WireInv, TypeOK, ReadMessage
<1>11. CounterInStep'
  BY <1>1, <1>2, <1>8, <1>9, BytesOfNone DEF CounterInStep
<1>12. RequestsEmpty'
  BY <1>1, <1>2 DEF WireInv, RequestsEmpty, ReadMessage
<1>13. NamesWhole' /\ NamesFit'
  BY DEF WireInv, NamesWhole, NamesFit, ReadMessage
<1>14. QED
  BY <1>10, <1>11, <1>12, <1>13 DEF WireInv

\* A reply that is given up leaves nothing to read.
LEMMA DecryptThrowsStep ==
  ASSUME WireAssumption, WireInv, DecryptThrows
  PROVE  WireInv'
<1>1. reply' = <<>> /\ <<>> \in Seq(Message) /\ payloadSize' = 0 /\ phase' = "idle"
  BY DEF DecryptThrows
<1>2. TypeOK'
  BY <1>1 DEF WireInv, TypeOK, DecryptThrows, WireAssumption
<1>3. CounterInStep'
  BY <1>1, BytesOfNone DEF CounterInStep
<1>4. RequestsEmpty'
  BY DEF WireInv, RequestsEmpty, DecryptThrows
<1>5. NamesWhole' /\ NamesFit'
  BY DEF WireInv, NamesWhole, NamesFit, DecryptThrows
<1>6. QED
  BY <1>2, <1>3, <1>4, <1>5 DEF WireInv

\* A name is added at the end, and only one that fits its field.
LEMMA RegisterStep ==
  ASSUME WireAssumption, WireInv, NEW n \in NameLengths, Register(n)
  PROVE  WireInv'
<1>1. /\ n \in Nat /\ n < 255 /\ names' = Append(names, n)
      /\ names \in Seq(Nat) /\ heard \in Seq(Nat)
  BY DEF WireAssumption, Register, Accepted, WireInv, TypeOK
<1>2. TypeOK'
  BY <1>1 DEF WireInv, TypeOK, Register
<1>3. CounterInStep'
  BY DEF WireInv, CounterInStep, Register
<1>4. NamesWhole'
  <2>1. Len(heard) <= Len(names) /\ \A i \in 1..Len(heard) : heard[i] = names[i]
    BY <1>1 DEF WireInv, NamesWhole, IsPrefix
  <2>2. Len(heard) <= Len(names') /\ \A i \in 1..Len(heard) : heard[i] = names'[i]
    BY <1>1, <2>1
  <2>3. names' \in Seq(Nat) /\ heard' = heard
    BY <1>1 DEF Register
  <2>4. QED
    BY <1>1, <2>2, <2>3 DEF NamesWhole, IsPrefix
<1>5. NamesFit'
  BY <1>1 DEF WireInv, NamesFit
<1>6. RequestsEmpty'
  BY DEF WireInv, RequestsEmpty, Register
<1>7. QED
  BY <1>2, <1>3, <1>4, <1>5, <1>6 DEF WireInv

\* The client cuts the reply at the places where the server put it together.
LEMMA ListClientsStep ==
  ASSUME WireAssumption, WireInv, ListClients
  PROVE  WireInv'
<1>1. names \in Seq(Nat) /\ Len(names) \in Nat /\ heard \in Seq(Nat)
  BY DEF WireInv, TypeOK
<1>2. ListBytes = ListEntrySize * Len(names)
  BY <1>1, ListBytesOfFit DEF WireInv
<1>3. ListBytes \div ListEntrySize = Len(names)
  BY <1>1, <1>2 DEF ListEntrySize
<1>4. \A i \in DOMAIN names : Listed(names[i]) = ListEntrySize
  BY <1>1 DEF WireInv, NamesFit, Listed, ListEntrySize
<1>5. heard' = heard \/ heard' = names
  BY <1>1, <1>3, <1>4 DEF ListClients
<1>6. TypeOK'
  BY <1>1, <1>5 DEF WireInv, TypeOK, ListClients
<1>7. NamesWhole'
  <2>1. names' = names
    BY DEF ListClients
  <2>2. IsPrefix(heard, names) /\ IsPrefix(names, names)
    BY <1>1 DEF WireInv, NamesWhole, IsPrefix
  <2>3. QED
    BY <1>5, <2>1, <2>2 DEF NamesWhole
<1>8. CounterInStep'
  BY DEF WireInv, CounterInStep, ListClients
<1>9. RequestsEmpty' /\ NamesFit'
  BY DEF WireInv, RequestsEmpty, NamesFit, ListClients
<1>10. QED
  BY <1>6, <1>7, <1>8, <1>9 DEF WireInv

\* Every step keeps the invariant.
LEMMA WireInvNext ==
  ASSUME WireAssumption, WireInv, [Next]_vars
  PROVE  WireInv'
<1>1. CASE \E c \in Contents : \E k \in Received(c.announced) : SendMessage(c, k)
  BY <1>1, SendMessageStep
<1>2. CASE Collect
  BY <1>2, CollectStep
<1>3. CASE ReadMessage
  BY <1>3, ReadMessageStep
<1>4. CASE DecryptThrows
  BY <1>4, DecryptThrowsStep
<1>5. CASE \E n \in NameLengths : Register(n)
  BY <1>5, RegisterStep
<1>6. CASE ListClients
  BY <1>6, ListClientsStep
<1>7. CASE UNCHANGED vars
  BY <1>7 DEF WireInv, TypeOK, CounterInStep, NamesWhole, RequestsEmpty, NamesFit, vars
<1>8. QED
  BY <1>1, <1>2, <1>3, <1>4, <1>5, <1>6, <1>7 DEF Next

-------------------------------------------------------------------------------
(* The theorems *)

\* The inductive invariant holds for texts and names of any length, mailboxes and
\* user lists of any size and every modulus.
THEOREM WireInvariant == Spec => []WireInv
<1>1. Init => WireInv
  BY WireInvInit, WireAssumption
<1>2. WireInv /\ [Next]_vars => WireInv'
  BY WireInvNext, WireAssumption
<1>3. QED
  BY <1>1, <1>2, PTL DEF Spec

\* Type correctness; with it the client's count never leaves the unsigned range.
THEOREM WireType == Spec => []TypeOK
<1>1. WireInv => TypeOK
  BY DEF WireInv
<1>2. QED
  BY <1>1, WireInvariant, PTL

\* At the head of the loop of handleWaitingMessagesResponse the count is the
\* number of bytes that are unread, so the loop neither stops early nor wraps.
THEOREM CountersInStep == Spec => []CounterInStep
<1>1. WireInv => CounterInStep
  BY DEF WireInv
<1>2. QED
  BY <1>1, WireInvariant, PTL

\* handleListResponse takes every user under its whole name and in its place.
THEOREM NamesAreWhole == Spec => []NamesWhole
<1>1. WireInv => NamesWhole
  BY DEF WireInv
<1>2. QED
  BY <1>1, WireInvariant, PTL

===============================================================================
