------------------------- MODULE MessageUServer_proofs -------------------------
(***************************************************************************)
(* Proofs about MessageUServer, for any number of threads, connections,    *)
(* users and contents.                                                     *)
(***************************************************************************)
EXTENDS MessageUServer, FiniteSetTheorems, TLAPS

(* Facts about the values. *)

\* A request is of the kind its code says.
LEMMA RequestKinds ==
    ASSUME NEW r \in Request \cup {NoRequest}
    PROVE  /\ r.code = 600 => r \in RegisterRequest
           /\ r.code = 601 => r \in ListRequest
           /\ r.code = 602 => r \in KeyRequest
           /\ r.code = 603 => r \in SendRequest
           /\ r.code = 604 => r \in PendingRequest
           /\ r.code # 0 => r \in Request
BY DEF Request, NoRequest, RegisterRequest, ListRequest, KeyRequest,
       SendRequest, PendingRequest

\* The requests a client can send are requests.
LEMMA ClientRequestType ==
    ASSUME TypeOK
    PROVE  ClientRequest \subseteq Request \cup {NoRequest}
BY DEF ClientRequest, TypeOK, Request, NoRequest, RegisterRequest, ListRequest,
       KeyRequest, SendRequest, PendingRequest, AnyId, UserIds, User,
       StoredContent

\* The list of messages is finite, so its length is a number.
LEMMA ListLength ==
    ASSUME TypeOK
    PROVE  Cardinality(messages) \in Nat
<1>1. Len(log) \in Nat
  BY DEF TypeOK
<1>2. IsFiniteSet(1..Len(log))
  BY <1>1, FS_Interval
<1>3. IsFiniteSet(messages)
  BY <1>2, FS_Subset DEF TypeOK
<1> QED
  BY <1>3, FS_CardinalityType

\* The object a request is stored as is a message.
LEMMA MessageForType ==
    ASSUME NEW r \in SendRequest, r.dest_client_id \in ClientId,
           r.content # OddContent, Cardinality(messages) \in Nat
    PROVE  MessageFor(r) \in Message
BY DEF MessageFor, Message, SendRequest, StoredContent

\* A thread that ends has the values of a slot that is free.
LEMMA EndThreadType ==
    ASSUME TypeOK, NEW t \in Thread, EndThread(t)
    PROVE  /\ pc' \in [Thread -> Location]
           /\ req' \in [Thread -> Request \cup {NoRequest}]
           /\ peer' \in [Thread -> {"quiet", "sent", "stalled", "gone"}]
           /\ scan' \in [Thread -> [pending: SUBSET (1..Len(log)),
                                    remaining: SUBSET (1..Len(log))]]
           /\ response' \in [Thread -> Reply]
BY DEF TypeOK, EndThread, Location, NoScan, Reply

-------------------------------------------------------------------------------
(* Type correctness. *)

LEMMA TypeInit == Init => TypeOK
BY ServerAssumption DEF Init, TypeOK, Location, NoScan, Reply

LEMMA TypeNext ==
    ASSUME TypeOK, Checked, [Next]_vars
    PROVE  TypeOK'
<1> USE DEF TypeOK, Location, Critical, Goto, Answer, shared
<1>1. CASE UNCHANGED vars
  BY <1>1 DEF vars
<1>2. ASSUME NEW t \in Thread, Accept(t)
      PROVE  TypeOK'
  BY <1>2, ServerAssumption DEF Accept
<1>3. ASSUME NEW t \in Thread, NEW r \in ClientRequest, Arrive(t, r)
      PROVE  TypeOK'
  BY <1>3, ClientRequestType DEF Arrive
<1>4. ASSUME NEW t \in Thread, Disconnect(t) \/ Stall(t)
      PROVE  TypeOK'
  <2>1. CASE Disconnect(t)
    BY <2>1 DEF Disconnect
  <2>2. CASE Stall(t)
    BY <2>2 DEF Stall
  <2> QED
    BY <1>4, <2>1, <2>2
<1>5. ASSUME NEW t \in Thread, ReceiveRequest(t)
      PROVE  TypeOK'
  BY <1>5 DEF ReceiveRequest
<1>6. ASSUME NEW t \in Thread, ReceiveNothing(t)
      PROVE  TypeOK'
  <2>1. UNCHANGED <<clients, log, messages, handed, issued, lock, accepted>>
    BY <1>6 DEF ReceiveNothing
  <2>2. EndThread(t)
    BY <1>6 DEF ReceiveNothing
  <2> QED
    BY <2>1, <2>2, EndThreadType
<1>7. ASSUME NEW t \in Thread, ReceiveInvalid(t)
      PROVE  TypeOK'
  BY <1>7 DEF ReceiveInvalid, Reply
<1>8. ASSUME NEW t \in Thread, ReceiveCutContent(t)
      PROVE  TypeOK'
  <2>1. req[t] \in SendRequest
    BY <1>8, RequestKinds DEF ReceiveCutContent
  <2>2. [req[t] EXCEPT !.content = Cut] \in SendRequest
    BY <2>1 DEF SendRequest, StoredContent
  <2>3. req' \in [Thread -> Request \cup {NoRequest}]
    BY <1>8, <2>2 DEF ReceiveCutContent, Request
  <2> QED
    BY <1>8, <2>3 DEF ReceiveCutContent
<1>9. ASSUME NEW t \in Thread, SendError(t)
      PROVE  TypeOK'
  <2>1. UNCHANGED <<clients, log, messages, handed, issued, lock, accepted>>
    BY <1>9 DEF SendError
  <2>2. EndThread(t)
    BY <1>9 DEF SendError
  <2> QED
    BY <2>1, <2>2, EndThreadType
<1>10. ASSUME NEW t \in Thread, Acquire(t)
       PROVE  TypeOK'
  BY <1>10 DEF Acquire
<1>11. ASSUME NEW t \in Thread, Unlock(t)
       PROVE  TypeOK'
  <2>1. UNCHANGED <<clients, log, messages, handed, issued, accepted>> /\ lock' = NoThread
    BY <1>11 DEF Unlock
  <2>2. EndThread(t)
    BY <1>11 DEF Unlock
  <2> QED
    BY <2>1, <2>2, EndThreadType
<1>12. ASSUME NEW t \in Thread, CheckUsername(t)
       PROVE  TypeOK'
  <2>1. pc' \in [Thread -> Location]
    BY <1>12 DEF CheckUsername
  <2>2. ErrorReply \in Reply
    BY DEF Reply
  <2>3. response' \in [Thread -> Reply]
    BY <1>12, <2>2 DEF CheckUsername
  <2>4. UNCHANGED <<shared, lock, req, peer, scan, accepted>>
    BY <1>12 DEF CheckUsername
  <2> QED
    BY <2>1, <2>3, <2>4
<1>13. ASSUME NEW t \in Thread, AddUser(t)
       PROVE  TypeOK'
  <2>1. req[t] \in RegisterRequest
    BY <1>13, RequestKinds DEF AddUser, Checked
  <2>2. PICK id \in ClientId \ UserIds :
          /\ clients' = clients \cup
               {[user_id |-> id, username |-> req[t].username,
                 public_key |-> req[t].public_key]}
          /\ Answer(t, [code |-> 2100, client_id |-> id])
    BY <1>13 DEF AddUser
  <2>3. [user_id |-> id, username |-> req[t].username,
         public_key |-> req[t].public_key] \in User
    BY <2>1, <2>2 DEF RegisterRequest, User
  <2>4. clients' \subseteq User
    BY <2>2, <2>3
  <2>5. [code |-> 2100, client_id |-> id] \in Reply
    BY <2>2 DEF Reply, IdReply
  <2> QED
    BY <1>13, <2>2, <2>4, <2>5 DEF AddUser
<1>14. ASSUME NEW t \in Thread, ListClients(t)
       PROVE  TypeOK'
  <2> DEFINE others == {u \in clients : u.user_id # req[t].client_id}
             listed == {<<u.user_id, u.username>> : u \in others}
  <2>1. listed \subseteq ClientId \X Username
    BY DEF User
  <2>2. [code |-> 2101, users |-> listed] \in Reply
    BY <2>1 DEF Reply, ListReply
  <2>3. /\ response' = [response EXCEPT ![t] = [code |-> 2101, users |-> listed]]
        /\ pc' = [pc EXCEPT ![t] = "send"]
        /\ UNCHANGED <<shared, lock, req, peer, scan, accepted>>
    BY <1>14 DEF ListClients
  <2> HIDE DEF listed
  <2> QED
    BY <2>2, <2>3
<1>15. ASSUME NEW t \in Thread, LookupKey(t)
       PROVE  TypeOK'
  <2>1. ASSUME NEW u \in clients
        PROVE  [code |-> 2102, client_id |-> u.user_id,
                public_key |-> u.public_key] \in Reply
    BY <2>1 DEF Reply, KeyReply, User
  <2>2. ErrorReply \in Reply
    BY DEF Reply
  <2>3. PICK r \in Reply : response' = [response EXCEPT ![t] = r]
    BY <1>15, <2>1, <2>2 DEF LookupKey
  <2> QED
    BY <1>15, <2>3 DEF LookupKey
<1>16. ASSUME NEW t \in Thread, CheckDestination(t)
       PROVE  TypeOK'
  <2>1. pc' \in [Thread -> Location]
    BY <1>16 DEF CheckDestination
  <2>2. ErrorReply \in Reply
    BY DEF Reply
  <2>3. response' \in [Thread -> Reply]
    BY <1>16, <2>2 DEF CheckDestination
  <2>4. UNCHANGED <<shared, lock, req, peer, scan, accepted>>
    BY <1>16 DEF CheckDestination
  <2> QED
    BY <2>1, <2>3, <2>4
<1>17. ASSUME NEW t \in Thread, RefuseType(t)
       PROVE  TypeOK'
  BY <1>17 DEF RefuseType, Reply
<1>18. ASSUME NEW t \in Thread, AppendMessage(t)
       PROVE  TypeOK'
  <2>1. req[t] \in SendRequest
    BY <1>18, RequestKinds DEF AppendMessage, Checked
  <2>2. req[t].dest_client_id \in ClientId
    BY <1>18 DEF AppendMessage, Checked, UserIds, User
  <2>3. MessageFor(req[t]) \in Message
    <3>1. Cardinality(messages) \in Nat
      BY ListLength
    <3>2. req[t].content # OddContent
      BY <1>18 DEF AppendMessage
    <3> QED
      BY <2>1, <2>2, <3>1, <3>2, MessageForType
  <2>4. /\ log' \in Seq(Message)
        /\ Len(log') = Len(log) + 1
        /\ Len(log) \in Nat
    BY <1>18, <2>3 DEF AppendMessage
  <2>5. 1..Len(log) \subseteq 1..Len(log')
    BY <2>4
  <2>6. messages' \subseteq 1..Len(log')
    <3>1. Len(log) + 1 \in 1..Len(log')
      BY <2>4
    <3> QED
      BY <1>18, <2>5, <3>1 DEF AppendMessage
  <2>7. handed' \subseteq 1..Len(log')
    BY <1>18, <2>5 DEF AppendMessage
  <2>8. scan' \in [Thread -> [pending: SUBSET (1..Len(log')),
                              remaining: SUBSET (1..Len(log'))]]
    BY <1>18, <2>5 DEF AppendMessage
  <2>9. [code |-> 2103, client_id |-> req[t].dest_client_id,
         message_id |-> MessageFor(req[t]).id] \in Reply
    BY <2>2, <2>3 DEF Reply, SentReply, Message
  <2> QED
    BY <1>18, <2>4, <2>6, <2>7, <2>8, <2>9 DEF AppendMessage
<1>19. ASSUME NEW t \in Thread, ScanMessages(t)
       PROVE  TypeOK'
  <2> DEFINE p == {n \in messages : log[n].to_client = req[t].client_id}
  <2>1. p \in SUBSET (1..Len(log)) /\ messages \ p \in SUBSET (1..Len(log))
    OBVIOUS
  <2>2. [code |-> 2104, messages |-> p] \in Reply
    BY <2>1 DEF Reply, PendingReply
  <2>3. /\ scan' = [scan EXCEPT ![t] = [pending |-> p, remaining |-> messages \ p]]
        /\ response' = [response EXCEPT ![t] = [code |-> 2104, messages |-> p]]
        /\ pc' = [pc EXCEPT ![t] = "send"]
        /\ UNCHANGED <<clients, log, messages, handed, issued, lock, req, peer, accepted>>
    BY <1>19 DEF ScanMessages
  <2> HIDE DEF p
  <2> QED
    BY <2>1, <2>2, <2>3
<1>20. ASSUME NEW t \in Thread, Assign(t)
       PROVE  TypeOK'
  BY <1>20 DEF Assign
<1>21. ASSUME NEW t \in Thread, SendReply(t)
       PROVE  TypeOK'
  <2>1. handed' \subseteq 1..Len(log)
    BY <1>21 DEF SendReply
  <2>2. response[t].code = 2100 => response[t].client_id \in ClientId
    BY DEF Reply, IdReply, ListReply, KeyReply, SentReply, PendingReply,
           NoReply, ErrorReply
  <2>3. issued' \subseteq ClientId
    BY <1>21, <2>2 DEF SendReply
  <2>4. pc' \in [Thread -> Location]
    BY <1>21 DEF SendReply
  <2> QED
    BY <1>21, <2>1, <2>3, <2>4 DEF SendReply
<1>22. ASSUME NEW t \in Thread, SendRaises(t)
       PROVE  TypeOK'
  BY <1>22 DEF SendRaises, Reply
<1>23. CASE Quiet
  BY <1>23 DEF Quiet, vars
<1> QED
  BY <1>1, <1>2, <1>3, <1>4, <1>5, <1>6, <1>7, <1>8, <1>9, <1>10, <1>11, <1>12,
     <1>13, <1>14, <1>15, <1>16, <1>17, <1>18, <1>19, <1>20, <1>21, <1>22, <1>23
  DEF Next, Handler

-------------------------------------------------------------------------------
(* The lock and what it protects. *)

\* Only the holder of the lock is inside a "with" block, after any step.
LEMMA LockNext ==
    ASSUME TypeOK, LockHeld, [Next]_vars
    PROVE  LockHeld'
<1> USE DEF TypeOK, LockHeld, Location, Critical, Goto, Answer, shared
<1>1. CASE UNCHANGED vars
  BY <1>1 DEF vars
<1>2. ASSUME NEW t \in Thread, Accept(t)
      PROVE  LockHeld'
  BY <1>2 DEF Accept
<1>3. ASSUME NEW t \in Thread, NEW r \in ClientRequest, Arrive(t, r)
      PROVE  LockHeld'
  BY <1>3 DEF Arrive
<1>4. ASSUME NEW t \in Thread, Disconnect(t) \/ Stall(t)
      PROVE  LockHeld'
  <2>1. CASE Disconnect(t)
    BY <2>1 DEF Disconnect
  <2>2. CASE Stall(t)
    BY <2>2 DEF Stall
  <2> QED
    BY <1>4, <2>1, <2>2
<1>5. ASSUME NEW t \in Thread, ReceiveRequest(t)
      PROVE  LockHeld'
  BY <1>5 DEF ReceiveRequest
<1>6. ASSUME NEW t \in Thread, ReceiveNothing(t)
      PROVE  LockHeld'
  BY <1>6 DEF ReceiveNothing, EndThread
<1>7. ASSUME NEW t \in Thread, ReceiveInvalid(t)
      PROVE  LockHeld'
  BY <1>7 DEF ReceiveInvalid
<1>8. ASSUME NEW t \in Thread, ReceiveCutContent(t)
      PROVE  LockHeld'
  BY <1>8 DEF ReceiveCutContent
<1>9. ASSUME NEW t \in Thread, SendError(t)
      PROVE  LockHeld'
  BY <1>9 DEF SendError, EndThread
<1>10. ASSUME NEW t \in Thread, Acquire(t)
      PROVE  LockHeld'
  BY <1>10, ServerAssumption DEF Acquire
<1>11. ASSUME NEW t \in Thread, Unlock(t)
      PROVE  LockHeld'
  BY <1>11, ServerAssumption DEF Unlock, EndThread
<1>12. ASSUME NEW t \in Thread, CheckUsername(t)
      PROVE  LockHeld'
  BY <1>12 DEF CheckUsername
<1>13. ASSUME NEW t \in Thread, AddUser(t)
      PROVE  LockHeld'
  BY <1>13 DEF AddUser
<1>14. ASSUME NEW t \in Thread, ListClients(t)
      PROVE  LockHeld'
  BY <1>14 DEF ListClients
<1>15. ASSUME NEW t \in Thread, LookupKey(t)
      PROVE  LockHeld'
  BY <1>15 DEF LookupKey
<1>16. ASSUME NEW t \in Thread, CheckDestination(t)
      PROVE  LockHeld'
  BY <1>16 DEF CheckDestination
<1>17. ASSUME NEW t \in Thread, RefuseType(t)
      PROVE  LockHeld'
  BY <1>17, ServerAssumption DEF RefuseType
<1>18. ASSUME NEW t \in Thread, AppendMessage(t)
      PROVE  LockHeld'
  BY <1>18 DEF AppendMessage
<1>19. ASSUME NEW t \in Thread, ScanMessages(t)
      PROVE  LockHeld'
  BY <1>19 DEF ScanMessages
<1>20. ASSUME NEW t \in Thread, Assign(t)
      PROVE  LockHeld'
  BY <1>20 DEF Assign
<1>21. ASSUME NEW t \in Thread, SendReply(t)
      PROVE  LockHeld'
  BY <1>21 DEF SendReply
<1>22. ASSUME NEW t \in Thread, SendRaises(t)
      PROVE  LockHeld'
  BY <1>22, ServerAssumption DEF SendRaises
<1>23. CASE Quiet
  BY <1>23 DEF Quiet, vars
<1> QED
  BY <1>1, <1>2, <1>3, <1>4, <1>5, <1>6, <1>7, <1>8, <1>9, <1>10, <1>11, <1>12,
     <1>13, <1>14, <1>15, <1>16, <1>17, <1>18, <1>19, <1>20, <1>21, <1>22, <1>23
  DEF Next, Handler

\* What a handler found out about the registry stays true while it holds the lock.
LEMMA CheckedNext ==
    ASSUME TypeOK, LockHeld, Checked, [Next]_vars
    PROVE  Checked'
<1> USE DEF TypeOK, LockHeld, Checked, Location, Critical, Goto, Answer, shared, UserIds
<1>1. CASE UNCHANGED vars
  BY <1>1 DEF vars
<1>2. ASSUME NEW t \in Thread, Accept(t)
      PROVE  Checked'
  BY <1>2 DEF Accept
<1>3. ASSUME NEW t \in Thread, NEW r \in ClientRequest, Arrive(t, r)
      PROVE  Checked'
  BY <1>3 DEF Arrive
<1>4. ASSUME NEW t \in Thread, Disconnect(t) \/ Stall(t)
      PROVE  Checked'
  <2>1. CASE Disconnect(t)
    BY <2>1 DEF Disconnect
  <2>2. CASE Stall(t)
    BY <2>2 DEF Stall
  <2> QED
    BY <1>4, <2>1, <2>2
<1>5. ASSUME NEW t \in Thread, ReceiveRequest(t)
      PROVE  Checked'
  BY <1>5 DEF ReceiveRequest
<1>6. ASSUME NEW t \in Thread, ReceiveNothing(t)
      PROVE  Checked'
  BY <1>6 DEF ReceiveNothing, EndThread
<1>7. ASSUME NEW t \in Thread, ReceiveInvalid(t)
      PROVE  Checked'
  BY <1>7 DEF ReceiveInvalid
<1>8. ASSUME NEW t \in Thread, ReceiveCutContent(t)
      PROVE  Checked'
  BY <1>8 DEF ReceiveCutContent
<1>9. ASSUME NEW t \in Thread, SendError(t)
      PROVE  Checked'
  BY <1>9 DEF SendError, EndThread
<1>10. ASSUME NEW t \in Thread, Acquire(t)
      PROVE  Checked'
  BY <1>10 DEF Acquire
<1>11. ASSUME NEW t \in Thread, Unlock(t)
      PROVE  Checked'
  BY <1>11 DEF Unlock, EndThread
<1>12. ASSUME NEW t \in Thread, CheckUsername(t)
      PROVE  Checked'
  BY <1>12 DEF CheckUsername
<1>13. ASSUME NEW t \in Thread, AddUser(t)
      PROVE  Checked'
  BY <1>13 DEF AddUser
<1>14. ASSUME NEW t \in Thread, ListClients(t)
      PROVE  Checked'
  BY <1>14 DEF ListClients
<1>15. ASSUME NEW t \in Thread, LookupKey(t)
      PROVE  Checked'
  BY <1>15 DEF LookupKey
<1>16. ASSUME NEW t \in Thread, CheckDestination(t)
      PROVE  Checked'
  BY <1>16 DEF CheckDestination
<1>17. ASSUME NEW t \in Thread, RefuseType(t)
      PROVE  Checked'
  BY <1>17 DEF RefuseType
<1>18. ASSUME NEW t \in Thread, AppendMessage(t)
      PROVE  Checked'
  BY <1>18 DEF AppendMessage
<1>19. ASSUME NEW t \in Thread, ScanMessages(t)
      PROVE  Checked'
  BY <1>19 DEF ScanMessages
<1>20. ASSUME NEW t \in Thread, Assign(t)
      PROVE  Checked'
  BY <1>20 DEF Assign
<1>21. ASSUME NEW t \in Thread, SendReply(t)
      PROVE  Checked'
  BY <1>21 DEF SendReply
<1>22. ASSUME NEW t \in Thread, SendRaises(t)
      PROVE  Checked'
  BY <1>22 DEF SendRaises
<1>23. CASE Quiet
  BY <1>23 DEF Quiet, vars
<1> QED
  BY <1>1, <1>2, <1>3, <1>4, <1>5, <1>6, <1>7, <1>8, <1>9, <1>10, <1>11, <1>12,
     <1>13, <1>14, <1>15, <1>16, <1>17, <1>18, <1>19, <1>20, <1>21, <1>22, <1>23
  DEF Next, Handler

\* Of all steps only four kinds change what the server stores.
LEMMA StoreSteps ==
    ASSUME [Next]_vars
    PROVE  \/ UNCHANGED <<clients, log, messages, handed>>
           \/ \E t \in Thread : AddUser(t) \/ AppendMessage(t) \/ Assign(t) \/ SendReply(t)
<1> DEFINE Same == UNCHANGED <<clients, log, messages, handed>>
<1> USE DEF shared
<1>1. CASE UNCHANGED vars
  BY <1>1 DEF vars
<1>2. ASSUME NEW t \in Thread,
             \/ Accept(t) \/ Disconnect(t) \/ Stall(t)
             \/ \E r \in ClientRequest : Arrive(t, r)
      PROVE  Same
  BY <1>2 DEF Accept, Arrive, Disconnect, Stall
<1>3. ASSUME NEW t \in Thread,
             \/ ReceiveRequest(t) \/ ReceiveNothing(t) \/ ReceiveInvalid(t)
             \/ ReceiveCutContent(t) \/ SendError(t)
      PROVE  Same
  BY <1>3 DEF ReceiveRequest, ReceiveNothing, ReceiveInvalid, ReceiveCutContent,
              SendError
<1>4. ASSUME NEW t \in Thread, Acquire(t) \/ Unlock(t) \/ SendRaises(t)
      PROVE  Same
  BY <1>4 DEF Acquire, Unlock, SendRaises
<1>5. ASSUME NEW t \in Thread,
             \/ CheckUsername(t) \/ ListClients(t) \/ LookupKey(t)
             \/ CheckDestination(t) \/ RefuseType(t) \/ ScanMessages(t)
      PROVE  Same
  BY <1>5 DEF CheckUsername, ListClients, LookupKey, CheckDestination, RefuseType,
              ScanMessages
<1>6. CASE Quiet
  BY <1>6 DEF Quiet, vars
<1> HIDE DEF Same
<1> QED
  BY <1>1, <1>2, <1>3, <1>4, <1>5, <1>6 DEF Next, Handler, Same

\* The insertion of a user keeps names apart.
LEMMA NamesNext ==
    ASSUME TypeOK, Checked, UniqueUsernames, [Next]_vars
    PROVE  UniqueUsernames'
<1>1. ASSUME UNCHANGED clients
      PROVE  UniqueUsernames'
  BY <1>1 DEF UniqueUsernames
<1>2. ASSUME NEW t \in Thread, AddUser(t)
      PROVE  UniqueUsernames'
  <2>1. \A u \in clients : u.username # req[t].username
    BY <1>2 DEF AddUser, Goto, Checked
  <2>2. PICK id \in ClientId \ UserIds :
          clients' = clients \cup {[user_id |-> id, username |-> req[t].username,
                                    public_key |-> req[t].public_key]}
    BY <1>2 DEF AddUser
  <2> QED
    BY <2>1, <2>2 DEF UniqueUsernames
<1>3. ASSUME NEW t \in Thread, AppendMessage(t) \/ Assign(t) \/ SendReply(t)
      PROVE  UniqueUsernames'
  BY <1>1, <1>3 DEF AppendMessage, Assign, SendReply
<1> QED
  BY <1>1, <1>2, <1>3, StoreSteps

-------------------------------------------------------------------------------
(* The list of messages. *)

\* Appending a message leaves every other position of the log as it was.
LEMMA LogGrows ==
    ASSUME TypeOK, NEW t \in Thread, AppendMessage(t)
    PROVE  /\ \A n \in 1..Len(log) : n \in 1..Len(log') /\ log'[n] = log[n]
           /\ Len(log) + 1 \in 1..Len(log')
           /\ Len(log) + 1 \notin 1..Len(log)
           /\ 1..Len(log') = 1..Len(log) \cup {Len(log) + 1}
<1>1. log \in Seq(Message) /\ log' = Append(log, MessageFor(req[t]))
  BY DEF TypeOK, AppendMessage
<1> QED
  BY <1>1

\* A message that is appended was not handed before.
LEMMA AppendApart ==
    ASSUME TypeOK, NEW t \in Thread, AppendMessage(t), messages \cap handed = {}
    PROVE  messages' \cap handed' = {}
<1>1. Len(log) + 1 \notin handed
  BY LogGrows DEF TypeOK
<1>2. messages' = messages \cup {Len(log) + 1} /\ handed' = handed
  BY DEF AppendMessage
<1> QED
  BY <1>1, <1>2

\* A step of one thread leaves the variables of the others alone; while another
\* thread is between its scan and its assignment, it leaves the list alone too.
LEMMA OthersKept ==
    ASSUME TypeOK, LockHeld, NEW t \in Thread, Handler(t), NEW u \in Thread, u # t
    PROVE  /\ pc'[u] = pc[u]
           /\ req'[u] = req[u]
           /\ scan'[u] = scan[u]
           /\ response'[u] = response[u]
           /\ pc[u] \in {"send", "assign"} => UNCHANGED <<log, messages, handed>>
<1> USE DEF TypeOK, LockHeld, Critical, Goto, Answer, shared
<1>1. CASE ReceiveRequest(t)
  BY <1>1 DEF ReceiveRequest
<1>2. CASE ReceiveNothing(t)
  BY <1>2 DEF ReceiveNothing, EndThread
<1>3. CASE ReceiveInvalid(t)
  BY <1>3 DEF ReceiveInvalid
<1>4. CASE ReceiveCutContent(t)
  BY <1>4 DEF ReceiveCutContent
<1>5. CASE SendError(t)
  BY <1>5 DEF SendError, EndThread
<1>6. CASE Acquire(t)
  BY <1>6 DEF Acquire
<1>7. CASE Unlock(t)
  BY <1>7 DEF Unlock, EndThread
<1>8. CASE CheckUsername(t)
  BY <1>8 DEF CheckUsername
<1>9. CASE AddUser(t)
  BY <1>9 DEF AddUser
<1>10. CASE ListClients(t)
  BY <1>10 DEF ListClients
<1>11. CASE LookupKey(t)
  BY <1>11 DEF LookupKey
<1>12. CASE CheckDestination(t)
  BY <1>12 DEF CheckDestination
<1>13. CASE RefuseType(t)
  BY <1>13 DEF RefuseType
<1>14. CASE AppendMessage(t)
  BY <1>14 DEF AppendMessage
<1>15. CASE ScanMessages(t)
  BY <1>15 DEF ScanMessages
<1>16. CASE Assign(t)
  BY <1>16 DEF Assign
<1>17. CASE SendReply(t)
  BY <1>17 DEF SendReply
<1>18. CASE SendRaises(t)
  BY <1>18 DEF SendRaises
<1> QED
  BY <1>1, <1>2, <1>3, <1>4, <1>5, <1>6, <1>7, <1>8, <1>9, <1>10, <1>11, <1>12,
     <1>13, <1>14, <1>15, <1>16, <1>17, <1>18
  DEF Handler

\* A scan stays current as long as nothing it mentions changes.
LEMMA ScanKept ==
    ASSUME NEW u \in Thread, ScanOf(u),
           pc'[u] = pc[u], req'[u] = req[u], scan'[u] = scan[u],
           response'[u] = response[u],
           pc[u] \in {"send", "assign"} => UNCHANGED <<log, messages, handed>>
    PROVE  ScanOf(u)'
BY DEF ScanOf

\* After its own step, too, the scan of a thread is current.
LEMMA OwnScan ==
    ASSUME TypeOK, Checked, LockHeld, ScanCurrent, NoneTwice,
           NEW t \in Thread, Handler(t)
    PROVE  ScanOf(t)'
<1>0. ScanOf(t)
  BY DEF ScanCurrent
<1> USE DEF TypeOK, Checked, Location, Critical, Goto, Answer, shared, ScanOf
<1>1. CASE ReceiveRequest(t)
  BY <1>1, <1>0 DEF ReceiveRequest
<1>2. CASE ReceiveNothing(t)
  BY <1>2, <1>0 DEF ReceiveNothing, EndThread
<1>3. CASE ReceiveInvalid(t)
  BY <1>3, <1>0 DEF ReceiveInvalid
<1>4. CASE ReceiveCutContent(t)
  BY <1>4, <1>0 DEF ReceiveCutContent
<1>5. CASE SendError(t)
  BY <1>5, <1>0 DEF SendError, EndThread
<1>6. CASE Acquire(t)
  BY <1>6, <1>0 DEF Acquire
<1>7. CASE Unlock(t)
  BY <1>7, <1>0 DEF Unlock, EndThread
<1>8. CASE CheckUsername(t)
  BY <1>8, <1>0 DEF CheckUsername, NoScan
<1>9. CASE AddUser(t)
  BY <1>9, <1>0 DEF AddUser, NoScan
<1>10. CASE ListClients(t)
  BY <1>10, <1>0 DEF ListClients, NoScan
<1>11. CASE LookupKey(t)
  BY <1>11, <1>0 DEF LookupKey, NoScan
<1>12. CASE CheckDestination(t)
  BY <1>12, <1>0 DEF CheckDestination, NoScan
<1>13. CASE RefuseType(t)
  BY <1>13, <1>0 DEF RefuseType
<1>14. CASE AppendMessage(t)
  BY <1>14, <1>0 DEF AppendMessage, NoScan
<1>15. CASE ScanMessages(t)
  <2> DEFINE p == {n \in messages : log[n].to_client = req[t].client_id}
  <2>1. /\ scan'[t] = [pending |-> p, remaining |-> messages \ p]
        /\ response'[t] = [code |-> 2104, messages |-> p]
        /\ pc'[t] = "send"
        /\ UNCHANGED <<log, messages, handed, req>>
    BY <1>15 DEF ScanMessages
  <2> QED
    BY <1>15, <2>1 DEF ScanMessages
<1>16. CASE Assign(t)
  BY <1>16, <1>0 DEF Assign
<1>17. CASE SendReply(t)
  <2>1. scan[t].pending \subseteq messages
    BY <1>0, <1>17 DEF SendReply
  <2>2. messages \cap handed = {}
    BY <1>17 DEF SendReply, LockHeld, NoneTwice
  <2>3. pc'[t] \in {"assign", "unlock"} /\ scan'[t] = scan[t]
    BY <1>17 DEF SendReply
  <2>4. pc'[t] = "assign" => req[t].code = 604
    BY <1>0, <1>17 DEF SendReply
  <2> QED
    BY <1>0, <1>17, <2>1, <2>2, <2>3, <2>4 DEF SendReply
<1>18. CASE SendRaises(t)
  BY <1>18, <1>0 DEF SendRaises
<1> QED
  BY <1>1, <1>2, <1>3, <1>4, <1>5, <1>6, <1>7, <1>8, <1>9, <1>10, <1>11, <1>12,
     <1>13, <1>14, <1>15, <1>16, <1>17, <1>18
  DEF Handler

\* The scan of every thread is the list until the thread has assigned it.
LEMMA ScanNext ==
    ASSUME TypeOK, Checked, LockHeld, ScanCurrent, NoneTwice, [Next]_vars
    PROVE  ScanCurrent'
<1>1. CASE UNCHANGED vars
  BY <1>1 DEF vars, ScanCurrent, ScanOf
<1>2. ASSUME NEW t \in Thread, Accept(t)
      PROVE  ScanCurrent'
  BY <1>2 DEF Accept, Goto, TypeOK, shared, ScanCurrent, ScanOf
<1>3. ASSUME NEW t \in Thread, NEW r \in ClientRequest, Arrive(t, r)
      PROVE  ScanCurrent'
  BY <1>3 DEF Arrive, TypeOK, shared, ScanCurrent, ScanOf
<1>4. ASSUME NEW t \in Thread, Disconnect(t) \/ Stall(t)
      PROVE  ScanCurrent'
  BY <1>4 DEF Disconnect, Stall, shared, ScanCurrent, ScanOf
<1>5. ASSUME NEW t \in Thread, Handler(t), NEW u \in Thread
      PROVE  ScanOf(u)'
  <2>1. CASE u = t
    BY <1>5, <2>1, OwnScan
  <2>2. CASE u # t
    BY <1>5, <2>2, OthersKept, ScanKept DEF ScanCurrent
  <2> QED
    BY <2>1, <2>2
<1>6. CASE Quiet
  BY <1>6 DEF Quiet, vars, ScanCurrent, ScanOf
<1> QED
  BY <1>1, <1>2, <1>3, <1>4, <1>5, <1>6 DEF Next, ScanCurrent

\* No handed message stays in the list after the assignment.
LEMMA TwiceNext ==
    ASSUME TypeOK, LockHeld, Checked, ScanCurrent, NoneTwice, [Next]_vars
    PROVE  NoneTwice'
<1> USE DEF TypeOK, LockHeld, ScanCurrent, ScanOf, NoneTwice, Location, Critical, Goto, shared
<1>1. CASE UNCHANGED vars
  BY <1>1 DEF vars
<1>2. ASSUME NEW t \in Thread, Accept(t)
      PROVE  NoneTwice'
  BY <1>2 DEF Accept
<1>3. ASSUME NEW t \in Thread, NEW r \in ClientRequest, Arrive(t, r)
      PROVE  NoneTwice'
  BY <1>3 DEF Arrive
<1>4. ASSUME NEW t \in Thread, Disconnect(t) \/ Stall(t)
      PROVE  NoneTwice'
  <2>1. CASE Disconnect(t)
    BY <2>1 DEF Disconnect
  <2>2. CASE Stall(t)
    BY <2>2 DEF Stall
  <2> QED
    BY <1>4, <2>1, <2>2
<1>5. ASSUME NEW t \in Thread, ReceiveRequest(t)
      PROVE  NoneTwice'
  BY <1>5 DEF ReceiveRequest
<1>6. ASSUME NEW t \in Thread, ReceiveNothing(t)
      PROVE  NoneTwice'
  BY <1>6 DEF ReceiveNothing, EndThread
<1>7. ASSUME NEW t \in Thread, ReceiveInvalid(t)
      PROVE  NoneTwice'
  BY <1>7 DEF ReceiveInvalid
<1>8. ASSUME NEW t \in Thread, ReceiveCutContent(t)
      PROVE  NoneTwice'
  BY <1>8 DEF ReceiveCutContent
<1>9. ASSUME NEW t \in Thread, SendError(t)
      PROVE  NoneTwice'
  BY <1>9 DEF SendError, EndThread
<1>10. ASSUME NEW t \in Thread, Acquire(t)
      PROVE  NoneTwice'
  BY <1>10 DEF Acquire
<1>11. ASSUME NEW t \in Thread, Unlock(t)
      PROVE  NoneTwice'
  BY <1>11 DEF Unlock, EndThread
<1>12. ASSUME NEW t \in Thread, CheckUsername(t)
      PROVE  NoneTwice'
  BY <1>12 DEF CheckUsername
<1>13. ASSUME NEW t \in Thread, AddUser(t)
      PROVE  NoneTwice'
  BY <1>13 DEF AddUser
<1>14. ASSUME NEW t \in Thread, ListClients(t)
      PROVE  NoneTwice'
  BY <1>14 DEF ListClients
<1>15. ASSUME NEW t \in Thread, LookupKey(t)
      PROVE  NoneTwice'
  BY <1>15 DEF LookupKey
<1>16. ASSUME NEW t \in Thread, CheckDestination(t)
      PROVE  NoneTwice'
  BY <1>16 DEF CheckDestination
<1>17. ASSUME NEW t \in Thread, RefuseType(t)
      PROVE  NoneTwice'
  BY <1>17 DEF RefuseType
<1>18. ASSUME NEW t \in Thread, AppendMessage(t)
      PROVE  NoneTwice'
  <2>1. messages \cap handed = {}
    BY <1>18 DEF AppendMessage
  <2> QED
    BY <1>18, <2>1, AppendApart
<1>19. ASSUME NEW t \in Thread, ScanMessages(t)
      PROVE  NoneTwice'
  BY <1>19 DEF ScanMessages
<1>20. ASSUME NEW t \in Thread, Assign(t)
      PROVE  NoneTwice'
  BY <1>20 DEF Assign
<1>21. ASSUME NEW t \in Thread, SendReply(t)
      PROVE  NoneTwice'
  <2>1. messages \cap handed = {}
    BY <1>21 DEF SendReply
  <2>2. CASE scan[t].pending = {}
    BY <1>21, <2>1, <2>2 DEF SendReply
  <2>3. CASE scan[t].pending # {}
    <3>1. pc'[t] = "assign"
      BY <1>21, <2>3 DEF SendReply
    <3> QED
      BY <3>1
  <2> QED
    BY <2>2, <2>3
<1>22. ASSUME NEW t \in Thread, SendRaises(t)
      PROVE  NoneTwice'
  BY <1>22 DEF SendRaises
<1>23. CASE Quiet
  BY <1>23 DEF Quiet, vars
<1> QED
  BY <1>1, <1>2, <1>3, <1>4, <1>5, <1>6, <1>7, <1>8, <1>9, <1>10, <1>11, <1>12,
     <1>13, <1>14, <1>15, <1>16, <1>17, <1>18, <1>19, <1>20, <1>21, <1>22, <1>23
  DEF Next, Handler

\* No step drops a message.
LEMMA LostNext ==
    ASSUME TypeOK, ScanCurrent, NothingLost, [Next]_vars
    PROVE  NothingLost'
<1>1. ASSUME UNCHANGED <<log, messages, handed>>
      PROVE  NothingLost'
  BY <1>1 DEF NothingLost
<1>2. ASSUME NEW t \in Thread, AddUser(t)
      PROVE  NothingLost'
  BY <1>1, <1>2 DEF AddUser
<1>3. ASSUME NEW t \in Thread, AppendMessage(t)
      PROVE  NothingLost'
  <2>1. 1..Len(log') = 1..Len(log) \cup {Len(log) + 1}
    BY <1>3, LogGrows
  <2>2. messages' = messages \cup {Len(log) + 1} /\ handed' = handed
    BY <1>3 DEF AppendMessage
  <2> QED
    BY <2>1, <2>2 DEF NothingLost
<1>4. ASSUME NEW t \in Thread, Assign(t)
      PROVE  NothingLost'
  <2>1. /\ scan[t].remaining = messages \ scan[t].pending
        /\ scan[t].pending = messages \cap handed
    <3>1. pc[t] = "assign" /\ ScanOf(t)
      BY <1>4 DEF Assign, Goto, ScanCurrent
    <3> QED
      BY <3>1 DEF ScanOf
  <2>2. messages' = scan[t].remaining /\ UNCHANGED <<log, handed>>
    BY <1>4 DEF Assign
  <2> QED
    BY <2>1, <2>2 DEF NothingLost
<1>5. ASSUME NEW t \in Thread, SendReply(t)
      PROVE  NothingLost'
  <2>1. scan[t].pending \subseteq 1..Len(log)
    BY DEF TypeOK
  <2>2. handed' = handed \cup scan[t].pending /\ UNCHANGED <<log, messages>>
    BY <1>5 DEF SendReply
  <2> QED
    BY <2>1, <2>2 DEF NothingLost
<1> QED
  BY <1>1, <1>2, <1>3, <1>4, <1>5, StoreSteps

\* A mailbox is handed as a whole, so nothing overtakes.
LEMMA OrderNext ==
    ASSUME TypeOK, ScanCurrent, NothingLost, HandedInOrder, [Next]_vars
    PROVE  HandedInOrder'
<1>1. ASSUME UNCHANGED <<log, handed>>
      PROVE  HandedInOrder'
  BY <1>1 DEF HandedInOrder
<1>2. ASSUME NEW t \in Thread, AddUser(t) \/ Assign(t)
      PROVE  HandedInOrder'
  BY <1>1, <1>2 DEF AddUser, Assign
<1>3. ASSUME NEW t \in Thread, AppendMessage(t)
      PROVE  HandedInOrder'
  <2>1. handed' = handed /\ handed \subseteq 1..Len(log) /\ Len(log) \in Nat
    BY <1>3 DEF AppendMessage, TypeOK
  <2> SUFFICES ASSUME NEW m \in 1..Len(log'), NEW n \in 1..Len(log'), m < n,
                      log'[m].to_client = log'[n].to_client, n \in handed
               PROVE  m \in handed
    BY <2>1 DEF HandedInOrder
  <2>2. n \in 1..Len(log) /\ m \in 1..Len(log)
    BY <2>1, <1>3, LogGrows
  <2>3. log'[m] = log[m] /\ log'[n] = log[n]
    BY <1>3, <2>2, LogGrows
  <2> QED
    BY <2>2, <2>3 DEF HandedInOrder
<1>4. ASSUME NEW t \in Thread, SendReply(t)
      PROVE  HandedInOrder'
  <2>1. log' = log /\ handed' = handed \cup scan[t].pending
    BY <1>4 DEF SendReply
  <2> SUFFICES ASSUME NEW m \in 1..Len(log), NEW n \in 1..Len(log), m < n,
                      log[m].to_client = log[n].to_client,
                      n \in handed \cup scan[t].pending
               PROVE  m \in handed \cup scan[t].pending
    BY <2>1 DEF HandedInOrder
  <2>2. CASE n \in handed
    BY <2>2 DEF HandedInOrder
  <2>3. CASE n \in scan[t].pending
    <3>1. scan[t].pending = {i \in messages : log[i].to_client = req[t].client_id}
      <4>1. pc[t] = "send" /\ ScanOf(t)
        BY <1>4 DEF SendReply, Goto, ScanCurrent
      <4> QED
        BY <2>3, <4>1 DEF ScanOf
    <3>2. m \in messages \cup handed
      BY DEF NothingLost
    <3> QED
      BY <2>3, <3>1, <3>2
  <2> QED
    BY <2>2, <2>3
<1> QED
  BY <1>1, <1>2, <1>3, <1>4, StoreSteps

-------------------------------------------------------------------------------
(* The theorems. *)

LEMMA IInvInit == Init => IInv
<1> SUFFICES ASSUME Init PROVE IInv
  OBVIOUS
<1>1. TypeOK
  BY TypeInit
<1>2. LockHeld /\ Checked /\ ScanCurrent /\ NoneTwice
  BY ServerAssumption
  DEF Init, LockHeld, Critical, Checked, ScanCurrent, ScanOf, NoneTwice
<1>3. NothingLost /\ HandedInOrder /\ UniqueUsernames
  BY DEF Init, NothingLost, HandedInOrder, UniqueUsernames
<1> QED
  BY <1>1, <1>2, <1>3 DEF IInv

LEMMA IInvNext == IInv /\ [Next]_vars => IInv'
BY TypeNext, LockNext, CheckedNext, ScanNext, TwiceNext, LostNext, OrderNext,
   NamesNext
DEF IInv

\* The invariant holds in every reachable state.
THEOREM Invariant == Spec => []IInv
<1>1. Init => IInv
  BY IInvInit
<1>2. IInv /\ [Next]_vars => IInv'
  BY IInvNext
<1> QED
  BY <1>1, <1>2, PTL DEF Spec

\* The variables of the server keep their types.
THEOREM TypeCorrect == Spec => []TypeOK
<1>1. IInv => TypeOK
  BY DEF IInv
<1> QED
  BY <1>1, Invariant, PTL

\* handle_registration never gives one username to two users.
THEOREM UsernamesUnique == Spec => []UniqueUsernames
<1>1. IInv => UniqueUsernames
  BY DEF IInv
<1> QED
  BY <1>1, Invariant, PTL

\* No interleaving of the handlers, and no send that raises, loses a message
\* that was stored.
THEOREM MessagesKept == Spec => []NothingLost
<1>1. IInv => NothingLost
  BY DEF IInv
<1> QED
  BY <1>1, Invariant, PTL

\* No two replies carry the same message.
THEOREM MessagesHandedOnce == Spec => []HandedOnce
<1>1. ASSUME IInv, NEW t \in Thread, pc[t] = "send"
      PROVE  scan[t].pending \cap handed = {}
  <2>1. \A u \in Thread : pc[u] # "assign"
    BY <1>1 DEF IInv, LockHeld, Critical
  <2>2. messages \cap handed = {}
    BY <1>1, <2>1 DEF IInv, NoneTwice
  <2>3. scan[t].pending \subseteq messages
    <3>1. ScanOf(t)
      BY <1>1 DEF IInv, ScanCurrent
    <3> QED
      BY <1>1, <3>1 DEF ScanOf
  <2> QED
    BY <2>2, <2>3
<1>2. IInv => HandedOnce
  BY <1>1 DEF HandedOnce
<1> QED
  BY <1>2, Invariant, PTL

\* Messages for one client leave the server in the order they were stored.
THEOREM MessagesHandedInOrder == Spec => []HandedInOrder
<1>1. IInv => HandedInOrder
  BY DEF IInv
<1> QED
  BY <1>1, Invariant, PTL

===============================================================================
