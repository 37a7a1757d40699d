----------------------- MODULE MessageUServer_refinement -----------------------
(***************************************************************************)
(* The threads of MessageUServer implement MessageService, for any number  *)
(* of threads, connections, users and contents: the theorem behind         *)
(* ServiceSpec.                                                            *)
(***************************************************************************)
EXTENDS MessageUServer_proofs

(* What the service sees of one connection. *)

ServiceRequest(t) == IF ServicePhase(t) = "idle" THEN NoRequest ELSE req[t]
ServiceReply(t) == IF ServicePhase(t) = "served" THEN response[t] ELSE NoReply

View(t) == <<ServicePhase(t), ServiceRequest(t), ServiceReply(t)>>

\* Where a thread is decides its phase, except that a send may be before or after
\* the request took effect.
LEMMA PhaseOfPlace ==
    ASSUME NEW t \in Thread
    PROVE  /\ pc[t] \in {"free", "recv", "error"} => ServicePhase(t) = "idle"
           /\ pc[t] \in {"lock", "body", "insert", "append"} => ServicePhase(t) = "called"
           /\ pc[t] = "send" /\ req[t].code = 604 => ServicePhase(t) = "called"
           /\ pc[t] = "send" /\ req[t].code # 604 => ServicePhase(t) = "served"
           /\ pc[t] \in {"assign", "unlock"} => ServicePhase(t) = "served"
BY DEF ServicePhase

LEMMA NextPhaseOfPlace ==
    ASSUME NEW t \in Thread
    PROVE  /\ pc'[t] \in {"free", "recv", "error"} => ServicePhase(t)' = "idle"
           /\ pc'[t] \in {"lock", "body", "insert", "append"} => ServicePhase(t)' = "called"
           /\ pc'[t] = "send" /\ req'[t].code = 604 => ServicePhase(t)' = "called"
           /\ pc'[t] = "send" /\ req'[t].code # 604 => ServicePhase(t)' = "served"
           /\ pc'[t] \in {"assign", "unlock"} => ServicePhase(t)' = "served"
BY DEF ServicePhase

\* The service sees a connection as before if its thread is where it was, with the
\* same request and reply.
LEMMA ViewKept ==
    ASSUME NEW t \in Thread, pc'[t] = pc[t], req'[t] = req[t], response'[t] = response[t]
    PROVE  View(t)' = View(t)
BY DEF View, ServicePhase, ServiceRequest, ServiceReply

\* A step of one thread is invisible on the other connections.
LEMMA OthersView ==
    ASSUME TypeOK, LockHeld, NEW t \in Thread, Handler(t), NEW u \in Thread, u # t
    PROVE  View(u)' = View(u)
BY OthersKept, ViewKept

\* So the service sees at most connection t change.
LEMMA OneChanges ==
    ASSUME NEW t \in Thread, \A u \in Thread : u # t => View(u)' = View(u)
    PROVE  /\ [u \in Thread |-> ServicePhase(u)]'
                = [[u \in Thread |-> ServicePhase(u)] EXCEPT ![t] = ServicePhase(t)']
           /\ [u \in Thread |-> ServiceRequest(u)]'
                = [[u \in Thread |-> ServiceRequest(u)] EXCEPT ![t] = ServiceRequest(t)']
           /\ [u \in Thread |-> ServiceReply(u)]'
                = [[u \in Thread |-> ServiceReply(u)] EXCEPT ![t] = ServiceReply(t)']
BY DEF View

\* A step that changes nothing the service sees is no step of the service.
LEMMA Invisible ==
    ASSUME \A u \in Thread : View(u)' = View(u),
           UNCHANGED <<clients, log>>, messages' \ handed' = messages \ handed
    PROVE  UNCHANGED Service!vars
BY DEF Service!vars, View, ServiceRequest, ServiceReply

LEMMA ServiceInit == Init => Service!Init
BY DEF Init, Service!Init, ServicePhase, NoRequest, NoReply, Service!NoRequest, Service!NoReply

-------------------------------------------------------------------------------
(* The steps that the service does not see. *)

\* No message in the list was handed, unless a thread is about to assign.
LEMMA NothingHanded ==
    ASSUME TypeOK, LockHeld, NoneTwice, NEW t \in Thread,
           pc[t] \in {"body", "insert", "append", "send"}
    PROVE  messages \cap handed = {}
BY DEF LockHeld, NoneTwice, Critical

LEMMA HiddenSteps ==
    ASSUME IInv, NEW t \in Thread,
           \/ ReceiveNothing(t) \/ ReceiveInvalid(t) \/ SendError(t) \/ Acquire(t)
           \/ ScanMessages(t)
    PROVE  UNCHANGED Service!vars
<1> USE DEF IInv, TypeOK, Goto, Answer, EndThread, shared
<1>1. \A u \in Thread : u # t => View(u)' = View(u)
  BY OthersView DEF Handler
<1>2. UNCHANGED <<clients, log, messages, handed>>
  BY DEF ReceiveNothing, ReceiveInvalid, SendError, Acquire, ScanMessages
<1>3. \/ pc[t] \in {"recv", "error"} /\ pc'[t] \in {"free", "error"}
      \/ pc[t] = "lock" /\ pc'[t] = "body" /\ req' = req
      \/ pc[t] = "body" /\ pc'[t] = "send" /\ req' = req /\ req[t].code = 604
  <2>1. CASE ReceiveNothing(t) \/ ReceiveInvalid(t) \/ SendError(t)
    BY <2>1 DEF ReceiveNothing, ReceiveInvalid, SendError
  <2>2. CASE Acquire(t)
    BY <2>2 DEF Acquire
  <2>3. CASE ScanMessages(t)
    BY <2>3 DEF ScanMessages
  <2> QED
    BY <2>1, <2>2, <2>3
<1>4. View(t)' = View(t)
  BY <1>3, PhaseOfPlace, NextPhaseOfPlace DEF View, ServiceRequest, ServiceReply
<1> QED
  BY <1>1, <1>2, <1>4, Invisible

\* The first step of a handler that goes on inside the lock.
LEMMA HiddenChecks ==
    ASSUME IInv, NEW t \in Thread, CheckUsername(t) \/ CheckDestination(t), pc'[t] # "send"
    PROVE  UNCHANGED Service!vars
<1> USE DEF IInv, TypeOK, Goto, Answer, shared
<1>1. \A u \in Thread : u # t => View(u)' = View(u)
  BY OthersView DEF Handler
<1>2. UNCHANGED <<clients, log, messages, handed, req>>
      /\ pc[t] = "body" /\ pc'[t] \in {"insert", "append"}
  BY DEF CheckUsername, CheckDestination
<1>3. View(t)' = View(t)
  BY <1>2, PhaseOfPlace, NextPhaseOfPlace DEF View, ServiceRequest, ServiceReply
<1> QED
  BY <1>1, <1>2, <1>3, Invisible

\* The list loses what the reply carried: to the service those messages had left.
LEMMA HiddenAssign ==
    ASSUME IInv, NEW t \in Thread, Assign(t)
    PROVE  UNCHANGED Service!vars
<1> USE DEF IInv, TypeOK, Goto
<1>1. \A u \in Thread : u # t => View(u)' = View(u)
  BY OthersView DEF Handler
<1>2. /\ UNCHANGED <<clients, log, handed, req, response>>
      /\ pc[t] = "assign" /\ pc'[t] = "unlock" /\ messages' = scan[t].remaining
  BY DEF Assign
<1>3. messages' \ handed' = messages \ handed
  <2>1. /\ scan[t].remaining = messages \ scan[t].pending
        /\ scan[t].pending = messages \cap handed
    BY <1>2 DEF ScanCurrent, ScanOf
  <2> QED
    BY <1>2, <2>1
<1>4. View(t)' = View(t)
  BY <1>2, PhaseOfPlace, NextPhaseOfPlace DEF View, ServiceRequest, ServiceReply
<1> QED
  BY <1>1, <1>2, <1>3, <1>4, Invisible

\* A reply whose request took effect before is sent.
LEMMA HiddenSend ==
    ASSUME IInv, NEW t \in Thread, SendReply(t), req[t].code # 604
    PROVE  UNCHANGED Service!vars
<1> USE DEF IInv, TypeOK, Goto
<1>1. \A u \in Thread : u # t => View(u)' = View(u)
  BY OthersView DEF Handler
<1>2. scan[t].pending = {}
  BY DEF SendReply, ScanCurrent, ScanOf
<1>3. /\ UNCHANGED <<clients, log, messages, handed, req, response>>
      /\ pc[t] = "send" /\ pc'[t] = "unlock"
  BY <1>2 DEF SendReply
<1>4. View(t)' = View(t)
  BY <1>3, PhaseOfPlace, NextPhaseOfPlace DEF View, ServiceRequest, ServiceReply
<1> QED
  BY <1>1, <1>3, <1>4, Invisible

-------------------------------------------------------------------------------
(* The steps at which a connection calls and returns. *)

\* A step of thread t by which the service sees its phase, request and reply change
\* as given, and nothing else of the connections.
LEMMA Seen ==
    ASSUME IInv, NEW t \in Thread, Handler(t)
    PROVE  /\ [u \in Thread |-> ServicePhase(u)]'
                = [[u \in Thread |-> ServicePhase(u)] EXCEPT ![t] = ServicePhase(t)']
           /\ [u \in Thread |-> ServiceRequest(u)]'
                = [[u \in Thread |-> ServiceRequest(u)] EXCEPT ![t] = ServiceRequest(t)']
           /\ [u \in Thread |-> ServiceReply(u)]'
                = [[u \in Thread |-> ServiceReply(u)] EXCEPT ![t] = ServiceReply(t)']
BY OthersView, OneChanges DEF IInv

\* The service and the server speak of the same requests.
LEMMA SameRequests == Service!Request = Request
BY DEF Service!Request, Service!RegisterRequest, Service!ListRequest, Service!KeyRequest,
       Service!SendRequest, Service!PendingRequest, Service!AnyId, Service!StoredContent,
       Request, RegisterRequest, ListRequest, KeyRequest, SendRequest, PendingRequest,
       AnyId, StoredContent

\* A connection calls when its request was read.
LEMMA CallStep ==
    ASSUME IInv, NEW t \in Thread, ReceiveRequest(t) \/ ReceiveCutContent(t)
    PROVE  Service!Call(t)
<1> USE DEF TypeOK, Goto, shared
<1>1. TypeOK
  BY DEF IInv
<1>2. /\ pc[t] = "recv" /\ pc'[t] = "lock"
      /\ UNCHANGED <<clients, log, messages, handed, response>>
  BY <1>1 DEF ReceiveRequest, ReceiveCutContent
<1>3. req'[t] \in Request
  <2>1. CASE ReceiveRequest(t)
    <3>1. req[t].code # 0 /\ req' = req
      BY <2>1 DEF ReceiveRequest
    <3> QED
      BY <1>1, <3>1, RequestKinds
  <2>2. CASE ReceiveCutContent(t)
    <3>1. req[t] \in SendRequest /\ req'[t] = [req[t] EXCEPT !.content = Cut]
      BY <1>1, <2>2, RequestKinds DEF ReceiveCutContent
    <3> QED
      BY <3>1 DEF SendRequest, StoredContent, Request
  <2> QED
    BY <2>1, <2>2
<1>4. /\ ServicePhase(t) = "idle" /\ ServicePhase(t)' = "called"
      /\ ServiceRequest(t)' = req'[t] /\ ServiceReply(t)' = ServiceReply(t)
  BY <1>2, PhaseOfPlace, NextPhaseOfPlace DEF ServiceRequest, ServiceReply
<1>5. Handler(t)
  BY DEF Handler
<1> QED
  BY <1>2, <1>3, <1>4, <1>5, Seen, SameRequests DEF Service!Call, ServiceRequest, ServiceReply

LEMMA ReturnStep ==
    ASSUME IInv, NEW t \in Thread, Unlock(t) \/ RefuseType(t) \/ SendRaises(t)
    PROVE  Service!Return(t)
<1> USE DEF TypeOK, Goto, shared, EndThread, Answer
<1>1. TypeOK
  BY DEF IInv
<1>2. /\ pc[t] \in {"unlock", "append", "send"} /\ pc'[t] \in {"free", "error"}
      /\ UNCHANGED <<clients, log, messages, handed>>
  BY <1>1 DEF Unlock, RefuseType, SendRaises
<1>3. /\ ServicePhase(t) # "idle" /\ ServicePhase(t)' = "idle"
      /\ ServiceRequest(t)' = NoRequest /\ ServiceReply(t)' = NoReply
  BY <1>2, PhaseOfPlace, NextPhaseOfPlace DEF ServiceRequest, ServiceReply
<1>4. Handler(t)
  BY DEF Handler
<1> QED
  BY <1>2, <1>3, <1>4, Seen
  DEF Service!Return, ServiceRequest, ServiceReply, Service!NoRequest, NoRequest,
      Service!NoReply, NoReply

-------------------------------------------------------------------------------
(* The steps at which a request takes effect. *)

\* A step by which thread t gets its answer, seen by the service.
LEMMA ServeStep ==
    ASSUME IInv, NEW t \in Thread, Handler(t), req' = req,
           ServicePhase(t) = "called", ServicePhase(t)' = "served", NEW r, response'[t] = r
    PROVE  Service!Serve(t, r)
<1>1. ServiceRequest(t)' = ServiceRequest(t)
  BY DEF ServiceRequest
<1>2. ServiceReply(t)' = r
  BY DEF ServiceReply
<1> QED
  BY <1>1, <1>2, Seen DEF Service!Serve, ServiceRequest, ServiceReply

\* To the service the request of a connection that called is the one the thread has.
LEMMA RequestSeen ==
    ASSUME NEW t \in Thread, ServicePhase(t) = "called"
    PROVE  [u \in Thread |-> IF ServicePhase(u) = "idle" THEN NoRequest ELSE req[u]][t] = req[t]
OBVIOUS

LEMMA RegisterStep ==
    ASSUME IInv, NEW t \in Thread, AddUser(t)
    PROVE  Service!Register(t)
<1> USE DEF TypeOK, Goto, Answer
<1>1. TypeOK /\ Checked
  BY DEF IInv
<1>2. /\ pc[t] = "insert" /\ pc'[t] = "send" /\ UNCHANGED <<log, messages, handed, req>>
  BY <1>1 DEF AddUser
<1>3. req[t].code = 600 /\ \A u \in clients : u.username # req[t].username
  BY <1>1, <1>2 DEF Checked
<1>4. PICK id \in ClientId \ UserIds :
        /\ clients' = clients \cup {[user_id |-> id, username |-> req[t].username,
                                     public_key |-> req[t].public_key]}
        /\ response'[t] = [code |-> 2100, client_id |-> id]
  BY <1>1 DEF AddUser
<1>5. ServicePhase(t) = "called" /\ ServicePhase(t)' = "served"
  BY <1>2, <1>3, PhaseOfPlace, NextPhaseOfPlace
<1>6. Service!Serve(t, [code |-> 2100, client_id |-> id])
  BY <1>2, <1>4, <1>5, ServeStep DEF Handler
<1>7. Service!UserIds = UserIds
  BY DEF Service!UserIds, UserIds
<1> QED
  BY <1>2, <1>3, <1>4, <1>5, <1>6, <1>7, RequestSeen DEF Service!Register

LEMMA RefusalStep ==
    ASSUME IInv, NEW t \in Thread, CheckUsername(t) \/ CheckDestination(t), pc'[t] = "send"
    PROVE  Service!RefuseRegister(t) \/ Service!RefuseSend(t)
<1> USE DEF TypeOK, Goto, Answer, shared
<1>1. TypeOK
  BY DEF IInv
<1>2. /\ pc[t] = "body" /\ UNCHANGED <<clients, log, messages, handed, req>>
      /\ response'[t] = ErrorReply /\ req[t].code \in {600, 603}
  BY <1>1 DEF CheckUsername, CheckDestination
<1>3. ServicePhase(t) = "called" /\ ServicePhase(t)' = "served"
  BY <1>2, PhaseOfPlace, NextPhaseOfPlace
<1>4. Service!Refuse(t)
  BY <1>2, <1>3, ServeStep DEF Handler, Service!Refuse, Service!ErrorReply, ErrorReply
<1>5. Service!UserIds = UserIds
  BY DEF Service!UserIds, UserIds
<1>6. CASE CheckUsername(t)
  <2>1. req[t].code = 600 /\ \E u \in clients : u.username = req[t].username
    BY <1>1, <1>6 DEF CheckUsername
  <2> QED
    BY <1>3, <1>4, <2>1, RequestSeen DEF Service!RefuseRegister
<1>7. CASE CheckDestination(t)
  <2>1. req[t].code = 603 /\ req[t].dest_client_id \notin UserIds
    BY <1>1, <1>7 DEF CheckDestination
  <2> QED
    BY <1>3, <1>4, <1>5, <2>1, RequestSeen DEF Service!RefuseSend
<1> QED
  BY <1>6, <1>7

LEMMA ListStep ==
    ASSUME IInv, NEW t \in Thread, ListClients(t)
    PROVE  Service!List(t)
<1> USE DEF TypeOK, Goto, Answer, shared
<1> DEFINE request == [u \in Thread |-> IF ServicePhase(u) = "idle" THEN NoRequest ELSE req[u]]
           others(r) == {u \in clients : u.user_id # r.client_id}
           listed(r) == [code |-> 2101, users |-> {<<u.user_id, u.username>> : u \in others(r)}]
<1>1. TypeOK
  BY DEF IInv
<1>2. /\ pc[t] = "body" /\ pc'[t] = "send" /\ UNCHANGED <<clients, log, messages, handed, req>>
      /\ response'[t] = listed(req[t]) /\ req[t].code = 601
  BY <1>1 DEF ListClients
<1>3. ServicePhase(t) = "called" /\ ServicePhase(t)' = "served"
  BY <1>2, PhaseOfPlace, NextPhaseOfPlace
<1>4. request[t] = req[t]
  BY <1>3, RequestSeen
<1> HIDE DEF request, listed
<1>5. response'[t] = listed(request[t]) /\ request[t].code = 601
  BY <1>2, <1>4
<1>6. PICK r : r = listed(request[t])
  OBVIOUS
<1>7. Service!Serve(t, r)
  BY <1>2, <1>3, <1>5, <1>6, ServeStep DEF Handler
<1> USE DEF request, listed
<1> QED
  BY <1>2, <1>5, <1>6, <1>7 DEF Service!List, Service!Serve

LEMMA KeyStep ==
    ASSUME IInv, NEW t \in Thread, LookupKey(t)
    PROVE  Service!Key(t) \/ Service!RefuseKey(t)
<1> USE DEF TypeOK, Goto, Answer, shared
<1>1. TypeOK
  BY DEF IInv
<1>2. /\ pc[t] = "body" /\ pc'[t] = "send" /\ UNCHANGED <<clients, log, messages, handed, req>>
      /\ req[t].code = 602
  BY <1>1 DEF LookupKey
<1>3. ServicePhase(t) = "called" /\ ServicePhase(t)' = "served"
  BY <1>2, PhaseOfPlace, NextPhaseOfPlace
<1>4. CASE req[t].requested_id \notin UserIds /\ response'[t] = ErrorReply
  <2>1. Service!Refuse(t)
    BY <1>2, <1>3, <1>4, ServeStep DEF Handler, Service!Refuse, Service!ErrorReply, ErrorReply
  <2> QED
    BY <1>2, <1>3, <1>4, <2>1, RequestSeen DEF Service!RefuseKey, Service!UserIds, UserIds
<1>5. CASE \E u \in clients :
             /\ u.user_id = req[t].requested_id
             /\ response'[t] = [code |-> 2102, client_id |-> u.user_id,
                                public_key |-> u.public_key]
  <2>1. PICK u \in clients :
          /\ u.user_id = req[t].requested_id
          /\ response'[t] = [code |-> 2102, client_id |-> u.user_id,
                             public_key |-> u.public_key]
    BY <1>5
  <2>2. Service!Serve(t, [code |-> 2102, client_id |-> u.user_id,
                          public_key |-> u.public_key])
    BY <1>2, <1>3, <2>1, ServeStep DEF Handler
  <2> QED
    BY <1>2, <1>3, <2>1, <2>2, RequestSeen DEF Service!Key
<1>6. \/ req[t].requested_id \notin UserIds /\ response'[t] = ErrorReply
      \/ \E u \in clients :
           /\ u.user_id = req[t].requested_id
           /\ response'[t] = [code |-> 2102, client_id |-> u.user_id,
                              public_key |-> u.public_key]
  BY <1>1 DEF LookupKey
<1> QED
  BY <1>4, <1>5, <1>6

\* The service counts as the server does.
LEMMA SameCardinality == \A S : Service!Cardinality(S) = Cardinality(S)
BY DEF Service!Cardinality, Service!IsFiniteSet, Cardinality, IsFiniteSet

\* The identifier is the length of the list, and the list is then the queue of the
\* service, because nobody is between a send and an assignment.
LEMMA SendStep ==
    ASSUME IInv, NEW t \in Thread, AppendMessage(t)
    PROVE  Service!Send(t)
<1> USE DEF TypeOK, Goto, Answer
<1> DEFINE request == [u \in Thread |-> IF ServicePhase(u) = "idle" THEN NoRequest ELSE req[u]]
           queue == messages \ handed
           id == Cardinality(queue) + 1
           sent(r) == [code |-> 2103, client_id |-> r.dest_client_id, message_id |-> id]
           stored(r) == [id |-> id, to_client |-> r.dest_client_id,
                         from_client |-> r.client_id, content |-> r.content]
<1>1. TypeOK /\ Checked /\ LockHeld /\ NoneTwice
  BY DEF IInv
<1>2. pc[t] = "append" /\ pc'[t] = "send" /\ UNCHANGED <<clients, handed, req>>
  BY <1>1 DEF AppendMessage
<1>3. req[t].code = 603 /\ req[t].dest_client_id \in UserIds
  BY <1>1, <1>2 DEF Checked
<1>4. queue = messages
  <2>1. messages \cap handed = {}
    BY <1>1, <1>2, NothingHanded
  <2> QED
    BY <2>1
<1>5. /\ req[t].content # OddContent
      /\ log' = Append(log, stored(req[t]))
      /\ messages' = messages \cup {Len(log) + 1}
      /\ response'[t] = sent(req[t])
  <2> HIDE DEF queue
  <2> QED
    BY <1>1, <1>4 DEF AppendMessage, MessageFor
<1>6. (messages \ handed)' = queue \cup {Len(log) + 1}
  <2>1. Len(log) + 1 \notin handed
    BY <1>1
  <2> QED
    BY <1>2, <1>4, <1>5, <2>1
<1>7. ServicePhase(t) = "called" /\ ServicePhase(t)' = "served"
  BY <1>2, <1>3, PhaseOfPlace, NextPhaseOfPlace
<1>8. request[t] = req[t]
  BY <1>7, RequestSeen
<1> HIDE DEF request, sent, stored
<1>9. /\ request[t].code = 603 /\ request[t].dest_client_id \in UserIds
      /\ request[t].content # OddContent
      /\ log' = Append(log, stored(request[t]))
      /\ response'[t] = sent(request[t])
  BY <1>3, <1>5, <1>8
<1>10. PICK r : r = sent(request[t])
  OBVIOUS
<1>11. Service!Serve(t, r)
  BY <1>2, <1>7, <1>9, <1>10, ServeStep DEF Handler
<1>12. Service!UserIds = UserIds
  BY DEF Service!UserIds, UserIds
<1>13. Service!Cardinality(messages \ handed) = Cardinality(messages \ handed)
  BY SameCardinality
<1> HIDE DEF TypeOK, UserIds
<1> USE DEF request
<1>14. /\ log' = Append(log, [id |-> Service!Cardinality(messages \ handed) + 1,
                              to_client |-> request[t].dest_client_id,
                              from_client |-> request[t].client_id,
                              content |-> request[t].content])
       /\ r = [code |-> 2103, client_id |-> request[t].dest_client_id,
               message_id |-> Service!Cardinality(messages \ handed) + 1]
  <2> HIDE DEF request
  <2>1. id = Service!Cardinality(messages \ handed) + 1
    BY <1>13
  <2> HIDE DEF id
  <2>2. log' = Append(log, stored(request[t])) /\ r = sent(request[t])
    BY <1>9, <1>10
  <2> QED
    BY <2>1, <2>2 DEF sent, stored
<1> HIDE DEF queue, id
<1> QED
  BY <1>2, <1>6, <1>9, <1>11, <1>12, <1>14 DEF Service!Send, Service!Serve, queue

\* What the scan found is what waits at the moment of the send.
LEMMA PendingStep ==
    ASSUME IInv, NEW t \in Thread, SendReply(t), req[t].code = 604
    PROVE  Service!Pending(t)
<1> USE DEF TypeOK, Goto
<1> DEFINE request == [u \in Thread |-> IF ServicePhase(u) = "idle" THEN NoRequest ELSE req[u]]
           queue == messages \ handed
           waiting(r) == {n \in queue : log[n].to_client = r.client_id}
           answer(r) == [code |-> 2104, messages |-> waiting(r)]
<1>1. TypeOK /\ LockHeld /\ NoneTwice /\ ScanOf(t)
  BY DEF IInv, ScanCurrent
<1>2. /\ pc[t] = "send" /\ pc'[t] \in {"assign", "unlock"}
      /\ UNCHANGED <<clients, log, messages, req, response>>
      /\ handed' = handed \cup scan[t].pending
  BY <1>1 DEF SendReply
<1>3. queue = messages
  <2>1. messages \cap handed = {}
    BY <1>1, <1>2, NothingHanded
  <2> QED
    BY <2>1
<1>4. /\ scan[t].pending = waiting(req[t])
      /\ response[t] = [code |-> 2104, messages |-> scan[t].pending]
  <2> HIDE DEF queue
  <2> QED
    BY <1>1, <1>2, <1>3 DEF ScanOf
<1>5. (messages \ handed)' = queue \ scan[t].pending
  BY <1>2, <1>3
<1>6. ServicePhase(t) = "called" /\ ServicePhase(t)' = "served"
  BY <1>2, PhaseOfPlace, NextPhaseOfPlace
<1>7. request[t] = req[t]
  BY <1>6, RequestSeen
<1> HIDE DEF request, waiting, answer
<1>8. /\ request[t].code = 604
      /\ (messages \ handed)' = queue \ waiting(request[t])
      /\ response'[t] = answer(request[t])
  BY <1>2, <1>4, <1>5, <1>7 DEF answer
<1>9. PICK r : r = answer(request[t])
  OBVIOUS
<1>10. Service!Serve(t, r)
  BY <1>2, <1>6, <1>8, <1>9, ServeStep DEF Handler
<1> USE DEF request, waiting, answer
<1> QED
  BY <1>2, <1>8, <1>9, <1>10 DEF Service!Pending, Service!Waiting, Service!Serve

-------------------------------------------------------------------------------
(* The theorem. *)

\* Every step of a handler is a step of the service or invisible to it.
LEMMA HandlerImplements ==
    ASSUME IInv, NEW t \in Thread, Handler(t)
    PROVE  Service!Next \/ UNCHANGED Service!vars
<1>1. CASE ReceiveRequest(t) \/ ReceiveCutContent(t)
  BY <1>1, CallStep DEF Service!Next
<1>2. CASE ReceiveNothing(t) \/ ReceiveInvalid(t) \/ SendError(t) \/ Acquire(t)
           \/ ScanMessages(t)
  BY <1>2, HiddenSteps
<1>3. CASE Unlock(t) \/ RefuseType(t) \/ SendRaises(t)
  BY <1>3, ReturnStep DEF Service!Next
<1>4. CASE CheckUsername(t) \/ CheckDestination(t)
  BY <1>4, HiddenChecks, RefusalStep DEF Service!Next
<1>5. CASE AddUser(t)
  BY <1>5, RegisterStep DEF Service!Next
<1>6. CASE ListClients(t)
  BY <1>6, ListStep DEF Service!Next
<1>7. CASE LookupKey(t)
  BY <1>7, KeyStep DEF Service!Next
<1>8. CASE AppendMessage(t)
  BY <1>8, SendStep DEF Service!Next
<1>9. CASE Assign(t)
  BY <1>9, HiddenAssign
<1>10. CASE SendReply(t)
  BY <1>10, HiddenSend, PendingStep DEF Service!Next
<1> QED
  BY <1>1, <1>2, <1>3, <1>4, <1>5, <1>6, <1>7, <1>8, <1>9, <1>10 DEF Handler

\* What the clients do before their request was read, or after it was answered, is
\* invisible to the service.
LEMMA ClientStep ==
    ASSUME IInv, NEW t \in Thread,
           \/ Accept(t) \/ Disconnect(t) \/ Stall(t)
           \/ \E r \in ClientRequest : Arrive(t, r)
    PROVE  UNCHANGED Service!vars
<1> USE DEF TypeOK, Goto, shared
<1>1. TypeOK
  BY DEF IInv
<1>2. UNCHANGED <<clients, log, messages, handed, response>>
  BY DEF Accept, Disconnect, Stall, Arrive
<1>3. ASSUME NEW u \in Thread
      PROVE  View(u)' = View(u)
  <2>1. CASE pc'[u] = pc[u] /\ req'[u] = req[u]
    BY <1>2, <2>1, ViewKept
  <2>2. CASE pc[u] \in {"free", "recv"} /\ pc'[u] = "recv"
    BY <1>2, <2>2, PhaseOfPlace, NextPhaseOfPlace DEF View, ServiceRequest, ServiceReply
  <2>3. \/ pc'[u] = pc[u] /\ req'[u] = req[u]
        \/ pc[u] \in {"free", "recv"} /\ pc'[u] = "recv"
    BY <1>1 DEF Accept, Disconnect, Stall, Arrive
  <2> QED
    BY <2>1, <2>2, <2>3
<1> QED
  BY <1>2, <1>3, Invisible

LEMMA NextImplements ==
    ASSUME IInv, [Next]_vars
    PROVE  Service!Next \/ UNCHANGED Service!vars
<1>1. CASE UNCHANGED vars
  <2>1. UNCHANGED <<clients, log, messages, handed, pc, req, response>>
    BY <1>1 DEF vars
  <2> QED
    BY <2>1, ViewKept, Invisible
<1>2. ASSUME NEW t \in Thread,
             \/ Accept(t) \/ Disconnect(t) \/ Stall(t)
             \/ \E r \in ClientRequest : Arrive(t, r)
      PROVE  UNCHANGED Service!vars
  BY <1>2, ClientStep
<1>3. ASSUME NEW t \in Thread, Handler(t)
      PROVE  Service!Next \/ UNCHANGED Service!vars
  BY <1>3, HandlerImplements
<1>4. CASE Quiet
  BY <1>1, <1>4 DEF Quiet
<1> QED
  BY <1>1, <1>2, <1>3, <1>4 DEF Next

\* Whatever the threads do, and wherever a send raises, clients see a server that
\* serves one request at a time.
THEOREM ServiceImplemented == Spec => ServiceSpec
<1>1. Init => Service!Init
  BY ServiceInit
<1>2. IInv /\ [Next]_vars => [Service!Next]_Service!vars
  BY NextImplements
<1> QED
  BY <1>1, <1>2, Invariant, PTL DEF Spec, ServiceSpec, Service!Spec

===============================================================================
