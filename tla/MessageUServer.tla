---------------------------- MODULE MessageUServer ----------------------------
(***************************************************************************)
(* The request-handling core of src/src/server/server.py: one thread per   *)
(* accepted connection, the registry self.clients and the list             *)
(* self.messages shared by all threads, and the lock that protects them.   *)
(*                                                                         *)
(* Every handler reads its request from the socket without the lock,       *)
(* enters the "with self.lock" block, reads and updates the shared state   *)
(* in several steps, sends its reply while it still holds the lock, and    *)
(* leaves the block.  The pending-messages handler empties the mailbox     *)
(* only after that send.  The peer may go away at any step, and then the   *)
(* send may raise, which leaves the block through the exception.           *)
(*                                                                         *)
(* log is the history of every message object that was appended;           *)
(* self.messages is the set of positions of log that are still in the list *)
(* (list order is the order of the positions).  handed is the history of   *)
(* the positions that some 2104 reply carried.                             *)
(***************************************************************************)
EXTENDS MessageUProtocol

CONSTANTS
    NoThread,        \* the value of lock when nobody holds it
    MaxConnections   \* bound: connections accepted in one behaviour

ASSUME ServerAssumption ==
    /\ NoThread \notin Thread
    /\ MaxConnections \in Nat

VARIABLES
    clients,    \* self.clients: the set of registered users
    log,        \* history: every message appended to self.messages
    messages,   \* self.messages: the positions of log that are in the list
    handed,     \* history: the positions a 2104 reply carried
    issued,     \* history: identifiers a 2100 reply carried to a client
    lock,       \* self.lock
    pc,         \* where each connection thread is
    req,        \* the request of each connection
    peer,       \* what the client of each connection has done so far
    scan,       \* pending_messages and remaining_messages of each thread
    response,   \* the reply each thread has built
    accepted    \* number of connections accepted

vars == <<clients, log, messages, handed, issued, lock,
          pc, req, peer, scan, response, accepted>>

-------------------------------------------------------------------------------
NoScan == [pending |-> {}, remaining |-> {}]

UserIds == {u.user_id : u \in clients}

\* What a client can put on a new connection: it names itself by an identifier
\* it was told (or kept from an earlier run of the server) and other users by an
\* identifier it found in a clients list.
ClientRequest ==
    LET self == issued \cup {StaleId}
        other == UserIds \cup {StaleId}
    IN  RegisterRequest \cup {NoRequest}
          \cup [code: {601, 604}, client_id: self]
          \cup [code: {602}, requested_id: other]
          \cup [code: {603}, client_id: self, dest_client_id: other,
                content: Content \cup {NoContent, OddContent}]

\* The places inside a "with self.lock" block.
Critical == {"body", "insert", "append", "send", "assign", "unlock"}
Location == {"free", "recv", "lock", "error"} \cup Critical

TypeOK ==
    /\ clients \subseteq User
    /\ log \in Seq(Message)
    /\ messages \subseteq 1..Len(log)
    /\ handed \subseteq 1..Len(log)
    /\ issued \subseteq ClientId
    /\ lock \in Thread \cup {NoThread}
    /\ pc \in [Thread -> Location]
    /\ req \in [Thread -> Request \cup {NoRequest}]
    /\ peer \in [Thread -> {"quiet", "sent", "stalled", "gone"}]
    /\ scan \in [Thread -> [pending: SUBSET (1..Len(log)),
                            remaining: SUBSET (1..Len(log))]]
    /\ response \in [Thread -> Reply]
    /\ accepted \in 0..MaxConnections

Init ==
    /\ clients = {}
    /\ log = <<>>
    /\ messages = {}
    /\ handed = {}
    /\ issued = {}
    /\ lock = NoThread
    /\ pc = [t \in Thread |-> "free"]
    /\ req = [t \in Thread |-> NoRequest]
    /\ peer = [t \in Thread |-> "quiet"]
    /\ scan = [t \in Thread |-> NoScan]
    /\ response = [t \in Thread |-> NoReply]
    /\ accepted = 0

shared == <<clients, log, messages, handed, issued>>

Goto(t, from, to) ==
    /\ pc[t] = from
    /\ pc' = [pc EXCEPT ![t] = to]

Answer(t, r) == response' = [response EXCEPT ![t] = r]

\* client_socket.close() and the end of the thread: its local variables are gone.
EndThread(t) ==
    /\ pc' = [pc EXCEPT ![t] = "free"]
    /\ req' = [req EXCEPT ![t] = NoRequest]
    /\ peer' = [peer EXCEPT ![t] = "quiet"]
    /\ scan' = [scan EXCEPT ![t] = NoScan]
    /\ response' = [response EXCEPT ![t] = NoReply]

-------------------------------------------------------------------------------
(* The connection: accepting it, reading the request, losing the peer. *)

Accept(t) ==
    /\ accepted < MaxConnections
    /\ accepted' = accepted + 1
    /\ Goto(t, "free", "recv")
    /\ UNCHANGED <<shared, lock, req, peer, scan, response>>

\* The client sends its request.
Arrive(t, r) ==
    /\ pc[t] = "recv"
    /\ peer[t] = "quiet"
    /\ peer' = [peer EXCEPT ![t] = "sent"]
    /\ req' = [req EXCEPT ![t] = r]
    /\ UNCHANGED <<shared, lock, pc, scan, response, accepted>>

\* The client process dies or the connection is reset.
Disconnect(t) ==
    /\ pc[t] # "free"
    /\ peer[t] # "gone"
    /\ peer' = [peer EXCEPT ![t] = "gone"]
    /\ UNCHANGED <<shared, lock, pc, req, scan, response, accepted>>

\* The reply, a list of users or messages, is larger than the socket buffers and
\* the client does not read on: send blocks, with the lock held, until the client
\* has read the reply after all (SendReply) or is gone (SendRaises).
Stall(t) ==
    /\ pc[t] = "send"
    /\ response[t].code \in {2101, 2104}
    /\ peer[t] = "sent"
    /\ peer' = [peer EXCEPT ![t] = "stalled"]
    /\ UNCHANGED <<shared, lock, pc, req, scan, response, accepted>>

\* Header and payload arrived whole and the payload is well formed.
ReceiveRequest(t) ==
    /\ req[t].code # 0
    /\ Goto(t, "recv", "lock")
    /\ UNCHANGED <<shared, lock, req, peer, scan, response, accepted>>

\* recv(23) returned less than a header, or raised: nothing is sent.
ReceiveNothing(t) ==
    /\ pc[t] = "recv"
    /\ peer[t] # "quiet"
    /\ EndThread(t)
    /\ UNCHANGED <<shared, lock, accepted>>

\* The code is unknown, or the payload fails the checks a handler makes before
\* it takes the lock (it was cut short, or the username is not ASCII).
ReceiveInvalid(t) ==
    /\ peer[t] # "quiet"
    /\ req[t].code \in {0, 600, 602, 603}
    /\ Goto(t, "recv", "error")
    /\ Answer(t, ErrorReply)
    /\ UNCHANGED <<shared, lock, req, peer, scan, accepted>>

\* recv(payload_size) returned the 21 bytes before the content and only part of
\* the content: the slice payload[21:21 + content_size] is shorter than announced.
ReceiveCutContent(t) ==
    /\ req[t].code = 603
    /\ req[t].content \in Content
    /\ Goto(t, "recv", "lock")
    /\ req' = [req EXCEPT ![t].content = Cut]
    /\ UNCHANGED <<shared, lock, peer, scan, response, accepted>>

\* send_error outside the lock, by a handler or by handle_client, and the end
\* of the thread.  It raises when the peer is gone; nobody sees the difference.
SendError(t) ==
    /\ pc[t] = "error"
    /\ EndThread(t)
    /\ UNCHANGED <<shared, lock, accepted>>

-------------------------------------------------------------------------------
(* Entering and leaving "with self.lock". *)

\* Variant: the block is entered without taking the lock.
AcquireUnguarded(t) ==
    /\ Goto(t, "lock", "body")
    /\ lock' = t
    /\ UNCHANGED <<shared, req, peer, scan, response, accepted>>

Acquire(t) ==
    /\ lock = NoThread
    /\ Goto(t, "lock", "body")
    /\ lock' = t
    /\ UNCHANGED <<shared, req, peer, scan, response, accepted>>

Unlock(t) ==
    /\ pc[t] = "unlock"
    /\ lock' = NoThread
    /\ EndThread(t)
    /\ UNCHANGED <<shared, accepted>>

-------------------------------------------------------------------------------
(* handle_registration *)

CheckUsername(t) ==
    /\ req[t].code = 600
    /\ \/ /\ \E u \in clients : u.username = req[t].username
          /\ Goto(t, "body", "send")
          /\ Answer(t, ErrorReply)
       \/ /\ \A u \in clients : u.username # req[t].username
          /\ Goto(t, "body", "insert")
          /\ UNCHANGED response
    /\ UNCHANGED <<shared, lock, req, peer, scan, accepted>>

\* uuid4 never generates an identifier that is in use.
AddUser(t) ==
    /\ Goto(t, "insert", "send")
    /\ \E id \in ClientId \ UserIds :
         /\ clients' = clients \cup
                {[user_id |-> id, username |-> req[t].username,
                  public_key |-> req[t].public_key]}
         /\ Answer(t, [code |-> 2100, client_id |-> id])
    /\ UNCHANGED <<log, messages, handed, issued, lock, req, peer, scan, accepted>>

-------------------------------------------------------------------------------
(* handle_clients_list and handle_public_key *)

ListClients(t) ==
    /\ req[t].code = 601
    /\ Goto(t, "body", "send")
    /\ LET others == {u \in clients : u.user_id # req[t].client_id}
       IN  Answer(t, [code |-> 2101,
                      users |-> {<<u.user_id, u.username>> : u \in others}])
    /\ UNCHANGED <<shared, lock, req, peer, scan, accepted>>

LookupKey(t) ==
    /\ req[t].code = 602
    /\ Goto(t, "body", "send")
    /\ \/ /\ req[t].requested_id \notin UserIds
          /\ Answer(t, ErrorReply)
       \/ \E u \in clients :
            /\ u.user_id = req[t].requested_id
            /\ Answer(t, [code |-> 2102, client_id |-> u.user_id,
                          public_key |-> u.public_key])
    /\ UNCHANGED <<shared, lock, req, peer, scan, accepted>>

-------------------------------------------------------------------------------
(* handle_send_message *)

\* Variant: nobody is looked up.
CheckNobody(t) ==
    /\ req[t].code = 603
    /\ Goto(t, "body", "append")
    /\ UNCHANGED <<shared, lock, req, peer, scan, response, accepted>>

\* The sender is not looked up, only the destination.
CheckDestination(t) ==
    /\ req[t].code = 603
    /\ \/ /\ req[t].dest_client_id \notin UserIds
          /\ Goto(t, "body", "send")
          /\ Answer(t, ErrorReply)
       \/ /\ req[t].dest_client_id \in UserIds
          /\ Goto(t, "body", "append")
          /\ UNCHANGED response
    /\ UNCHANGED <<shared, lock, req, peer, scan, accepted>>

\* The identifier is the length of the list plus one.
MessageFor(r) ==
    [id |-> Cardinality(messages) + 1, to_client |-> r.dest_client_id,
     from_client |-> r.client_id, content |-> r.content]

\* Message() refuses the type: the exception leaves the block before the append
\* and the except clause answers with send_error.
RefuseType(t) ==
    /\ Goto(t, "append", "error")
    /\ req[t].content = OddContent
    /\ lock' = NoThread
    /\ Answer(t, ErrorReply)
    /\ UNCHANGED <<shared, req, peer, scan, accepted>>

AppendMessage(t) ==
    /\ Goto(t, "append", "send")
    /\ req[t].content # OddContent
    /\ log' = Append(log, MessageFor(req[t]))
    /\ messages' = messages \cup {Len(log) + 1}
    /\ Answer(t, [code |-> 2103, client_id |-> req[t].dest_client_id,
                  message_id |-> MessageFor(req[t]).id])
    /\ UNCHANGED <<clients, handed, issued, lock, req, peer, scan, accepted>>

-------------------------------------------------------------------------------
(* handle_pending_messages *)

\* Variant: one message per request, any of those that wait.
ScanOneMessage(t) ==
    /\ req[t].code = 604
    /\ Goto(t, "body", "send")
    /\ \E p \in SUBSET {n \in messages : log[n].to_client = req[t].client_id} :
         /\ Cardinality(p) <= 1
         /\ scan' = [scan EXCEPT ![t] = [pending |-> p, remaining |-> messages \ p]]
         /\ Answer(t, [code |-> 2104, messages |-> p])
    /\ UNCHANGED <<shared, lock, req, peer, accepted>>

ScanMessages(t) ==
    /\ req[t].code = 604
    /\ Goto(t, "body", "send")
    /\ LET p == {n \in messages : log[n].to_client = req[t].client_id}
       IN  /\ scan' = [scan EXCEPT ![t] = [pending |-> p, remaining |-> messages \ p]]
           /\ Answer(t, [code |-> 2104, messages |-> p])
    /\ UNCHANGED <<shared, lock, req, peer, accepted>>

\* Variant: the list is left as it was.
AssignForgotten(t) ==
    /\ Goto(t, "assign", "unlock")
    /\ UNCHANGED <<shared, lock, req, peer, scan, response, accepted>>

\* self.messages = remaining_messages, after the reply was sent.
Assign(t) ==
    /\ Goto(t, "assign", "unlock")
    /\ messages' = scan[t].remaining
    /\ UNCHANGED <<clients, log, handed, issued, lock, req, peer, scan,
                   response, accepted>>

-------------------------------------------------------------------------------
(* client_socket.send(response), with the lock held *)

\* The bytes went to the kernel.  A client that is still there will read them;
\* a client that is gone never does, and the server cannot tell.
SendReply(t) ==
    /\ Goto(t, "send", IF scan[t].pending # {} THEN "assign" ELSE "unlock")
    /\ handed' = handed \cup scan[t].pending
    /\ issued' = IF response[t].code = 2100 /\ peer[t] = "sent"
                 THEN issued \cup {response[t].client_id}
                 ELSE issued
    /\ UNCHANGED <<clients, log, messages, lock, req, peer, scan, response, accepted>>

\* Variant: a send that raised empties the mailbox all the same.
SendRaisesRemoves(t) ==
    /\ peer[t] = "gone"
    /\ Goto(t, "send", "error")
    /\ lock' = NoThread
    /\ messages' = messages \ scan[t].pending
    /\ Answer(t, NoReply)
    /\ UNCHANGED <<clients, log, handed, issued, req, peer, scan, accepted>>

\* Variant: the exception leaves the block with the lock held.
SendRaisesKeepsLock(t) ==
    /\ peer[t] = "gone"
    /\ Goto(t, "send", "error")
    /\ Answer(t, NoReply)
    /\ UNCHANGED <<shared, lock, req, peer, scan, accepted>>

\* send raised: "with" releases the lock and the except clause calls send_error.
\* What the handler stored before the send stays stored.
SendRaises(t) ==
    /\ peer[t] = "gone"
    /\ Goto(t, "send", "error")
    /\ lock' = NoThread
    /\ Answer(t, NoReply)
    /\ UNCHANGED <<shared, req, peer, scan, accepted>>

-------------------------------------------------------------------------------
Handler(t) ==
    \/ ReceiveRequest(t) \/ ReceiveNothing(t) \/ ReceiveInvalid(t)
    \/ ReceiveCutContent(t) \/ SendError(t)
    \/ Acquire(t) \/ Unlock(t)
    \/ CheckUsername(t) \/ AddUser(t)
    \/ ListClients(t) \/ LookupKey(t)
    \/ CheckDestination(t) \/ RefuseType(t) \/ AppendMessage(t)
    \/ ScanMessages(t) \/ Assign(t)
    \/ SendReply(t) \/ SendRaises(t)

\* The bound on connections is used up and every thread has ended.
Quiet ==
    /\ accepted = MaxConnections
    /\ \A t \in Thread : pc[t] = "free"
    /\ UNCHANGED vars

Next ==
    \/ \E t \in Thread : Accept(t)
    \/ \E t \in Thread : \E r \in ClientRequest : Arrive(t, r)
    \/ \E t \in Thread : Disconnect(t)
    \/ \E t \in Thread : Stall(t)
    \/ \E t \in Thread : Handler(t)
    \/ Quiet

Spec == Init /\ [][Next]_vars

\* The interpreter runs every thread that can run, which one blocked in send
\* cannot; arrivals and disconnections are up to the clients.
FairSpec == Spec /\ \A t \in Thread : WF_vars(peer[t] # "stalled" /\ Handler(t))

-------------------------------------------------------------------------------
(* Properties *)

\* Two users never have one username: the look-up and the insertion of
\* handle_registration are one step to every other registration.
UniqueUsernames ==
    \A u, v \in clients : u.username = v.username => u = v

\* A message that was stored, and acknowledged with 2103, is still in
\* self.messages or was in a 2104 reply: no two handlers overwrite each
\* other's list, and a send that raises removes nothing.
NothingLost == 1..Len(log) = messages \cup handed

\* A 2104 reply about to be sent carries no message that an earlier 2104
\* reply carried: a mailbox is emptied before the next request sees it.
HandedOnce ==
    \A t \in Thread : pc[t] = "send" => scan[t].pending \cap handed = {}

\* Messages for one client leave the server in the order they were stored.
HandedInOrder ==
    \A m, n \in 1..Len(log) :
        /\ m < n
        /\ log[m].to_client = log[n].to_client
        /\ n \in handed
        => m \in handed

\* Every connection whose request has arrived, or whose client has gone, comes
\* to its end if no client leaves its reply unread for ever: a connection that
\* stays quiet holds up nobody, and the lock is released also when a send raises.
\* Without the premise one such client stops the server (server.py:167, 295).
ConnectionsEnd ==
    (\A t \in Thread : []<>(peer[t] # "stalled"))
      => \A t \in Thread :
           pc[t] # "free" /\ peer[t] # "quiet" ~> pc[t] = "free"

-------------------------------------------------------------------------------
(* The inductive invariant that the properties rest on. *)

\* The lock is held by the one thread inside a "with" block.
LockHeld == \A t \in Thread : pc[t] \in Critical <=> lock = t

\* What a handler checked in the lock is still so at its next step.
Checked ==
    \A t \in Thread :
        /\ pc[t] = "insert" =>
             /\ req[t].code = 600
             /\ \A u \in clients : u.username # req[t].username
        /\ pc[t] = "append" =>
             /\ req[t].code = 603
             /\ req[t].dest_client_id \in UserIds

\* Between the scan of the list and the assignment the list does not change,
\* so the two halves of the scan are the list.
ScanOf(t) ==
    /\ pc[t] \in {"free", "recv", "lock", "body", "insert", "append"} =>
         scan[t] = NoScan
    /\ pc[t] = "send" /\ req[t].code # 604 => scan[t].pending = {}
    /\ pc[t] = "send" /\ req[t].code = 604 =>
         /\ scan[t].pending = {n \in messages : log[n].to_client = req[t].client_id}
         /\ scan[t].remaining = messages \ scan[t].pending
         /\ response[t] = [code |-> 2104, messages |-> scan[t].pending]
    /\ pc[t] = "assign" =>
         /\ scan[t].remaining = messages \ scan[t].pending
         /\ scan[t].pending = messages \cap handed

ScanCurrent == \A t \in Thread : ScanOf(t)

\* Only a thread that has yet to assign leaves handed messages in the list.
NoneTwice == (\A t \in Thread : pc[t] # "assign") => messages \cap handed = {}

IInv ==
    /\ TypeOK
    /\ LockHeld
    /\ Checked
    /\ ScanCurrent
    /\ NoneTwice
    /\ NothingLost
    /\ HandedInOrder
    /\ UniqueUsernames

-------------------------------------------------------------------------------
(* The server implements the service that serves one request at a time. *)

\* A request for pending messages takes effect when its reply is sent, the
\* others when the handler has stored what they store.
ServicePhase(t) ==
    CASE pc[t] \in {"free", "recv", "error"} -> "idle"
      [] pc[t] \in {"lock", "body", "insert", "append"} -> "called"
      [] pc[t] = "send" /\ req[t].code = 604 -> "called"
      [] OTHER -> "served"

\* Every step of the threads is a step of the service or changes nothing in it:
\* what the code does in several steps inside the lock, with sends that raise
\* half-way, no client can tell from one step.
Service == INSTANCE MessageService WITH
    queue <- messages \ handed,
    phase <- [t \in Thread |-> ServicePhase(t)],
    request <- [t \in Thread |->
                  IF ServicePhase(t) = "idle" THEN NoRequest ELSE req[t]],
    reply <- [t \in Thread |->
                IF ServicePhase(t) = "served" THEN response[t] ELSE NoReply]

\* The refinement as a property of a run.
ServiceSpec == Service!Spec

-------------------------------------------------------------------------------
(* What the documentation says and the code does not do. *)

\* server.py:237, "Simple incrementing ID": a message has a larger identifier
\* than every message stored before it.
IncrementingIds ==
    \A m, n \in 1..Len(log) : m < n => log[m].id < log[n].id

\* README.md:26, "Stores messages for offline users": messages leave the mailbox
\* only in a reply to a client that is there.
KeptForOffline ==
    [][\A t \in Thread :
          handed' # handed /\ pc[t] = "send" /\ pc'[t] # "send"
            => peer[t] # "gone"]_vars

===============================================================================
