---------------------------- MODULE MessageService ----------------------------
(***************************************************************************)
(* What the MessageU server promises, whatever its threads do: a registry  *)
(* and a store of waiting messages that serve one request at a time.  A    *)
(* connection calls, its request takes effect in one step (Serve) or has   *)
(* no effect at all (Fail), and the connection ends.                       *)
(*                                                                         *)
(* log is the history of every message accepted; queue is the set of the   *)
(* positions of log that still wait for their addressee.  Serving request  *)
(* 604 takes every message that waits for the caller, at once.             *)
(***************************************************************************)
EXTENDS MessageUProtocol

VARIABLES
    clients,   \* the registered users
    log,       \* history: the messages accepted
    queue,     \* the positions of log that wait
    phase,     \* of each connection: "idle", "called" or "served"
    request,   \* of each connection that is not idle
    reply      \* of each connection that was served

vars == <<clients, log, queue, phase, request, reply>>

Init ==
    /\ clients = {}
    /\ log = <<>>
    /\ queue = {}
    /\ phase = [t \in Thread |-> "idle"]
    /\ request = [t \in Thread |-> NoRequest]
    /\ reply = [t \in Thread |-> NoReply]

Call(t) ==
    /\ phase[t] = "idle"
    /\ phase' = [phase EXCEPT ![t] = "called"]
    /\ \E r \in Request : request' = [request EXCEPT ![t] = r]
    /\ UNCHANGED <<clients, log, queue, reply>>

\* The connection ends; whether its client read the reply is not known here.
Return(t) ==
    /\ phase[t] # "idle"
    /\ phase' = [phase EXCEPT ![t] = "idle"]
    /\ request' = [request EXCEPT ![t] = NoRequest]
    /\ reply' = [reply EXCEPT ![t] = NoReply]
    /\ UNCHANGED <<clients, log, queue>>

Serve(t, r) ==
    /\ phase[t] = "called"
    /\ phase' = [phase EXCEPT ![t] = "served"]
    /\ reply' = [reply EXCEPT ![t] = r]
    /\ UNCHANGED request

Refuse(t) ==
    /\ Serve(t, ErrorReply)
    /\ UNCHANGED <<clients, log, queue>>

UserIds == {u.user_id : u \in clients}

Register(t) ==
    /\ request[t].code = 600
    /\ \A u \in clients : u.username # request[t].username
    /\ \E id \in ClientId \ UserIds :
         /\ clients' = clients \cup {[user_id |-> id,
                                      username |-> request[t].username,
                                      public_key |-> request[t].public_key]}
         /\ Serve(t, [code |-> 2100, client_id |-> id])
    /\ UNCHANGED <<log, queue>>

RefuseRegister(t) ==
    /\ request[t].code = 600
    /\ \E u \in clients : u.username = request[t].username
    /\ Refuse(t)

List(t) ==
    /\ request[t].code = 601
    /\ LET others == {u \in clients : u.user_id # request[t].client_id}
       IN  Serve(t, [code |-> 2101,
                     users |-> {<<u.user_id, u.username>> : u \in others}])
    /\ UNCHANGED <<clients, log, queue>>

Key(t) ==
    /\ request[t].code = 602
    /\ \E u \in clients :
         /\ u.user_id = request[t].requested_id
         /\ Serve(t, [code |-> 2102, client_id |-> u.user_id,
                      public_key |-> u.public_key])
    /\ UNCHANGED <<clients, log, queue>>

RefuseKey(t) ==
    /\ request[t].code = 602
    /\ request[t].requested_id \notin UserIds
    /\ Refuse(t)

Send(t) ==
    /\ request[t].code = 603
    /\ request[t].dest_client_id \in UserIds
    /\ request[t].content # OddContent
    /\ LET id == Cardinality(queue) + 1
       IN  /\ log' = Append(log, [id |-> id,
                                  to_client |-> request[t].dest_client_id,
                                  from_client |-> request[t].client_id,
                                  content |-> request[t].content])
           /\ Serve(t, [code |-> 2103, client_id |-> request[t].dest_client_id,
                        message_id |-> id])
    /\ queue' = queue \cup {Len(log) + 1}
    /\ UNCHANGED clients

RefuseSend(t) ==
    /\ request[t].code = 603
    /\ request[t].dest_client_id \notin UserIds
    /\ Refuse(t)

Waiting(id) == {n \in queue : log[n].to_client = id}

Pending(t) ==
    /\ request[t].code = 604
    /\ Serve(t, [code |-> 2104, messages |-> Waiting(request[t].client_id)])
    /\ queue' = queue \ Waiting(request[t].client_id)
    /\ UNCHANGED <<clients, log>>

Next ==
    \E t \in Thread :
        \/ Call(t)
        \/ Return(t)
        \/ Register(t) \/ RefuseRegister(t)
        \/ List(t)
        \/ Key(t) \/ RefuseKey(t)
        \/ Send(t) \/ RefuseSend(t)
        \/ Pending(t)

Spec == Init /\ [][Next]_vars

===============================================================================
