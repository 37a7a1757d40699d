--------------------------- MODULE MessageUProtocol ---------------------------
(***************************************************************************)
(* The values that cross the socket between a MessageU client and the      *)
(* server, and the two kinds of object the server stores: User (user.py)   *)
(* and Message (message.py).  Identifiers, names, keys and contents are    *)
(* only ever compared, so they are elements of constant sets.              *)
(*                                                                         *)
(* A content stands for the message type and the bytes.  Cut is what is    *)
(* left of a content when recv(payload_size) returned only part of the     *)
(* payload.                                                                *)
(***************************************************************************)
EXTENDS Naturals, Sequences, FiniteSets

CONSTANTS
    Thread,          \* slots for the connection threads that run at one time
    ClientId,        \* the identifiers uuid4 may generate
    StaleId,         \* an identifier this server never issued
    Username,
    PublicKey,
    Content,         \* message types 2 and 3 with their bytes
    NoContent,       \* message type 1, which has no content
    OddContent,      \* a content of no known message type
    Cut              \* a content of which the server received a prefix

ASSUME ProtocolAssumption ==
    /\ StaleId \notin ClientId
    /\ OddContent \notin Content \cup {NoContent}
    /\ Cut \notin Content \cup {NoContent, OddContent}

AnyId == ClientId \cup {StaleId}
StoredContent == Content \cup {NoContent, Cut}

User == [user_id: ClientId, username: Username, public_key: PublicKey]
Message == [id: Nat, to_client: ClientId, from_client: AnyId,
            content: StoredContent]

RegisterRequest == [code: {600}, username: Username, public_key: PublicKey]
ListRequest == [code: {601}, client_id: AnyId]
KeyRequest == [code: {602}, requested_id: AnyId]
SendRequest == [code: {603}, client_id: AnyId, dest_client_id: AnyId,
                content: StoredContent \cup {OddContent}]
PendingRequest == [code: {604}, client_id: AnyId]
Request == RegisterRequest \cup ListRequest \cup KeyRequest \cup SendRequest
             \cup PendingRequest

\* A request with a code handle_client does not know; also a connection whose
\* request has not arrived.
NoRequest == [code |-> 0]

NoReply == [code |-> 0]
ErrorReply == [code |-> 9000]
IdReply == [code: {2100}, client_id: ClientId]
ListReply == [code: {2101}, users: SUBSET (ClientId \X Username)]
KeyReply == [code: {2102}, client_id: ClientId, public_key: PublicKey]
SentReply == [code: {2103}, client_id: ClientId, message_id: Nat]
PendingReply == [code: {2104}, messages: SUBSET Nat]
Reply == IdReply \cup ListReply \cup KeyReply \cup SentReply \cup PendingReply
           \cup {NoReply, ErrorReply}

===============================================================================
