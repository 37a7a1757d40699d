----------------------------- MODULE Registration -----------------------------
(***************************************************************************)
(* Registering a client program: the construction of MessageUClient and    *)
(* MyInfo, menu choice 110 with Register.cpp, and the file my.info.        *)
(*                                                                         *)
(* A program that finds an identifier in my.info is registered for as long *)
(* as it runs.  Any other program makes a new key pair, asks the server    *)
(* for an identifier under the name its user types, and then writes the    *)
(* three parts of my.info (name, identifier and private key, the last on   *)
(* several lines) one after the other, each with a flush, and reads them   *)
(* back.  It may stop between any two of these steps, and none of the      *)
(* writes is checked.  A my.info that is there may not open: the program   *)
(* then takes itself for unregistered.  The server is the abstract one of  *)
(* MessageService: it answers a registration in one step.                  *)
(*                                                                         *)
(* Identifiers and key pairs are numbered: identifier u is the position of *)
(* its registration in the history issued.  Unset is a part that is not in *)
(* the file whole, or a field of MyInfo nobody has assigned.               *)
(***************************************************************************)
EXTENDS Integers, Sequences, FiniteSets

CONSTANTS
    Program,           \* client programs, each with a my.info of its own
    Name,              \* the names users type
    Unset,
    MaxKeys,           \* bound: key pairs in use at one time
    MaxRegistrations,  \* bound: registrations the server has accepted or may accept
    MaxFaults          \* bound: crashes, lost connections, failed opens and writes, restarts

ASSUME RegistrationAssumption ==
    /\ Unset \notin Name
    /\ Unset \notin Nat
    /\ MaxKeys \in Nat
    /\ MaxRegistrations \in Nat
    /\ MaxFaults \in Nat

VARIABLES
    file,     \* my.info of each program
    info,     \* the MyInfo object of each program
    pc,       \* where each program is
    typed,    \* the name each program asked for
    answer,   \* the identifier the reply carried
    users,    \* self.clients of the server
    issued,   \* history: every registration, in order
    orphans,  \* requests nobody waits for, that the server may still serve
    unopened, \* history: the programs that could not open their my.info to read it
    faults    \* number of faults

vars == <<file, info, pc, typed, answer, users, issued, orphans, unopened, faults>>

server == <<users, issued, orphans>>

-------------------------------------------------------------------------------
Maybe(S) == S \cup {Unset}

NoFile == [username |-> Unset, uuid |-> Unset, privateKey |-> Unset]

MyInfo == [isRegistered: BOOLEAN, username: Maybe(Name), uuid: Maybe(Nat),
           privateKey: Maybe(Nat)]

\* Nothing of the object is left when the program ends.
NoInfo == [isRegistered |-> FALSE, username |-> Unset, uuid |-> Unset,
           privateKey |-> Unset]

RegistrationRequest == [username: Name, public_key: Nat]

\* The places of registerUser after the request was written.
Registering == {"sent", "answered", "write", "close"}

TypeOK ==
    /\ file \in [Program -> [username: Maybe(Name), uuid: Maybe(Nat),
                             privateKey: Maybe(Nat)]]
    /\ info \in [Program -> MyInfo]
    /\ pc \in [Program -> {"off", "menu"} \cup Registering]
    /\ typed \in [Program -> Maybe(Name)]
    /\ answer \in [Program -> Maybe(Nat)]
    /\ issued \in Seq(RegistrationRequest)
    /\ users \subseteq DOMAIN issued
    /\ orphans \subseteq RegistrationRequest
    /\ unopened \subseteq Program
    /\ faults \in 0..MaxFaults

Init ==
    /\ file = [p \in Program |-> NoFile]
    /\ info = [p \in Program |-> NoInfo]
    /\ pc = [p \in Program |-> "off"]
    /\ typed = [p \in Program |-> Unset]
    /\ answer = [p \in Program |-> Unset]
    /\ users = {}
    /\ issued = <<>>
    /\ orphans = {}
    /\ unopened = {}
    /\ faults = 0

Goto(p, from, to) ==
    /\ pc[p] = from
    /\ pc' = [pc EXCEPT ![p] = to]

\* registerUser returns or throws: its variables are gone.
BackToMenu(p) ==
    /\ pc' = [pc EXCEPT ![p] = "menu"]
    /\ typed' = [typed EXCEPT ![p] = Unset]
    /\ answer' = [answer EXCEPT ![p] = Unset]

Fault ==
    /\ faults < MaxFaults
    /\ faults' = faults + 1

\* Variant: the request carries no public key.
RequestWithoutKey(p) == [username |-> typed[p], public_key |-> Unset]

RequestOf(p) == [username |-> typed[p], public_key |-> info[p].privateKey]

-------------------------------------------------------------------------------
(* The program starts: MyInfo reads the file, MessageUClient makes the keys. *)

KeysInUse ==
    {issued[u].public_key : u \in DOMAIN issued} \cup {r.public_key : r \in orphans}
      \cup {info[p].privateKey : p \in Program}

\* RSAPrivateWrapper: a key pair that no other program has or registered.
NewKeyPair == CHOOSE k \in 1..MaxKeys : k \notin KeysInUse

\* What the constructor takes from a my.info with an identifier.
ReadFromFile(f) ==
    [isRegistered |-> TRUE, username |-> f.username, uuid |-> f.uuid,
     privateKey |-> f.privateKey]

\* Without a whole second line the constructor has read the name and gives up;
\* MessageUClient generates a key pair.
Unregistered(f, k) ==
    [isRegistered |-> FALSE, username |-> f.username, uuid |-> Unset,
     privateKey |-> k]

Start(p) ==
    /\ Goto(p, "off", "menu")
    /\ \/ /\ file[p].uuid # Unset
          /\ info' = [info EXCEPT ![p] = ReadFromFile(file[p])]
       \/ /\ file[p].uuid = Unset
          /\ ~(1..MaxKeys \subseteq KeysInUse)
          /\ info' = [info EXCEPT ![p] = Unregistered(file[p], NewKeyPair)]
    /\ UNCHANGED <<file, typed, answer, server, unopened, faults>>

\* The file is there and does not open: nothing of it is read.
StartUnread(p) ==
    /\ Fault
    /\ file[p] # NoFile
    /\ Goto(p, "off", "menu")
    /\ ~(1..MaxKeys \subseteq KeysInUse)
    /\ info' = [info EXCEPT ![p] = Unregistered(NoFile, NewKeyPair)]
    /\ unopened' = unopened \cup {p}
    /\ UNCHANGED <<file, typed, answer, server>>

\* Menu choice 0, or the window is closed while the menu waits.
Quit(p) ==
    /\ Goto(p, "menu", "off")
    /\ info' = [info EXCEPT ![p] = NoInfo]
    /\ unopened' = unopened \ {p}
    /\ UNCHANGED <<file, typed, answer, server, faults>>

-------------------------------------------------------------------------------
(* Menu choice 110 up to the answer *)

\* Within the bound on registrations, the requests on their way included.
Room ==
    Len(issued) + Cardinality({p \in Program : pc[p] = "sent"}) + Cardinality(orphans)
      < MaxRegistrations

\* Variant: the menu does not look whether the program is registered.
AskAgain(p, n) ==
    /\ Room
    /\ Goto(p, "menu", "sent")
    /\ typed' = [typed EXCEPT ![p] = n]
    /\ UNCHANGED <<file, info, answer, server, unopened, faults>>

Ask(p, n) ==
    /\ ~info[p].isRegistered
    /\ Room
    /\ Goto(p, "menu", "sent")
    /\ typed' = [typed EXCEPT ![p] = n]
    /\ UNCHANGED <<file, info, answer, server, unopened, faults>>

NameTaken(n) == \E u \in users : issued[u].username = n

\* The server stores the user r asks for.
Store(r) ==
    /\ ~NameTaken(r.username)
    /\ issued' = Append(issued, r)
    /\ users' = users \cup {Len(issued) + 1}

Serve(p) ==
    /\ Goto(p, "sent", "answered")
    /\ Store(RequestOf(p))
    /\ answer' = [answer EXCEPT ![p] = Len(issued) + 1]
    /\ UNCHANGED <<file, info, typed, orphans, unopened, faults>>

\* 9000: handleRegistrationResponse throws.
Refuse(p) ==
    /\ pc[p] = "sent"
    /\ NameTaken(typed[p])
    /\ BackToMenu(p)
    /\ UNCHANGED <<file, info, server, unopened, faults>>

\* The request of a client that is gone; its reply goes nowhere.
ServeOrphan(r) ==
    /\ Store(r)
    /\ orphans' = orphans \ {r}
    /\ UNCHANGED <<file, info, pc, typed, answer, unopened, faults>>

-------------------------------------------------------------------------------
(* handleRegistrationResponse: writing my.info and reading it back *)

\* Variant: the file is opened for writing without being emptied.
OpenKept(p) ==
    /\ Goto(p, "answered", "write")
    /\ unopened' = unopened \ {p}
    /\ UNCHANGED <<file, info, typed, answer, server, faults>>

OpenFile(p) ==
    /\ Goto(p, "answered", "write")
    /\ file' = [file EXCEPT ![p] = NoFile]
    /\ unopened' = unopened \ {p}
    /\ UNCHANGED <<info, typed, answer, server, faults>>

\* std::ofstream failed: the answer is thrown away.
CannotCreate(p) ==
    /\ Fault
    /\ pc[p] = "answered"
    /\ BackToMenu(p)
    /\ UNCHANGED <<file, info, server, unopened>>

WriteUsername(p) ==
    /\ pc[p] = "write"
    /\ file[p].username = Unset
    /\ file' = [file EXCEPT ![p].username = typed[p]]
    /\ UNCHANGED <<info, pc, typed, answer, server, unopened, faults>>

WriteUuid(p) ==
    /\ pc[p] = "write"
    /\ file[p].username # Unset
    /\ file[p].uuid = Unset
    /\ file' = [file EXCEPT ![p].uuid = answer[p]]
    /\ UNCHANGED <<info, pc, typed, answer, server, unopened, faults>>

WritePrivateKey(p) ==
    /\ Goto(p, "write", "close")
    /\ file[p].uuid # Unset
    /\ file' = [file EXCEPT ![p].privateKey = info[p].privateKey]
    /\ UNCHANGED <<info, typed, answer, server, unopened, faults>>

\* The disk is full: the stream goes bad, the other lines are not written and
\* nobody looks at it.
WriteFails(p) ==
    /\ Fault
    /\ Goto(p, "write", "close")
    /\ UNCHANGED <<file, info, typed, answer, server, unopened>>

\* What reload makes of the object: a line that is not there leaves the name and
\* the identifier as they were, a cut name is read as it stands, and the key is
\* what follows.
ReloadFrom(f, i) ==
    {[isRegistered |-> TRUE, username |-> n,
      uuid |-> IF f.uuid = Unset THEN i.uuid ELSE f.uuid,
      privateKey |-> f.privateKey] :
        n \in IF f.username = Unset THEN {i.username, Unset} ELSE {f.username}}

\* Variant: the identifier is taken from the reply, the rest stays in memory.
ReloadNothing(p) ==
    /\ pc[p] = "close"
    /\ info' = [info EXCEPT ![p].isRegistered = TRUE, ![p].username = typed[p],
                            ![p].uuid = answer[p]]
    /\ BackToMenu(p)
    /\ UNCHANGED <<file, server, unopened, faults>>

Reload(p) ==
    /\ pc[p] = "close"
    /\ \E i \in ReloadFrom(file[p], info[p]) : info' = [info EXCEPT ![p] = i]
    /\ BackToMenu(p)
    /\ UNCHANGED <<file, server, unopened, faults>>

\* The identifier line is cut: its bytes cannot be read, the name before it was,
\* and the exception leaves the key in memory as it is.
ReloadThrows(p) ==
    /\ pc[p] = "close"
    /\ file[p].username # Unset
    /\ file[p].uuid = Unset
    /\ info' = [info EXCEPT ![p].isRegistered = TRUE, ![p].uuid = Unset,
                            ![p].username = file[p].username]
    /\ BackToMenu(p)
    /\ UNCHANGED <<file, server, unopened, faults>>

\* The file that was just written does not open.
ReloadFails(p) ==
    /\ Fault
    /\ pc[p] = "close"
    /\ info' = [info EXCEPT ![p].isRegistered = FALSE]
    /\ unopened' = unopened \cup {p}
    /\ BackToMenu(p)
    /\ UNCHANGED <<file, server>>

-------------------------------------------------------------------------------
(* Faults *)

Orphaned(p) == IF pc[p] = "sent" THEN orphans \cup {RequestOf(p)} ELSE orphans

\* The program ends while it registers.
Crash(p) ==
    /\ Fault
    /\ pc[p] \in Registering
    /\ pc' = [pc EXCEPT ![p] = "off"]
    /\ info' = [info EXCEPT ![p] = NoInfo]
    /\ typed' = [typed EXCEPT ![p] = Unset]
    /\ answer' = [answer EXCEPT ![p] = Unset]
    /\ orphans' = Orphaned(p)
    /\ unopened' = unopened \ {p}
    /\ UNCHANGED <<file, users, issued>>

\* The connection is lost before the reply was read: the read throws.
ConnectionLost(p) ==
    /\ Fault
    /\ pc[p] \in {"sent", "answered"}
    /\ BackToMenu(p)
    /\ orphans' = Orphaned(p)
    /\ UNCHANGED <<file, info, users, issued, unopened>>

\* The server ends and starts again: its users and its connections are gone.
ServerRestart ==
    /\ Fault
    /\ users' = {}
    /\ orphans' = {}
    /\ pc' = [p \in Program |-> IF pc[p] = "sent" THEN "menu" ELSE pc[p]]
    /\ typed' = [p \in Program |-> IF pc[p] = "sent" THEN Unset ELSE typed[p]]
    /\ UNCHANGED <<file, info, answer, issued, unopened>>

Next ==
    \/ \E p \in Program :
         \/ Start(p) \/ StartUnread(p) \/ Quit(p)
         \/ \E n \in Name : Ask(p, n)
         \/ Serve(p) \/ Refuse(p)
         \/ OpenFile(p) \/ CannotCreate(p)
         \/ WriteUsername(p) \/ WriteUuid(p) \/ WritePrivateKey(p) \/ WriteFails(p)
         \/ Reload(p) \/ ReloadThrows(p) \/ ReloadFails(p)
         \/ Crash(p) \/ ConnectionLost(p)
    \/ \E r \in orphans : ServeOrphan(r)
    \/ ServerRestart

Spec == Init /\ [][Next]_vars

-------------------------------------------------------------------------------
(* Properties *)

\* An identifier in my.info (MyInfo.cpp:19-45) stands beside the name the server
\* registered it under and, if the key line is there, beside the private key of
\* the public key the server hands out for it, whatever was interrupted before.
KeyOfIdentifier ==
    \A p \in Program :
      LET f == file[p]
      IN  f.uuid # Unset =>
            /\ f.uuid \in DOMAIN issued
            /\ f.username = issued[f.uuid].username
            /\ f.privateKey \in {Unset, issued[f.uuid].public_key}

\* A registered program that has an identifier is, field for field, what a
\* program that starts now and reads the same my.info would be (Register.cpp:105-107,
\* MessageUClient.cpp:29): it never uses a key or a name that a restart loses.
SurvivesRestart ==
    \A p \in Program :
      (pc[p] = "menu" /\ info[p].isRegistered /\ info[p].uuid # Unset)
        => info[p] = ReadFromFile(file[p])

\* The identifiers some program has, or is being told.
Held == {file[p].uuid : p \in Program} \cup {answer[p] : p \in Program}

\* The users no program holds, whose names are taken until the server restarts.
Lost == users \ Held

\* The server registers a name for nobody at most once per fault: a registered
\* program never registers again (MessageUClient.cpp:147-152), a refused one left
\* nothing behind (server.py:140-143), and a my.info that would not open when it was
\* read (MyInfo.cpp:15, 98) loses its identifier at most once.
LostNames == Cardinality(Lost) <= faults

\* No run of the program, crash, failed write or restart replaces the identifier
\* of a my.info that has one or takes it away (Register.cpp:89 empties the file),
\* but for one case the code has: the running program could not open its my.info
\* to read it (MyInfo.cpp:15, 98), so it registers again.
IdentifierKept ==
    [][\A p \in Program :
         (file[p].uuid # Unset /\ p \notin unopened) => file'[p].uuid = file[p].uuid]_vars

-------------------------------------------------------------------------------
(* The inductive invariant that the properties rest on.                       *)

\* A program that is not registered has a key pair, and while it registers a name;
\* until it writes, there is no identifier in its file, unless the file did not open.
InfoSound(p) ==
    /\ pc[p] \in Registering => ~info[p].isRegistered /\ typed[p] \in Name
    /\ pc[p] # "off" /\ ~info[p].isRegistered =>
         info[p].uuid = Unset /\ info[p].privateKey \in Nat
    /\ pc[p] \in {"menu", "sent", "answered"} /\ ~info[p].isRegistered =>
         file[p].uuid = Unset \/ p \in unopened
    /\ p \in unopened => pc[p] \in {"menu", "sent", "answered"} /\ ~info[p].isRegistered

\* The identifier it was told is the one registered for its name and key.
AnswerSound(p) ==
    pc[p] \in {"answered", "write", "close"} =>
      answer[p] \in DOMAIN issued /\ issued[answer[p]] = RequestOf(p)

\* What it has written so far is of this registration.
FileSound(p) ==
    pc[p] \in {"write", "close"} =>
      /\ file[p].username \in {Unset, typed[p]}
      /\ file[p].uuid \in {Unset, answer[p]}
      /\ file[p].privateKey \in {Unset, info[p].privateKey}

\* The programs that are about to forget an identifier they could not write.
Unwritten == {p \in Program : pc[p] = "close" /\ file[p].uuid = Unset}

\* Each name that was lost, or that may be, has cost a fault.
Counted ==
    /\ \A p \in Program : pc[p] \in {"off", "menu", "sent"} => answer[p] = Unset
    /\ IsFiniteSet(orphans)
    /\ IsFiniteSet(Unwritten)
    /\ IsFiniteSet(unopened)
    /\ Cardinality(Lost) + Cardinality(orphans) + Cardinality(Unwritten)
         + Cardinality(unopened) <= faults

RegistrationInv ==
    /\ TypeOK
    /\ \A p \in Program : InfoSound(p) /\ AnswerSound(p) /\ FileSound(p)
    /\ KeyOfIdentifier
    /\ SurvivesRestart
    /\ Counted

-------------------------------------------------------------------------------
(* What the documentation says and the code does not do. *)

\* README.md:86-89: my.info is created during registration and contains
\* the user's name, UUID and private key.
MyInfoComplete ==
    \A p \in Program :
      (pc[p] = "menu" /\ info[p].isRegistered)
        => Unset \notin {file[p].username, file[p].uuid, file[p].privateKey}
===============================================================================
