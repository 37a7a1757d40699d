------------------------- MODULE Registration_proofs -------------------------
(***************************************************************************)
(* Proofs about Registration, for any programs, names and bounds.          *)
(***************************************************************************)
EXTENDS Registration, FiniteSetTheorems, TLAPS

(* Facts about single steps. *)

\* A new key pair is a number.
LEMMA NewKeyPairType ==
    ASSUME ~(1..MaxKeys \subseteq KeysInUse)
    PROVE  NewKeyPair \in Nat
<1>1. \E k \in 1..MaxKeys : k \notin KeysInUse
  OBVIOUS
<1>2. NewKeyPair \in 1..MaxKeys
  BY <1>1 DEF NewKeyPair
<1> QED
  BY <1>2, RegistrationAssumption

\* What a registering program asks for is a request.
LEMMA RequestOfType ==
    ASSUME TypeOK, NEW p \in Program, InfoSound(p), pc[p] \in Registering
    PROVE  RequestOf(p) \in RegistrationRequest
BY DEF TypeOK, InfoSound, RequestOf, RegistrationRequest, Registering

\* Storing a request appends it to the history.
LEMMA StoreAppends ==
    ASSUME TypeOK, NEW r \in RegistrationRequest, Store(r)
    PROVE  /\ issued' \in Seq(RegistrationRequest)
           /\ Len(issued) + 1 \in DOMAIN issued'
           /\ issued'[Len(issued) + 1] = r
           /\ \A u \in DOMAIN issued : u \in DOMAIN issued' /\ issued'[u] = issued[u]
           /\ users' \subseteq DOMAIN issued'
BY DEF TypeOK, Store

-------------------------------------------------------------------------------
(* Type correctness. *)

LEMMA TypeInit == Init => TypeOK
BY RegistrationAssumption
DEF Init, TypeOK, NoFile, NoInfo, MyInfo, Maybe

\* The values a program has when its registration has ended are of their types.
LEMMA BackToMenuType ==
    ASSUME TypeOK, NEW p \in Program, BackToMenu(p)
    PROVE  /\ pc' \in [Program -> {"off", "menu"} \cup Registering]
           /\ typed' \in [Program -> Maybe(Name)]
           /\ answer' \in [Program -> Maybe(Nat)]
BY DEF TypeOK, BackToMenu, Maybe

LEMMA FaultType ==
    ASSUME TypeOK, Fault
    PROVE  faults' \in 0..MaxFaults
BY RegistrationAssumption DEF TypeOK, Fault

LEMMA OrphanedType ==
    ASSUME TypeOK, NEW p \in Program, InfoSound(p)
    PROVE  Orphaned(p) \subseteq RegistrationRequest
BY RequestOfType DEF Orphaned, TypeOK, Registering

LEMMA TypeNext ==
    ASSUME TypeOK, \A p \in Program : InfoSound(p), [Next]_vars
    PROVE  TypeOK'
<1> USE DEF TypeOK, Goto, server
<1>1. CASE UNCHANGED vars
  BY <1>1 DEF vars
<1>2. ASSUME NEW p \in Program, Start(p)
      PROVE  TypeOK'
  <2>1. CASE info' = [info EXCEPT ![p] = ReadFromFile(file[p])]
    <3>1. ReadFromFile(file[p]) \in MyInfo
      BY DEF ReadFromFile, MyInfo
    <3> QED
      BY <1>2, <2>1, <3>1 DEF Start
  <2>2. CASE /\ ~(1..MaxKeys \subseteq KeysInUse)
             /\ info' = [info EXCEPT ![p] = Unregistered(file[p], NewKeyPair)]
    <3>1. Unregistered(file[p], NewKeyPair) \in MyInfo
      BY <2>2, NewKeyPairType DEF Unregistered, MyInfo, Maybe
    <3> QED
      BY <1>2, <2>2, <3>1 DEF Start
  <2> QED
    BY <1>2, <2>1, <2>2 DEF Start
<1>3. ASSUME NEW p \in Program, Quit(p)
      PROVE  TypeOK'
  BY <1>3 DEF Quit, NoInfo, MyInfo, Maybe
<1>4. ASSUME NEW p \in Program, NEW n \in Name, Ask(p, n)
      PROVE  TypeOK'
  BY <1>4 DEF Ask, Maybe, Registering
<1>5. ASSUME NEW p \in Program, Serve(p)
      PROVE  TypeOK'
  <2>1. RequestOf(p) \in RegistrationRequest
    BY <1>5, RequestOfType DEF Serve, Registering
  <2>2. Len(issued) + 1 \in Nat
    OBVIOUS
  <2> QED
    BY <1>5, <2>1, <2>2, StoreAppends DEF Serve, Maybe, Registering
<1>6. ASSUME NEW p \in Program, Refuse(p)
      PROVE  TypeOK'
  BY <1>6, BackToMenuType DEF Refuse
<1>7. ASSUME NEW p \in Program, OpenFile(p)
      PROVE  TypeOK'
  BY <1>7 DEF OpenFile, NoFile, Maybe, Registering
<1>8. ASSUME NEW p \in Program, CannotCreate(p)
      PROVE  TypeOK'
  BY <1>8, BackToMenuType, FaultType DEF CannotCreate
<1>9. ASSUME NEW p \in Program, WriteUsername(p) \/ WriteUuid(p)
      PROVE  TypeOK'
  <2>1. CASE WriteUsername(p)
    BY <2>1 DEF WriteUsername
  <2>2. CASE WriteUuid(p)
    BY <2>2 DEF WriteUuid
  <2> QED
    BY <1>9, <2>1, <2>2
<1>10. ASSUME NEW p \in Program, WritePrivateKey(p)
       PROVE  TypeOK'
  <2>1. info[p].privateKey \in Maybe(Nat)
    BY DEF MyInfo
  <2> QED
    BY <1>10, <2>1 DEF WritePrivateKey, Registering
<1>11. ASSUME NEW p \in Program, WriteFails(p)
       PROVE  TypeOK'
  BY <1>11, FaultType DEF WriteFails, Registering
<1>12. ASSUME NEW p \in Program, Reload(p)
       PROVE  TypeOK'
  <2>1. PICK i \in ReloadFrom(file[p], info[p]) : info' = [info EXCEPT ![p] = i]
    BY <1>12 DEF Reload
  <2>2. i \in MyInfo
    <3>1. info[p] \in MyInfo /\ info[p].username \in Maybe(Name)
          /\ info[p].uuid \in Maybe(Nat)
      BY DEF MyInfo
    <3>2. file[p].username \in Maybe(Name) /\ file[p].uuid \in Maybe(Nat)
          /\ file[p].privateKey \in Maybe(Nat)
      OBVIOUS
    <3>3. PICK n \in {info[p].username, Unset, file[p].username} :
            i = [isRegistered |-> TRUE, username |-> n,
                 uuid |-> IF file[p].uuid = Unset THEN info[p].uuid ELSE file[p].uuid,
                 privateKey |-> file[p].privateKey]
      BY <2>1 DEF ReloadFrom
    <3>4. n \in Maybe(Name)
      BY <3>1, <3>2 DEF Maybe
    <3> QED
      BY <3>1, <3>2, <3>3, <3>4 DEF MyInfo
  <2> QED
    BY <1>12, <2>1, <2>2, BackToMenuType DEF Reload
<1>13. ASSUME NEW p \in Program, Crash(p)
       PROVE  TypeOK'
  <2>1. NoInfo \in MyInfo /\ Unset \in Maybe(Name) /\ Unset \in Maybe(Nat)
    BY DEF NoInfo, MyInfo, Maybe
  <2> QED
    BY <1>13, <2>1, FaultType, OrphanedType DEF Crash
<1>14. ASSUME NEW p \in Program, ConnectionLost(p)
       PROVE  TypeOK'
  BY <1>14, BackToMenuType, FaultType, OrphanedType DEF ConnectionLost
<1>15. ASSUME NEW r \in orphans, ServeOrphan(r)
       PROVE  TypeOK'
  BY <1>15, StoreAppends DEF ServeOrphan
<1>16. CASE ServerRestart
  BY <1>16, FaultType DEF ServerRestart, Maybe
<1>17. ASSUME NEW p \in Program, StartUnread(p)
       PROVE  TypeOK'
  <2>1. Unregistered(NoFile, NewKeyPair) \in MyInfo
    BY <1>17, NewKeyPairType DEF StartUnread, Unregistered, NoFile, MyInfo, Maybe
  <2> QED
    BY <1>17, <2>1, FaultType DEF StartUnread
<1>18. ASSUME NEW p \in Program, ReloadThrows(p) \/ ReloadFails(p)
       PROVE  TypeOK'
  <2>1. info' \in [Program -> MyInfo]
    <3>1. CASE ReloadThrows(p)
      <4>1. file[p].username \in Maybe(Name) /\ Unset \in Maybe(Nat)
        BY DEF Maybe
      <4>2. PICK i : i = [info[p] EXCEPT !.isRegistered = TRUE, !.uuid = Unset,
                                         !.username = file[p].username]
        OBVIOUS
      <4>3. info' = [info EXCEPT ![p] = i]
        BY <3>1, <4>2 DEF ReloadThrows
      <4>4. i \in MyInfo
        BY <4>1, <4>2 DEF MyInfo
      <4> QED
        BY <4>3, <4>4
    <3>2. CASE ReloadFails(p)
      BY <3>2 DEF ReloadFails, MyInfo
    <3> QED
      BY <1>18, <3>1, <3>2
  <2>2. faults' \in 0..MaxFaults
    BY <1>18, FaultType DEF ReloadThrows, ReloadFails
  <2> QED
    BY <1>18, <2>1, <2>2, BackToMenuType DEF ReloadThrows, ReloadFails
<1> QED
  BY <1>1, <1>2, <1>3, <1>4, <1>5, <1>6, <1>7, <1>8, <1>9, <1>10, <1>11, <1>12,
     <1>13, <1>14, <1>15, <1>16, <1>17, <1>18
  DEF Next

-------------------------------------------------------------------------------
(* The inductive invariant, one program at a time. *)

KeySound(p) ==
    file[p].uuid # Unset =>
      /\ file[p].uuid \in DOMAIN issued
      /\ file[p].username = issued[file[p].uuid].username
      /\ file[p].privateKey \in {Unset, issued[file[p].uuid].public_key}

RestartSound(p) ==
    (pc[p] = "menu" /\ info[p].isRegistered /\ info[p].uuid # Unset)
      => info[p] = ReadFromFile(file[p])

ProgramSound(p) ==
    InfoSound(p) /\ AnswerSound(p) /\ FileSound(p) /\ KeySound(p) /\ RestartSound(p)

LEMMA InvByProgram ==
    RegistrationInv <=> TypeOK /\ Counted /\ \A p \in Program : ProgramSound(p)
BY Zenon DEF RegistrationInv, ProgramSound, KeyOfIdentifier, KeySound, SurvivesRestart, RestartSound

\* The identifiers handed out keep their name and key.
IssuedKept ==
    \A u \in DOMAIN issued : u \in DOMAIN issued' /\ issued'[u] = issued[u]

LEMMA HistoryGrows ==
    ASSUME TypeOK, \A p \in Program : InfoSound(p), [Next]_vars
    PROVE  IssuedKept
<1>1. CASE issued' = issued
  BY <1>1 DEF IssuedKept
<1>2. ASSUME NEW p \in Program, Serve(p)
      PROVE  IssuedKept
  <2>1. RequestOf(p) \in RegistrationRequest
    BY <1>2, RequestOfType DEF Serve, Goto, Registering
  <2> QED
    BY <1>2, <2>1, StoreAppends DEF Serve, IssuedKept
<1>3. ASSUME NEW r \in orphans, ServeOrphan(r)
      PROVE  IssuedKept
  BY <1>3, StoreAppends DEF ServeOrphan, IssuedKept, TypeOK
<1> QED
  BY <1>1, <1>2, <1>3
  DEF Next, vars, server, Start, StartUnread, Quit, Ask, Refuse, OpenFile, CannotCreate,
      WriteUsername, WriteUuid, WritePrivateKey, WriteFails, Reload, ReloadThrows,
      ReloadFails, Crash, ConnectionLost, ServerRestart

\* What is so of a program stays so while others move.
LEMMA OthersMove ==
    ASSUME NEW q \in Program, ProgramSound(q), IssuedKept,
           file'[q] = file[q], info'[q] = info[q], pc'[q] = pc[q],
           typed'[q] = typed[q], answer'[q] = answer[q],
           q \in unopened' <=> q \in unopened
    PROVE  ProgramSound(q)'
<1>1. InfoSound(q)'
  BY DEF ProgramSound, InfoSound
<1>2. AnswerSound(q)'
  BY DEF ProgramSound, AnswerSound, RequestOf, IssuedKept
<1>3. FileSound(q)'
  BY DEF ProgramSound, FileSound
<1>4. KeySound(q)'
  BY DEF ProgramSound, KeySound, IssuedKept
<1>5. RestartSound(q)'
  BY DEF ProgramSound, RestartSound, ReadFromFile
<1> QED
  BY <1>1, <1>2, <1>3, <1>4, <1>5 DEF ProgramSound

\* A program that only ends its registration keeps what is so of it: the file and
\* the object are as before.
LEMMA GivesUp ==
    ASSUME TypeOK, NEW p \in Program, ProgramSound(p), BackToMenu(p), IssuedKept,
           pc[p] \in {"sent", "answered"},
           UNCHANGED <<file, info, unopened>>
    PROVE  ProgramSound(p)'
<1> USE DEF TypeOK, BackToMenu
<1>1. InfoSound(p)'
  BY DEF ProgramSound, InfoSound, Registering
<1>2. AnswerSound(p)' /\ FileSound(p)'
  BY DEF AnswerSound, FileSound
<1>3. KeySound(p)'
  BY DEF ProgramSound, KeySound, IssuedKept
<1>4. RestartSound(p)'
  BY DEF ProgramSound, InfoSound, RestartSound, Registering
<1> QED
  BY <1>1, <1>2, <1>3, <1>4 DEF ProgramSound

-------------------------------------------------------------------------------
(* Each step of a program keeps what is so of it. *)

LEMMA StartSound ==
    ASSUME TypeOK, NEW p \in Program, ProgramSound(p), Start(p)
    PROVE  ProgramSound(p)'
<1> USE DEF TypeOK, Goto, server
<1>1. pc'[p] = "menu" /\ file' = file /\ issued' = issued
  BY DEF Start
<1>2. \/ file[p].uuid # Unset /\ info'[p] = ReadFromFile(file[p])
      \/ file[p].uuid = Unset /\ NewKeyPair \in Nat
         /\ info'[p] = Unregistered(file[p], NewKeyPair)
  BY NewKeyPairType DEF Start
<1>3. p \notin unopened'
  BY DEF Start, ProgramSound, InfoSound
<1>4. InfoSound(p)'
  BY <1>1, <1>2, <1>3 DEF InfoSound, ReadFromFile, Unregistered, Registering
<1>5. AnswerSound(p)' /\ FileSound(p)'
  BY <1>1 DEF AnswerSound, FileSound
<1>6. KeySound(p)'
  BY <1>1 DEF ProgramSound, KeySound
<1>7. RestartSound(p)'
  BY <1>1, <1>2 DEF RestartSound, ReadFromFile, Unregistered
<1> QED
  BY <1>4, <1>5, <1>6, <1>7 DEF ProgramSound

LEMMA StartUnreadSound ==
    ASSUME TypeOK, NEW p \in Program, ProgramSound(p), StartUnread(p)
    PROVE  ProgramSound(p)'
<1> USE DEF TypeOK, Goto, server
<1>1. pc'[p] = "menu" /\ file' = file /\ issued' = issued /\ p \in unopened'
  BY DEF StartUnread
<1>2. NewKeyPair \in Nat /\ info'[p] = Unregistered(NoFile, NewKeyPair)
  BY NewKeyPairType DEF StartUnread
<1>3. InfoSound(p)'
  BY <1>1, <1>2 DEF InfoSound, Unregistered, Registering
<1>4. AnswerSound(p)' /\ FileSound(p)'
  BY <1>1 DEF AnswerSound, FileSound
<1>5. KeySound(p)'
  BY <1>1 DEF ProgramSound, KeySound
<1>6. RestartSound(p)'
  BY <1>2 DEF RestartSound, Unregistered
<1> QED
  BY <1>3, <1>4, <1>5, <1>6 DEF ProgramSound

\* A program that is not running is sound if its file is.
LEMMA EndsSound ==
    ASSUME NEW p \in Program, ProgramSound(p), IssuedKept,
           pc'[p] = "off", file'[p] = file[p], p \notin unopened'
    PROVE  ProgramSound(p)'
<1>1. InfoSound(p)' /\ AnswerSound(p)' /\ FileSound(p)' /\ RestartSound(p)'
  BY DEF InfoSound, AnswerSound, FileSound, RestartSound, Registering
<1>2. KeySound(p)'
  BY DEF ProgramSound, KeySound, IssuedKept
<1> QED
  BY <1>1, <1>2 DEF ProgramSound

LEMMA AskSound ==
    ASSUME TypeOK, NEW p \in Program, NEW n \in Name, ProgramSound(p), Ask(p, n)
    PROVE  ProgramSound(p)'
<1> USE DEF TypeOK, Goto, server, Ask
<1>1. InfoSound(p)'
  BY DEF ProgramSound, InfoSound, Registering
<1>2. AnswerSound(p)' /\ FileSound(p)' /\ RestartSound(p)'
  BY DEF AnswerSound, FileSound, RestartSound
<1>3. KeySound(p)'
  BY DEF ProgramSound, KeySound
<1> QED
  BY <1>1, <1>2, <1>3 DEF ProgramSound

LEMMA ServeSound ==
    ASSUME TypeOK, NEW p \in Program, ProgramSound(p), Serve(p)
    PROVE  ProgramSound(p)'
<1> USE DEF TypeOK, Goto, server
<1>1. RequestOf(p) \in RegistrationRequest
  BY RequestOfType DEF Serve, Registering, ProgramSound
<1>2. IssuedKept /\ Len(issued) + 1 \in DOMAIN issued'
      /\ issued'[Len(issued) + 1] = RequestOf(p)
  BY <1>1, StoreAppends DEF Serve, IssuedKept
<1>3. /\ pc[p] = "sent" /\ pc'[p] = "answered" /\ answer'[p] = Len(issued) + 1
      /\ UNCHANGED <<file, info, typed, unopened>>
  BY DEF Serve
<1>4. InfoSound(p)'
  BY <1>3 DEF ProgramSound, InfoSound, Registering
<1>5. AnswerSound(p)'
  BY <1>2, <1>3 DEF AnswerSound, RequestOf
<1>6. FileSound(p)' /\ RestartSound(p)'
  BY <1>3 DEF FileSound, RestartSound
<1>7. KeySound(p)'
  BY <1>2, <1>3 DEF ProgramSound, KeySound, IssuedKept
<1> QED
  BY <1>4, <1>5, <1>6, <1>7 DEF ProgramSound

LEMMA OpenFileSound ==
    ASSUME TypeOK, NEW p \in Program, ProgramSound(p), OpenFile(p)
    PROVE  ProgramSound(p)'
<1> USE DEF TypeOK, Goto, server
<1>1. /\ pc[p] = "answered" /\ pc'[p] = "write" /\ file'[p] = NoFile
      /\ p \notin unopened'
      /\ UNCHANGED <<info, typed, answer, issued>>
  BY DEF OpenFile
<1>2. InfoSound(p)' /\ AnswerSound(p)'
  BY <1>1 DEF ProgramSound, InfoSound, AnswerSound, RequestOf, Registering
<1>3. FileSound(p)' /\ KeySound(p)' /\ RestartSound(p)'
  BY <1>1 DEF FileSound, KeySound, RestartSound, NoFile
<1> QED
  BY <1>2, <1>3 DEF ProgramSound

\* While it writes, an identifier in its file is the one it was told, the name
\* before it is the one it typed, and the key after it its own.
LEMMA WriteSound ==
    ASSUME TypeOK, NEW p \in Program, ProgramSound(p), pc[p] = "write",
           WriteUsername(p) \/ WriteUuid(p) \/ WritePrivateKey(p) \/ WriteFails(p)
    PROVE  ProgramSound(p)'
<1> USE DEF TypeOK, Goto, server
<1>1. /\ pc'[p] \in {"write", "close"}
      /\ UNCHANGED <<info, typed, answer, issued, unopened>>
  BY DEF WriteUsername, WriteUuid, WritePrivateKey, WriteFails
<1>2. /\ ~info[p].isRegistered /\ typed[p] \in Name
      /\ answer[p] \in DOMAIN issued /\ issued[answer[p]] = RequestOf(p)
      /\ file[p].username \in {Unset, typed[p]}
      /\ file[p].uuid \in {Unset, answer[p]}
      /\ file[p].privateKey \in {Unset, info[p].privateKey}
  BY DEF ProgramSound, InfoSound, AnswerSound, FileSound, Registering
<1>3. InfoSound(p)' /\ AnswerSound(p)' /\ RestartSound(p)'
  BY <1>1, <1>2 DEF ProgramSound, InfoSound, AnswerSound, RestartSound, RequestOf, Registering
<1>4. /\ file'[p].username \in {Unset, typed[p]}
      /\ file'[p].uuid \in {Unset, answer[p]}
      /\ file'[p].privateKey \in {Unset, info[p].privateKey}
  BY <1>2 DEF WriteUsername, WriteUuid, WritePrivateKey, WriteFails
<1>5. FileSound(p)'
  BY <1>1, <1>4 DEF FileSound
<1>6. file'[p].uuid # Unset => file'[p].username = typed[p]
  BY <1>2, RegistrationAssumption
  DEF WriteUsername, WriteUuid, WritePrivateKey, WriteFails, ProgramSound, KeySound,
      RequestOf
<1>7. KeySound(p)'
  BY <1>1, <1>2, <1>4, <1>6 DEF KeySound, RequestOf
<1> QED
  BY <1>3, <1>5, <1>7 DEF ProgramSound

\* The object is filled from the file alone: its identifier was empty, and where
\* the file has an identifier it has a name.
LEMMA ReloadSound ==
    ASSUME TypeOK, NEW p \in Program, ProgramSound(p), Reload(p)
    PROVE  ProgramSound(p)'
<1> USE DEF TypeOK, server
<1>1. /\ pc[p] = "close" /\ pc'[p] = "menu" /\ info'[p] \in ReloadFrom(file[p], info[p])
      /\ UNCHANGED <<file, issued, unopened>>
  BY DEF Reload, BackToMenu
<1>2. InfoSound(p)' /\ AnswerSound(p)' /\ FileSound(p)'
  BY <1>1 DEF ProgramSound, InfoSound, AnswerSound, FileSound, ReloadFrom, Registering
<1>3. KeySound(p)'
  BY <1>1 DEF ProgramSound, KeySound
<1>4. info[p].uuid = Unset
  BY <1>1 DEF ProgramSound, InfoSound, Registering
<1>5. ASSUME file[p].uuid # Unset
      PROVE  file[p].username # Unset
  <2>1. issued[file[p].uuid] \in RegistrationRequest
    BY <1>5 DEF ProgramSound, KeySound
  <2> QED
    BY <1>5, <2>1, RegistrationAssumption DEF ProgramSound, KeySound, RegistrationRequest
<1>6. RestartSound(p)'
  <2>1. CASE file[p].uuid = Unset
    <3>1. info'[p].uuid = Unset
      BY <1>1, <1>4, <2>1 DEF ReloadFrom
    <3> QED
      BY <3>1 DEF RestartSound
  <2>2. CASE file[p].uuid # Unset
    <3>1. ReloadFrom(file[p], info[p]) = {ReadFromFile(file[p])}
      BY <1>5, <2>2 DEF ReloadFrom, ReadFromFile
    <3>2. ReadFromFile(file[p])' = ReadFromFile(file[p])
      BY <1>1 DEF ReadFromFile
    <3> QED
      BY <1>1, <3>1, <3>2 DEF RestartSound
  <2> QED
    BY <2>1, <2>2
<1> QED
  BY <1>2, <1>3, <1>6 DEF ProgramSound

\* A reload that throws leaves a program without an identifier, one that cannot
\* open the file an unregistered one.
LEMMA ReloadEndsSound ==
    ASSUME TypeOK, NEW p \in Program, ProgramSound(p), ReloadThrows(p) \/ ReloadFails(p)
    PROVE  ProgramSound(p)'
<1> USE DEF TypeOK, server
<1>1. /\ pc[p] = "close" /\ pc'[p] = "menu"
      /\ UNCHANGED <<file, issued>>
  BY DEF ReloadThrows, ReloadFails, BackToMenu
<1>2. \/ info'[p].isRegistered /\ info'[p].uuid = Unset /\ unopened' = unopened
      \/ /\ ~info'[p].isRegistered /\ p \in unopened'
         /\ info'[p].uuid = info[p].uuid /\ info'[p].privateKey = info[p].privateKey
  BY DEF ReloadThrows, ReloadFails, MyInfo
<1>3. InfoSound(p)'
  BY <1>1, <1>2 DEF ProgramSound, InfoSound, Registering
<1>4. AnswerSound(p)' /\ FileSound(p)' /\ RestartSound(p)'
  BY <1>1, <1>2 DEF AnswerSound, FileSound, RestartSound
<1>5. KeySound(p)'
  BY <1>1 DEF ProgramSound, KeySound
<1> QED
  BY <1>3, <1>4, <1>5 DEF ProgramSound

\* The server's restart ends the registrations it had not answered.
LEMMA RestartKeeps ==
    ASSUME TypeOK, NEW p \in Program, ProgramSound(p), ServerRestart
    PROVE  ProgramSound(p)'
<1> USE DEF TypeOK
<1>1. UNCHANGED <<file, info, answer, issued, unopened>>
  BY DEF ServerRestart
<1>2. CASE pc[p] = "sent"
  <2>1. pc'[p] = "menu"
    BY <1>2 DEF ServerRestart
  <2>2. InfoSound(p)' /\ AnswerSound(p)' /\ FileSound(p)' /\ RestartSound(p)'
    BY <1>1, <1>2, <2>1
    DEF ProgramSound, InfoSound, AnswerSound, FileSound, RestartSound, Registering
  <2>3. KeySound(p)'
    BY <1>1 DEF ProgramSound, KeySound
  <2> QED
    BY <2>2, <2>3 DEF ProgramSound
<1>3. CASE pc[p] # "sent"
  <2>1. pc'[p] = pc[p] /\ typed'[p] = typed[p]
    BY <1>3 DEF ServerRestart
  <2> QED
    BY <1>1, <2>1, OthersMove DEF IssuedKept
<1> QED
  BY <1>2, <1>3

-------------------------------------------------------------------------------
(* Names are lost to faults only. *)

\* One step leaves the identifiers in the files as they are: only a program that has
\* none, or could not read it, empties its file, and only an empty place is written.
LEMMA IdentifierStep ==
    ASSUME TypeOK, [Next]_vars, NEW p \in Program, InfoSound(p), file[p].uuid # Unset,
           p \in unopened => ~OpenFile(p)
    PROVE  file'[p].uuid = file[p].uuid
<1> USE DEF TypeOK, server
<1>2. CASE file' = file
  BY <1>2
<1>3. ASSUME NEW q \in Program, q # p,
             OpenFile(q) \/ WriteUsername(q) \/ WriteUuid(q) \/ WritePrivateKey(q)
      PROVE  file'[p].uuid = file[p].uuid
  BY <1>3 DEF OpenFile, WriteUsername, WriteUuid, WritePrivateKey
<1>4. CASE WriteUsername(p) \/ WriteUuid(p) \/ WritePrivateKey(p)
  BY <1>4 DEF WriteUsername, WriteUuid, WritePrivateKey
<1>5. ~OpenFile(p)
  BY DEF OpenFile, Goto, InfoSound, Registering
<1> QED
  BY <1>2, <1>3, <1>4, <1>5
  DEF Next, vars, Start, StartUnread, Quit, Ask, Serve, Refuse, CannotCreate, WriteFails,
      Reload, ReloadThrows, ReloadFails, Crash, ConnectionLost, ServeOrphan, ServerRestart

\* A set that gains at most one element.
LEMMA OneMore ==
    ASSUME NEW S, IsFiniteSet(S), NEW x, NEW T, T \subseteq S \cup {x}
    PROVE  /\ IsFiniteSet(T) /\ Cardinality(S) \in Nat /\ Cardinality(T) \in Nat
           /\ Cardinality(T) <= Cardinality(S) + 1
<1>1. /\ IsFiniteSet(S \cup {x})
      /\ Cardinality(S \cup {x}) = IF x \in S THEN Cardinality(S) ELSE Cardinality(S) + 1
  BY FS_AddElement
<1>2. Cardinality(S) \in Nat /\ Cardinality(S \cup {x}) \in Nat
  BY <1>1, FS_CardinalityType
<1>3. IsFiniteSet(T) /\ Cardinality(T) <= Cardinality(S \cup {x})
  BY <1>1, FS_Subset
<1>4. Cardinality(T) \in Nat
  BY <1>3, FS_CardinalityType
<1> QED
  BY <1>1, <1>2, <1>3, <1>4

\* A set that gains nothing.
LEMMA NoneMore ==
    ASSUME NEW S, IsFiniteSet(S), NEW T, T \subseteq S
    PROVE  /\ IsFiniteSet(T) /\ Cardinality(S) \in Nat /\ Cardinality(T) \in Nat
           /\ Cardinality(T) <= Cardinality(S)
<1>1. IsFiniteSet(T) /\ Cardinality(T) <= Cardinality(S)
  BY FS_Subset
<1> QED
  BY <1>1, FS_CardinalityType

\* A set that loses one element.
LEMMA OneLess ==
    ASSUME NEW S, IsFiniteSet(S), NEW x \in S, NEW T, T \subseteq S \ {x}
    PROVE  /\ IsFiniteSet(T) /\ Cardinality(S) \in Nat /\ Cardinality(T) \in Nat
           /\ Cardinality(T) + 1 <= Cardinality(S)
<1>1. IsFiniteSet(S \ {x}) /\ Cardinality(S \ {x}) = Cardinality(S) - 1
  BY FS_RemoveElement
<1>2. IsFiniteSet(T) /\ Cardinality(T) <= Cardinality(S \ {x})
  BY <1>1, FS_Subset
<1>3. Cardinality(T) \in Nat /\ Cardinality(S) \in Nat
  BY <1>2, FS_CardinalityType
<1> QED
  BY <1>1, <1>2, <1>3

LEMMA LostFinite ==
    ASSUME TypeOK
    PROVE  IsFiniteSet(Lost)
<1>1. IsFiniteSet(1..Len(issued))
  <2>1. Len(issued) \in Int /\ 1 \in Int
    BY DEF TypeOK
  <2> QED
    BY <2>1, FS_Interval
<1>2. Lost \subseteq 1..Len(issued)
  BY DEF TypeOK, Lost
<1> QED
  BY <1>1, <1>2, FS_Subset

\* Users who were not lost and are held, in the same place or in another one of the
\* same program, are not lost.
LEMMA LostGrows ==
    ASSUME TypeOK, NEW x,
           \A u \in users' : u \in users \/ u = x \/ u \in Held',
           \A p \in Program :
             answer[p] \notin {x, Unset} => answer[p] \in {answer'[p], file'[p].uuid},
           \A p \in Program :
             file[p].uuid \notin {x, Unset} => file'[p].uuid = file[p].uuid
    PROVE  Lost' \subseteq Lost \cup {x}
<1> SUFFICES ASSUME NEW u, u \in Lost', u # x
             PROVE  u \in Lost
  OBVIOUS
<1>1. u \in users' /\ u \notin Held'
  BY DEF Lost
<1>2. u \in users
  BY <1>1
<1>3. u # Unset
  BY <1>2, RegistrationAssumption DEF TypeOK
<1>4. u \notin Held
  BY <1>1, <1>3 DEF Held
<1> QED
  BY <1>2, <1>4 DEF Lost

LEMMA LostKept ==
    ASSUME TypeOK, TypeOK',
           \A u \in users' : u \in users \/ u \in Held',
           \A p \in Program : answer[p] # Unset => answer[p] \in {answer'[p], file'[p].uuid},
           \A p \in Program : file[p].uuid # Unset => file'[p].uuid = file[p].uuid
    PROVE  Lost' \subseteq Lost
<1>1. Lost' \subseteq Lost \cup {Unset}
  BY LostGrows
<1>2. Unset \notin Lost'
  BY RegistrationAssumption DEF TypeOK, Lost
<1> QED
  BY <1>1, <1>2

\* What Counted says of the numbers.
Tally ==
    /\ IsFiniteSet(orphans)
    /\ IsFiniteSet(Unwritten)
    /\ IsFiniteSet(unopened)
    /\ Cardinality(Lost) + Cardinality(orphans) + Cardinality(Unwritten)
         + Cardinality(unopened) <= faults

\* The numbers that are counted, before and after a step that adds at most one
\* element to each set.
LEMMA Numbers ==
    ASSUME TypeOK, TypeOK', Tally,
           NEW x, Lost' \subseteq Lost \cup {x},
           NEW r, orphans' \subseteq orphans \cup {r},
           NEW p, Unwritten' \subseteq Unwritten \cup {p},
           NEW q, unopened' \subseteq unopened \cup {q}
    PROVE  /\ IsFiniteSet(orphans') /\ IsFiniteSet(Unwritten') /\ IsFiniteSet(unopened')
           /\ Cardinality(Lost) \in Nat /\ Cardinality(Lost') \in Nat
           /\ Cardinality(orphans) \in Nat /\ Cardinality(orphans') \in Nat
           /\ Cardinality(Unwritten) \in Nat /\ Cardinality(Unwritten') \in Nat
           /\ Cardinality(unopened) \in Nat /\ Cardinality(unopened') \in Nat
           /\ faults \in Nat /\ faults' \in Nat
           /\ Cardinality(Lost') <= Cardinality(Lost) + 1
           /\ Cardinality(orphans') <= Cardinality(orphans) + 1
           /\ Cardinality(Unwritten') <= Cardinality(Unwritten) + 1
           /\ Cardinality(unopened') <= Cardinality(unopened) + 1
           /\ Lost' \subseteq Lost => Cardinality(Lost') <= Cardinality(Lost)
           /\ orphans' \subseteq orphans => Cardinality(orphans') <= Cardinality(orphans)
           /\ Unwritten' \subseteq Unwritten =>
                Cardinality(Unwritten') <= Cardinality(Unwritten)
           /\ unopened' \subseteq unopened => Cardinality(unopened') <= Cardinality(unopened)
           /\ r \in orphans /\ orphans' \subseteq orphans \ {r} =>
                Cardinality(orphans') + 1 <= Cardinality(orphans)
           /\ p \in Unwritten /\ Unwritten' \subseteq Unwritten \ {p} =>
                Cardinality(Unwritten') + 1 <= Cardinality(Unwritten)
           /\ q \in unopened /\ unopened' \subseteq unopened \ {q} =>
                Cardinality(unopened') + 1 <= Cardinality(unopened)
<1>1. /\ Cardinality(Lost) \in Nat /\ Cardinality(Lost') \in Nat
      /\ Cardinality(Lost') <= Cardinality(Lost) + 1
      /\ Lost' \subseteq Lost => Cardinality(Lost') <= Cardinality(Lost)
  BY LostFinite, OneMore, NoneMore
<1>2. /\ IsFiniteSet(orphans') /\ Cardinality(orphans) \in Nat
      /\ Cardinality(orphans') \in Nat /\ Cardinality(orphans') <= Cardinality(orphans) + 1
      /\ orphans' \subseteq orphans => Cardinality(orphans') <= Cardinality(orphans)
      /\ r \in orphans /\ orphans' \subseteq orphans \ {r} =>
           Cardinality(orphans') + 1 <= Cardinality(orphans)
  BY OneMore, NoneMore, OneLess DEF Tally
<1>3. /\ IsFiniteSet(Unwritten') /\ Cardinality(Unwritten) \in Nat
      /\ Cardinality(Unwritten') \in Nat
      /\ Cardinality(Unwritten') <= Cardinality(Unwritten) + 1
      /\ Unwritten' \subseteq Unwritten => Cardinality(Unwritten') <= Cardinality(Unwritten)
      /\ p \in Unwritten /\ Unwritten' \subseteq Unwritten \ {p} =>
           Cardinality(Unwritten') + 1 <= Cardinality(Unwritten)
  BY OneMore, NoneMore, OneLess DEF Tally
<1>4. /\ IsFiniteSet(unopened') /\ Cardinality(unopened) \in Nat
      /\ Cardinality(unopened') \in Nat
      /\ Cardinality(unopened') <= Cardinality(unopened) + 1
      /\ unopened' \subseteq unopened => Cardinality(unopened') <= Cardinality(unopened)
      /\ q \in unopened /\ unopened' \subseteq unopened \ {q} =>
           Cardinality(unopened') + 1 <= Cardinality(unopened)
  BY OneMore, NoneMore, OneLess DEF Tally
<1>5. faults \in Nat /\ faults' \in Nat
  BY DEF TypeOK
<1> QED
  BY <1>1, <1>2, <1>3, <1>4, <1>5

LEMMA TallyKept ==
    ASSUME TypeOK, TypeOK', Tally, faults <= faults',
           Lost' \subseteq Lost, orphans' \subseteq orphans, Unwritten' \subseteq Unwritten,
           unopened' \subseteq unopened
    PROVE  Tally'
BY Numbers DEF Tally

\* A fault pays for one identifier, request or program more.
LEMMA TallyFault ==
    ASSUME TypeOK, TypeOK', Tally, faults' = faults + 1,
           NEW x, Lost' \subseteq Lost \cup {x},
           NEW r, orphans' \subseteq orphans \cup {r},
           NEW p, Unwritten' \subseteq Unwritten \cup {p},
           NEW q, unopened' \subseteq unopened \cup {q},
           \/ /\ orphans' \subseteq orphans /\ Unwritten' \subseteq Unwritten
              /\ unopened' \subseteq unopened
           \/ /\ Lost' \subseteq Lost /\ Unwritten' \subseteq Unwritten
              /\ unopened' \subseteq unopened
           \/ /\ Lost' \subseteq Lost /\ orphans' \subseteq orphans
              /\ unopened' \subseteq unopened
           \/ /\ Lost' \subseteq Lost /\ orphans' \subseteq orphans
              /\ Unwritten' \subseteq Unwritten
    PROVE  Tally'
BY Numbers DEF Tally

\* An orphan that is served, a program that forgets its answer and one that empties
\* the file it could not read were paid for.
LEMMA TallyPaid ==
    ASSUME TypeOK, TypeOK', Tally, faults' = faults,
           NEW x, Lost' \subseteq Lost \cup {x}, NEW r, NEW p, NEW q,
           \/ /\ r \in orphans /\ orphans' \subseteq orphans \ {r}
              /\ Unwritten' \subseteq Unwritten /\ unopened' \subseteq unopened
           \/ /\ p \in Unwritten /\ Unwritten' \subseteq Unwritten \ {p}
              /\ orphans' \subseteq orphans /\ unopened' \subseteq unopened
           \/ /\ q \in unopened /\ unopened' \subseteq unopened \ {q}
              /\ orphans' \subseteq orphans /\ Unwritten' \subseteq Unwritten
    PROVE  Tally'
BY Numbers DEF Tally

\* Only a program that was answered has an answer.
Untold(p) == pc[p] \in {"off", "menu", "sent"} => answer[p] = Unset

LEMMA UntoldNext ==
    ASSUME TypeOK, [Next]_vars, NEW p \in Program, Untold(p)
    PROVE  Untold(p)'
<1> USE DEF TypeOK, Untold, Goto, server
<1>1. CASE UNCHANGED vars \/ ServerRestart \/ \E r \in orphans : ServeOrphan(r)
  BY <1>1 DEF vars, ServerRestart, ServeOrphan
<1>2. ASSUME NEW q \in Program,
             Start(q) \/ StartUnread(q) \/ Quit(q) \/ (\E n \in Name : Ask(q, n)) \/ OpenFile(q)
               \/ WriteUsername(q) \/ WriteUuid(q) \/ WritePrivateKey(q) \/ WriteFails(q)
      PROVE  Untold(p)'
  BY <1>2 DEF Start, StartUnread, Quit, Ask, OpenFile, WriteUsername, WriteUuid, WritePrivateKey, WriteFails
<1>3. ASSUME NEW q \in Program, Serve(q)
      PROVE  Untold(p)'
  BY <1>3 DEF Serve
<1>4. ASSUME NEW q \in Program,
             Refuse(q) \/ CannotCreate(q) \/ Reload(q) \/ ReloadThrows(q) \/ ReloadFails(q)
               \/ Crash(q) \/ ConnectionLost(q)
      PROVE  Untold(p)'
  BY <1>4
  DEF Refuse, CannotCreate, Reload, ReloadThrows, ReloadFails, Crash, ConnectionLost, BackToMenu
<1> QED
  BY <1>1, <1>2, <1>3, <1>4 DEF Next

\* No step but these ends what is counted.
LEMMA UnwrittenKept ==
    ASSUME TypeOK, [Next]_vars, NEW q \in Program, q \in Unwritten', q \notin Unwritten
    PROVE  WriteFails(q)
<1> USE DEF TypeOK, Unwritten, Goto, server
<1>1. ~(UNCHANGED vars \/ ServerRestart \/ \E r \in orphans : ServeOrphan(r))
  BY DEF vars, ServerRestart, ServeOrphan
<1>2. ASSUME NEW p \in Program,
             Start(p) \/ StartUnread(p) \/ Quit(p) \/ (\E n \in Name : Ask(p, n)) \/ Serve(p)
               \/ OpenFile(p)
      PROVE  FALSE
  BY <1>2 DEF Start, StartUnread, Quit, Ask, Serve, OpenFile, NoFile
<1>3. ASSUME NEW p \in Program,
             Refuse(p) \/ CannotCreate(p) \/ Reload(p) \/ ReloadThrows(p) \/ ReloadFails(p)
               \/ Crash(p) \/ ConnectionLost(p)
      PROVE  FALSE
  BY <1>3
  DEF Refuse, CannotCreate, Reload, ReloadThrows, ReloadFails, Crash, ConnectionLost, BackToMenu
<1>4. ASSUME NEW p \in Program, WriteFails(p), p # q
      PROVE  FALSE
  BY <1>4 DEF WriteFails
<1>5. ASSUME NEW p \in Program, WriteUsername(p) \/ WriteUuid(p)
      PROVE  FALSE
  <2>1. pc' = pc /\ pc[p] = "write"
    BY <1>5 DEF WriteUsername, WriteUuid
  <2>2. p # q => file'[q] = file[q]
    BY <1>5 DEF WriteUsername, WriteUuid
  <2> QED
    BY <2>1, <2>2
<1>6. ASSUME NEW p \in Program, WritePrivateKey(p)
      PROVE  FALSE
  BY <1>6 DEF WritePrivateKey
<1> QED
  BY <1>1, <1>2, <1>3, <1>4, <1>5, <1>6 DEF Next

LEMMA CountedNext ==
    ASSUME TypeOK, TypeOK', Counted, \A p \in Program : ProgramSound(p), [Next]_vars
    PROVE  Counted'
<1>1. \A p \in Program : InfoSound(p) /\ FileSound(p) /\ Untold(p) /\ Untold(p)'
  BY UntoldNext DEF ProgramSound, Counted, Untold
<1>2. Tally
  BY DEF Counted, Tally
<1>3. SUFFICES Tally'
  BY <1>1 DEF Counted, Tally, Untold
<1>4. ASSUME \A p \in Program : ~WriteFails(p)
      PROVE  Unwritten' \subseteq Unwritten
  BY <1>4, UnwrittenKept DEF Unwritten
<1>5. faults' = faults => Unwritten' \subseteq Unwritten
  BY <1>4 DEF WriteFails, Fault, TypeOK
<1>6. CASE UNCHANGED vars
  <2>1. UNCHANGED <<Lost, orphans, Unwritten, unopened, faults>>
    BY <1>6 DEF vars, Lost, Held, Unwritten
  <2> QED
    BY <1>2, <2>1 DEF Tally
<1>7. ASSUME NEW p \in Program,
             Start(p) \/ Quit(p) \/ (\E n \in Name : Ask(p, n)) \/ Refuse(p)
               \/ WriteUsername(p) \/ WriteUuid(p) \/ WritePrivateKey(p)
      PROVE  Tally'
  <2>1. UNCHANGED <<users, orphans, faults>> /\ unopened' \subseteq unopened
    BY <1>7 DEF Start, Quit, Ask, Refuse, WriteUsername, WriteUuid, WritePrivateKey, server
  <2>2. ASSUME NEW q \in Program, answer[q] # Unset
        PROVE  answer'[q] = answer[q]
    <3>1. CASE Refuse(p)
      BY <1>1, <2>2, <3>1 DEF Refuse, BackToMenu, Untold, TypeOK
    <3> QED
      BY <1>7, <3>1 DEF Start, Quit, Ask, WriteUsername, WriteUuid, WritePrivateKey
  <2>3. ASSUME NEW q \in Program, file[q].uuid # Unset
        PROVE  file'[q].uuid = file[q].uuid
    <3>1. ~OpenFile(q)
      BY <1>7, <2>3
      DEF Start, Quit, Ask, Refuse, WriteUsername, WriteUuid, WritePrivateKey, OpenFile,
          BackToMenu, Goto, NoFile, TypeOK
    <3> QED
      BY <1>1, <2>3, <3>1, IdentifierStep
  <2>4. Lost' \subseteq Lost
    BY <2>1, <2>2, <2>3, LostKept
  <2>5. faults \in Nat
    BY DEF TypeOK
  <2> QED
    BY <1>2, <1>5, <2>1, <2>4, <2>5, TallyKept
<1>8. ASSUME NEW p \in Program, Serve(p)
      PROVE  Tally'
  <2>1. /\ UNCHANGED <<file, orphans, unopened, faults>>
        /\ users' = users \cup {answer'[p]}
        /\ \A q \in Program : q # p => answer'[q] = answer[q]
        /\ answer[p] = Unset
    BY <1>1, <1>8 DEF Serve, Store, Goto, Untold, TypeOK
  <2>2. Lost' \subseteq Lost
    BY <1>1, <2>1, LostKept DEF Held
  <2>3. faults \in Nat
    BY DEF TypeOK
  <2> QED
    BY <1>2, <1>5, <2>1, <2>2, <2>3, TallyKept
<1>9. ASSUME NEW r \in orphans, ServeOrphan(r)
      PROVE  Tally'
  <2>1. /\ UNCHANGED <<file, answer, unopened, faults>>
        /\ orphans' = orphans \ {r}
    BY <1>9 DEF ServeOrphan
  <2>2. PICK u : users' = users \cup {u}
    BY <1>9 DEF ServeOrphan, Store
  <2>3. Lost' \subseteq Lost \cup {u}
    BY <1>1, <2>1, <2>2, LostGrows
  <2> QED
    BY <1>2, <1>5, <2>1, <2>3, TallyPaid
<1>10. ASSUME NEW p \in Program, CannotCreate(p) \/ Crash(p) \/ ConnectionLost(p)
       PROVE  Tally'
  <2>1. PICK a, r : a = answer[p] /\ r = RequestOf(p)
    OBVIOUS
  <2>2. /\ UNCHANGED <<file, users>> /\ faults' = faults + 1
        /\ \A q \in Program : q # p => answer'[q] = answer[q]
        /\ pc'[p] \in {"menu", "off"} /\ pc[p] \in Registering
        /\ orphans' \subseteq orphans \cup {r}
        /\ pc[p] # "sent" => orphans' = orphans
        /\ unopened' \subseteq unopened
    BY <1>10, <2>1
    DEF CannotCreate, Crash, ConnectionLost, BackToMenu, Fault, Orphaned, Registering, server,
        TypeOK
  <2>3. ASSUME NEW q \in Program
        PROVE  ~WriteFails(q)
    BY <2>2 DEF WriteFails, Goto, Registering, TypeOK
  <2>4. Unwritten' \subseteq Unwritten
    BY <1>4, <2>3
  <2>5. Lost' \subseteq Lost \cup {a}
    BY <1>1, <2>1, <2>2, LostGrows
  <2>6. CASE pc[p] = "sent"
    <3>1. a = Unset
      BY <1>1, <2>1, <2>6 DEF Untold
    <3>2. Lost' \subseteq Lost
      BY <1>1, <2>1, <2>2, <3>1, LostKept
    <3> QED
      BY <1>2, <2>2, <2>4, <2>5, <3>2, TallyFault
  <2>7. CASE pc[p] # "sent"
    BY <1>2, <2>2, <2>4, <2>5, <2>7, TallyFault
  <2> QED
    BY <2>6, <2>7
<1>11. ASSUME NEW p \in Program, WriteFails(p)
       PROVE  Tally'
  <2>1. UNCHANGED <<file, users, answer, orphans, unopened>> /\ faults' = faults + 1
    BY <1>11 DEF WriteFails, Fault, server
  <2>2. Lost' \subseteq Lost
    BY <1>1, <2>1, LostKept
  <2>3. Unwritten' \subseteq Unwritten \cup {p}
    BY <1>11 DEF WriteFails, Goto, Unwritten, TypeOK
  <2> QED
    BY <1>2, <2>1, <2>2, <2>3, TallyFault
<1>12. ASSUME NEW p \in Program, Reload(p) \/ ReloadThrows(p) \/ ReloadFails(p)
       PROVE  Tally'
  <2>1. PICK a : a = answer[p]
    OBVIOUS
  <2>2. /\ UNCHANGED <<file, users, orphans>>
        /\ \A q \in Program : q # p => answer'[q] = answer[q]
        /\ pc[p] = "close" /\ pc'[p] = "menu"
        /\ \/ UNCHANGED <<faults, unopened>>
           \/ faults' = faults + 1 /\ unopened' = unopened \cup {p}
    BY <1>12
    DEF Reload, ReloadThrows, ReloadFails, BackToMenu, Fault, server, TypeOK
  <2>3. Unwritten' \subseteq Unwritten \ {p}
    <3>1. ASSUME NEW q \in Program
          PROVE  ~WriteFails(q)
      BY <2>2 DEF WriteFails, Goto, TypeOK
    <3>2. p \notin Unwritten'
      BY <2>2 DEF Unwritten
    <3> QED
      BY <1>4, <3>1, <3>2
  <2>4. CASE file[p].uuid = Unset
    <3>1. Lost' \subseteq Lost \cup {a}
      BY <2>1, <2>2, LostGrows
    <3>2. p \in Unwritten
      BY <2>2, <2>4 DEF Unwritten
    <3> QED
      BY <1>2, <2>2, <2>3, <3>1, <3>2, Numbers DEF Tally
  <2>5. CASE file[p].uuid # Unset
    <3>1. file[p].uuid = a
      BY <1>1, <2>1, <2>2, <2>5 DEF FileSound
    <3>2. Lost' \subseteq Lost
      BY <2>1, <2>2, <3>1, LostKept
    <3> QED
      BY <1>2, <2>2, <2>3, <3>2, Numbers DEF Tally
  <2> QED
    BY <2>4, <2>5
<1>13. CASE ServerRestart
  <2>1. users' = {} /\ orphans' = {} /\ faults' = faults + 1 /\ unopened' = unopened
    BY <1>13 DEF ServerRestart, Fault
  <2>2. Lost' \subseteq Lost
    BY <2>1 DEF Lost
  <2>3. ASSUME NEW q \in Program
        PROVE  ~WriteFails(q)
    BY <1>13 DEF ServerRestart, WriteFails, Goto, TypeOK
  <2>4. Unwritten' \subseteq Unwritten
    BY <1>4, <2>3
  <2>5. faults \in Nat
    BY DEF TypeOK
  <2> QED
    BY <1>2, <2>1, <2>2, <2>4, <2>5, TallyKept
<1>14. ASSUME NEW p \in Program, OpenFile(p)
       PROVE  Tally'
  <2>1. PICK u : u = file[p].uuid
    OBVIOUS
  <2>2. /\ UNCHANGED <<users, orphans, answer, faults>>
        /\ \A q \in Program : q # p => file'[q] = file[q]
        /\ unopened' = unopened \ {p}
        /\ pc[p] = "answered"
    BY <1>14 DEF OpenFile, Goto, server, TypeOK
  <2>3. Unwritten' \subseteq Unwritten
    BY <1>5, <2>2
  <2>4. CASE p \in unopened
    <3>1. Lost' \subseteq Lost \cup {u}
      BY <2>1, <2>2, LostGrows
    <3> QED
      BY <1>2, <2>2, <2>3, <2>4, <3>1, TallyPaid
  <2>5. CASE p \notin unopened
    <3>1. u = Unset
      BY <1>1, <2>1, <2>2, <2>5 DEF InfoSound, Registering
    <3>2. Lost' \subseteq Lost
      BY <2>1, <2>2, <3>1, LostKept
    <3>3. faults \in Nat
      BY DEF TypeOK
    <3> QED
      BY <1>2, <2>2, <2>3, <3>2, <3>3, TallyKept
  <2> QED
    BY <2>4, <2>5
<1>15. ASSUME NEW p \in Program, StartUnread(p)
       PROVE  Tally'
  <2>1. /\ UNCHANGED <<file, users, answer, orphans>> /\ faults' = faults + 1
        /\ unopened' = unopened \cup {p} /\ pc[p] = "off"
    BY <1>15 DEF StartUnread, Goto, Fault, server
  <2>2. Lost' \subseteq Lost
    BY <2>1, LostKept
  <2>3. ASSUME NEW q \in Program
        PROVE  ~WriteFails(q)
    BY <1>15 DEF StartUnread, WriteFails, Goto, TypeOK
  <2>4. Unwritten' \subseteq Unwritten
    BY <1>4, <2>3
  <2> QED
    BY <1>2, <2>1, <2>2, <2>4, TallyFault
<1> QED
  BY <1>6, <1>7, <1>8, <1>9, <1>10, <1>11, <1>12, <1>13, <1>14, <1>15 DEF Next

-------------------------------------------------------------------------------
(* The invariant holds initially, and every step keeps it. *)

LEMMA InvInit == Init => RegistrationInv
<1> SUFFICES ASSUME Init
             PROVE  RegistrationInv
  OBVIOUS
<1>1. \A p \in Program : ProgramSound(p)
  BY DEF Init, NoFile, NoInfo, ProgramSound, InfoSound, AnswerSound, FileSound, KeySound,
         RestartSound, Registering
<1>2. Counted
  <2>1. Unwritten = {} /\ Lost = {} /\ orphans = {} /\ unopened = {} /\ faults = 0
    BY DEF Init, Unwritten, Lost
  <2>2. \A p \in Program : answer[p] = Unset
    BY DEF Init
  <2> QED
    BY <2>1, <2>2, FS_EmptySet DEF Counted
<1> QED
  BY <1>1, <1>2, TypeInit, InvByProgram

LEMMA InvNext == RegistrationInv /\ [Next]_vars => RegistrationInv'
<1> SUFFICES ASSUME TypeOK, Counted, \A p \in Program : ProgramSound(p), [Next]_vars
             PROVE  RegistrationInv'
  BY InvByProgram
<1>1. \A p \in Program : InfoSound(p)
  BY DEF ProgramSound
<1>2. TypeOK'
  BY <1>1, TypeNext
<1>3. IssuedKept
  BY <1>1, HistoryGrows
<1>4. ASSUME NEW q \in Program
      PROVE  ProgramSound(q)'
  <2>1. CASE UNCHANGED vars
    BY <1>3, <2>1, OthersMove DEF vars
  <2>2. ASSUME NEW r \in orphans, ServeOrphan(r)
        PROVE  ProgramSound(q)'
    BY <1>3, <2>2, OthersMove DEF ServeOrphan
  <2>3. CASE ServerRestart
    BY <2>3, RestartKeeps
  <2>4. ASSUME NEW p \in Program, p # q,
               \/ Start(p) \/ StartUnread(p) \/ Quit(p) \/ (\E n \in Name : Ask(p, n))
               \/ Serve(p) \/ Refuse(p) \/ OpenFile(p) \/ CannotCreate(p)
               \/ WriteUsername(p) \/ WriteUuid(p) \/ WritePrivateKey(p) \/ WriteFails(p)
               \/ Reload(p) \/ ReloadThrows(p) \/ ReloadFails(p)
               \/ Crash(p) \/ ConnectionLost(p)
        PROVE  ProgramSound(q)'
    <3>1. /\ file'[q] = file[q] /\ info'[q] = info[q] /\ pc'[q] = pc[q]
          /\ typed'[q] = typed[q] /\ answer'[q] = answer[q]
          /\ q \in unopened' <=> q \in unopened
      BY <2>4
      DEF TypeOK, Goto, BackToMenu, Start, StartUnread, Quit, Ask, Serve, Refuse, OpenFile,
          CannotCreate, WriteUsername, WriteUuid, WritePrivateKey, WriteFails, Reload,
          ReloadThrows, ReloadFails, Crash, ConnectionLost
    <3> QED
      BY <1>3, <3>1, OthersMove
  <2>5. CASE Start(q) \/ StartUnread(q) \/ (\E n \in Name : Ask(q, n)) \/ Serve(q)
    BY <2>5, StartSound, StartUnreadSound, AskSound, ServeSound
  <2>6. CASE Quit(q) \/ Crash(q)
    <3>1. pc'[q] = "off" /\ file'[q] = file[q] /\ q \notin unopened'
      BY <2>6 DEF Quit, Crash, Goto, TypeOK
    <3> QED
      BY <1>3, <3>1, EndsSound
  <2>7. CASE Refuse(q) \/ CannotCreate(q) \/ ConnectionLost(q)
    <3>1. BackToMenu(q) /\ pc[q] \in {"sent", "answered"}
          /\ UNCHANGED <<file, info, unopened>>
      BY <2>7 DEF Refuse, CannotCreate, ConnectionLost
    <3> QED
      BY <1>3, <3>1, GivesUp
  <2>8. CASE OpenFile(q) \/ Reload(q) \/ ReloadThrows(q) \/ ReloadFails(q)
    BY <2>8, OpenFileSound, ReloadSound, ReloadEndsSound
  <2>9. CASE WriteUsername(q) \/ WriteUuid(q) \/ WritePrivateKey(q) \/ WriteFails(q)
    <3>1. pc[q] = "write"
      BY <2>9 DEF WriteUsername, WriteUuid, WritePrivateKey, WriteFails, Goto
    <3> QED
      BY <2>9, <3>1, WriteSound
  <2> QED
    BY <2>1, <2>2, <2>3, <2>4, <2>5, <2>6, <2>7, <2>8, <2>9 DEF Next
<1>5. Counted'
  BY <1>2, CountedNext
<1> QED
  BY <1>2, <1>4, <1>5, Zenon
  DEF RegistrationInv, ProgramSound, KeyOfIdentifier, KeySound, SurvivesRestart, RestartSound

\* What the properties rest on holds in every reachable state.
THEOREM RegistrationInvariant == Spec => []RegistrationInv
BY InvInit, InvNext, PTL DEF Spec

-------------------------------------------------------------------------------
(* The properties. *)

\* The files, objects and requests have the types of MyInfo.h and Register.cpp.
THEOREM RegistrationType == Spec => []TypeOK
<1>1. RegistrationInv => TypeOK
  BY DEF RegistrationInv
<1> QED
  BY <1>1, RegistrationInvariant, PTL

\* For any programs and names, an identifier in my.info stands beside the name and
\* private key it was registered with.
THEOREM KeysOfIdentifiers == Spec => []KeyOfIdentifier
<1>1. RegistrationInv => KeyOfIdentifier
  BY DEF RegistrationInv
<1> QED
  BY <1>1, RegistrationInvariant, PTL

\* A registered program with an identifier is what it would be after a restart.
THEOREM RestartSurvived == Spec => []SurvivesRestart
<1>1. RegistrationInv => SurvivesRestart
  BY DEF RegistrationInv
<1> QED
  BY <1>1, RegistrationInvariant, PTL

\* Names are lost, to users no program holds, at most once per fault.
THEOREM NamesLost == Spec => []LostNames
<1>1. RegistrationInv => LostNames
  <2> SUFFICES ASSUME TypeOK, Counted
               PROVE  LostNames
    BY DEF RegistrationInv
  <2>1. Cardinality(Lost) \in Nat
    BY LostFinite, FS_CardinalityType
  <2>2. Cardinality(orphans) \in Nat /\ Cardinality(Unwritten) \in Nat
        /\ Cardinality(unopened) \in Nat
    BY FS_CardinalityType DEF Counted
  <2> QED
    BY <2>1, <2>2 DEF Counted, LostNames, TypeOK
<1> QED
  BY <1>1, RegistrationInvariant, PTL

\* An identifier that reached my.info is never replaced or taken away, but by a
\* program that could not open the file to read it.
THEOREM IdentifiersKept == Spec => IdentifierKept
<1>1. RegistrationInv /\ [Next]_vars =>
        [\A p \in Program :
           (file[p].uuid # Unset /\ p \notin unopened) => file'[p].uuid = file[p].uuid]_vars
  BY IdentifierStep DEF RegistrationInv
<1> QED
  BY <1>1, RegistrationInvariant, PTL DEF Spec, IdentifierKept

===============================================================================
