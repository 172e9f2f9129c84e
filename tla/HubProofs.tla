------------------------------- MODULE HubProofs -------------------------------
(***************************************************************************)
(* Proofs about Hub, for any number of connections, players and rooms.        *)
(***************************************************************************)
EXTENDS Hub, FiniteSetTheorems, TLAPS

USE HubAssumption

(***************************************************************************)
(* Types, in two parts: the connections and the rooms.                       *)
(***************************************************************************)

Arrived == {c \in Clients : pc[c] \notin {"new", "registering"}}

ConnTypeOK ==
    /\ pc \in [Clients -> {"new", "registering", "reading", "sending", "leaving", "gone"}]
    /\ id \in [Clients -> Ids \cup {0}]
    /\ \A c \in Clients : pc[c] # "new" => id[c] \in Ids
    /\ sent \in [Clients -> 0..MaxMessages]
    /\ auth \in [Clients -> BOOLEAN]
    /\ registered = {c \in Clients : pc[c] \in {"reading", "sending", "leaving"}}
    /\ incoming \in Seq(Arrived)
    /\ Len(incoming) <= IncomingCap

RoomTypeOK ==
    /\ playerMap \in [Ids -> Players \cup {NoPlayer}]
    /\ listed \subseteq Codes
    /\ waiting \subseteq listed
    /\ members \in [Codes -> SUBSET Players]
    /\ owner \in [Players -> Clients \cup {NoClient}]

LEMMA TypeParts == HubTypeOK <=> ConnTypeOK /\ RoomTypeOK
BY DEF HubTypeOK, ConnTypeOK, RoomTypeOK, Arrived

\* Who arrives joins those who have arrived.
LEMMA SeqGrows ==
    ASSUME NEW S, NEW T, S \subseteq T, NEW s \in Seq(S) PROVE s \in Seq(T)
OBVIOUS

\* An id drawn from the number of connected clients is one of Ids.
LEMMA DrawnId ==
    ASSUME ConnTypeOK, NEW c \in Clients, pc[c] = "new"
    PROVE  Cardinality(registered) + 1 \in Ids
<1>1. registered \subseteq Clients \ {c}
  BY DEF ConnTypeOK
<1>2. /\ IsFiniteSet(Clients \ {c})
      /\ Cardinality(Clients \ {c}) = Cardinality(Clients) - 1
  BY FS_RemoveElement
<1>3. Cardinality(registered) <= Cardinality(Clients \ {c}) /\ IsFiniteSet(registered)
  BY <1>1, <1>2, FS_Subset
<1>4. Cardinality(registered) \in Nat /\ Cardinality(Clients) \in Nat
  BY <1>3, FS_CardinalityType
<1> QED
  BY <1>2, <1>3, <1>4 DEF Ids

LEMMA TypeInit == Init => HubTypeOK
BY DEF Init, HubTypeOK

(***************************************************************************)
(* What the handlers do to the rooms.                                       *)
(***************************************************************************)

\* What a message or a departure of c may do, and nothing else.
MovesPlayers(c) ==
    HandleCreateRoom(c) \/ HandleJoinRoom(c) \/ HandleRandomJoin(c) \/ RemovePlayer(c)

LEMMA RoomTypeMoves ==
    ASSUME RoomTypeOK, NEW c \in Clients, id[c] \in Ids, MovesPlayers(c) PROVE RoomTypeOK'
<1> USE DEF RoomTypeOK
<1>1. CASE HandleCreateRoom(c)
  BY <1>1 DEF HandleCreateRoom, Seat, GenerateCode
<1>2. CASE HandleJoinRoom(c)
  BY <1>2 DEF HandleJoinRoom, Seat
<1>3. CASE HandleRandomJoin(c)
  BY <1>3 DEF HandleRandomJoin, Available, Seat
<1>4. CASE RemovePlayer(c)
  BY <1>4 DEF RemovePlayer, Vacate
<1> QED
  BY <1>1, <1>2, <1>3, <1>4 DEF MovesPlayers

LEMMA RoomTypeTurn == RoomTypeOK /\ (\E code \in Codes : Turn(code)) => RoomTypeOK'
BY DEF RoomTypeOK, Turn

\* The sender of a message has arrived, and has an id.
LEMMA SenderArrived ==
    ASSUME ConnTypeOK, incoming # <<>>
    PROVE  Head(incoming) \in Clients /\ id[Head(incoming)] \in Ids
BY DEF ConnTypeOK, Arrived

\* Every step is one of the connections, one that moves players, or a turn of a
\* game; each lists what it changes.
LEMMA Steps ==
    ASSUME ConnTypeOK, [Next]_vars
    PROVE  \/ UNCHANGED <<roomVars, auth>>
           \/ UNCHANGED roomVars /\ \E c \in Clients : auth' = [auth EXCEPT ![c] = TRUE]
           \/ \E c \in Clients : /\ id[c] \in Ids /\ MovesPlayers(c)
                                 /\ UNCHANGED <<id, auth>>
                                 /\ auth[c] \/ RemovePlayer(c)
           \/ (\E code \in Codes : Turn(code)) /\ UNCHANGED auth
<1>1. CASE UNCHANGED vars
  BY <1>1 DEF vars
<1>2. ASSUME NEW c \in Clients, Connection(c) PROVE UNCHANGED <<roomVars, auth>>
  BY <1>2 DEF Connection, Connect, Read, Deliver, Break
<1>3. CASE HandleMessage
  BY <1>3, SenderArrived
     DEF HandleMessage, Authenticate, Lobby, Ignored, MovesPlayers, connVars
<1>4. ASSUME NEW c \in Clients, Register(c) PROVE UNCHANGED <<roomVars, auth>>
  BY <1>4 DEF Register
<1>5. ASSUME NEW c \in Clients, Unregister(c)
      PROVE  id[c] \in Ids /\ MovesPlayers(c) /\ UNCHANGED <<id, auth>> /\ RemovePlayer(c)
  BY <1>5 DEF Unregister, MovesPlayers, ConnTypeOK
<1>6. CASE \E code \in Codes : Turn(code)
  BY <1>6 DEF Turn
<1> QED
  BY <1>1, <1>2, <1>3, <1>4, <1>5, <1>6 DEF Next, HubStep, Finished

LEMMA RoomTypeStep == HubTypeOK /\ [Next]_vars => RoomTypeOK'
<1> SUFFICES ASSUME HubTypeOK, [Next]_vars PROVE RoomTypeOK'
  OBVIOUS
<1>1. ConnTypeOK /\ RoomTypeOK
  BY TypeParts
<1>2. CASE UNCHANGED roomVars
  BY <1>1, <1>2 DEF RoomTypeOK, roomVars
<1> QED
  BY <1>1, <1>2, Steps, RoomTypeMoves, RoomTypeTurn

(***************************************************************************)
(* The connections.                                                         *)
(***************************************************************************)

LEMMA ConnTypeStep == HubTypeOK /\ [Next]_vars => ConnTypeOK'
<1> SUFFICES ASSUME ConnTypeOK, [Next]_vars PROVE ConnTypeOK'
  BY TypeParts
<1> USE DEF ConnTypeOK
<1>1. CASE UNCHANGED vars
  BY <1>1 DEF vars, connVars, Arrived
<1>2. ASSUME NEW c \in Clients, Connection(c) PROVE ConnTypeOK'
  <2>1. CASE Connect(c)
    <3>1. Cardinality(registered) + 1 \in Ids
      BY <2>1, DrawnId DEF Connect
    <3>2. Arrived' = Arrived
      BY <2>1 DEF Connect, Arrived
    <3> QED
      BY <2>1, <3>1, <3>2 DEF Connect
  <2>2. CASE Read(c)
    <3>1. Arrived' = Arrived
      BY <2>2 DEF Read, Arrived
    <3> QED
      BY <2>2, <3>1 DEF Read
  <2>3. CASE Deliver(c)
    <3>1. Arrived' = Arrived /\ c \in Arrived
      BY <2>3 DEF Deliver, Arrived
    <3> QED
      BY <2>3, <3>1 DEF Deliver
  <2>4. CASE Break(c)
    <3>1. Arrived' = Arrived
      BY <2>4 DEF Break, Arrived
    <3> QED
      BY <2>4, <3>1 DEF Break
  <2> QED
    BY <1>2, <2>1, <2>2, <2>3, <2>4 DEF Connection
<1>3. CASE HandleMessage
  <2>1. UNCHANGED <<pc, id, sent, registered>> /\ Arrived' = Arrived
    BY <1>3 DEF HandleMessage, connVars, Arrived
  <2>2. incoming' \in Seq(Arrived) /\ Len(incoming') <= IncomingCap
    BY <1>3 DEF HandleMessage
  <2>3. auth' \in [Clients -> BOOLEAN]
    BY <1>3, SenderArrived DEF HandleMessage, Authenticate, Lobby, Ignored
  <2> QED
    BY <2>1, <2>2, <2>3
<1>4. ASSUME NEW c \in Clients, Register(c) PROVE ConnTypeOK'
  <2>1. Arrived \subseteq Arrived'
    BY <1>4 DEF Register, Arrived
  <2>2. incoming' \in Seq(Arrived')
    BY <1>4, <2>1, SeqGrows DEF Register
  <2> QED
    BY <1>4, <2>2 DEF Register
<1>5. ASSUME NEW c \in Clients, Unregister(c) PROVE ConnTypeOK'
  <2>1. Arrived' = Arrived
    BY <1>5 DEF Unregister, Arrived
  <2> QED
    BY <1>5, <2>1 DEF Unregister
<1>6. CASE \E code \in Codes : Turn(code)
  BY <1>6 DEF Turn, connVars, Arrived
<1> QED
  BY <1>1, <1>2, <1>3, <1>4, <1>5, <1>6 DEF Next, HubStep, Finished

LEMMA TypeStep == HubTypeOK /\ [Next]_vars => HubTypeOK'
<1>1. (HubTypeOK <=> ConnTypeOK /\ RoomTypeOK)'
  BY TypeParts, PTL
<1> QED
  BY <1>1, RoomTypeStep, ConnTypeStep

\* Every variable keeps its type: ids fit playerMap although they are drawn from
\* the number of connections, whoever is unregistered has left Clients, and a
\* message in the queue comes from a connection that was registered
\* (hub.go:27-58, main.go:94-108).
THEOREM HubTypeCorrect == Spec => []HubTypeOK
BY TypeInit, TypeStep, PTL DEF Spec

(***************************************************************************)
(* Who is in a room.                                                        *)
(***************************************************************************)

\* Only a client that passed the guard owns a player, and nobody is logged out:
\* nothing but an authenticated message reaches the lobby handlers
\* (router.go:78-102).
THEOREM OwnersCorrect == Spec => []OwnersAreAuthenticated
<1> USE DEF OwnersAreAuthenticated, Fresh
<1>1. Init => OwnersAreAuthenticated
  BY DEF Init
<1>2. HubTypeOK /\ OwnersAreAuthenticated /\ [Next]_vars => OwnersAreAuthenticated'
  <2> SUFFICES ASSUME HubTypeOK, OwnersAreAuthenticated, [Next]_vars
               PROVE  OwnersAreAuthenticated'
    OBVIOUS
  <2> USE TypeParts DEF ConnTypeOK, RoomTypeOK
  <2>1. ASSUME NEW c \in Clients, auth[c], MovesPlayers(c), UNCHANGED auth
        PROVE  OwnersAreAuthenticated'
    BY <2>1 DEF MovesPlayers, HandleCreateRoom, HandleJoinRoom, HandleRandomJoin, Available, Seat,
                RemovePlayer
  <2>2. ASSUME NEW c \in Clients, RemovePlayer(c), UNCHANGED auth
        PROVE  OwnersAreAuthenticated'
    BY <2>2 DEF RemovePlayer
  <2>3. ASSUME NEW code \in Codes, Turn(code), UNCHANGED auth PROVE OwnersAreAuthenticated'
    BY <2>3 DEF Turn
  <2>4. ASSUME NEW c \in Clients, UNCHANGED roomVars, auth' = [auth EXCEPT ![c] = TRUE]
        PROVE  OwnersAreAuthenticated'
    BY <2>4 DEF roomVars
  <2>5. CASE UNCHANGED <<roomVars, auth>>
    BY <2>5 DEF roomVars
  <2> QED
    BY Steps, <2>1, <2>2, <2>3, <2>4, <2>5
<1> QED
  BY <1>1, <1>2, HubTypeCorrect, PTL DEF Spec

\* A room is listed while it has players, nobody is in two, and only players that
\* were made are in any.
Seated ==
    /\ \A code \in Codes : (members[code] # {}) <=> (code \in listed)
    /\ \A p \in Players, k1, k2 \in Codes : p \in members[k1] /\ p \in members[k2] => k1 = k2
    /\ \A p \in Players, code \in Codes : p \in members[code] => ~Fresh(p)

\* Nobody is mapped twice.
Injective ==
    \A i, j \in Ids : playerMap[i] = playerMap[j] /\ playerMap[i] # NoPlayer => i = j

HubInv == HubTypeOK /\ Seated /\ Injective /\ MappedAreInRooms

LEMMA HubInvInit == Init => HubInv
BY TypeInit DEF Init, HubInv, Seated, Injective, MappedAreInRooms

\* A player made for c enters a room.
Enters(c, p, code) ==
    /\ Fresh(p)
    /\ \/ code \notin listed /\ listed' = listed \cup {code}
       \/ code \in listed /\ HasSpace(code) /\ listed' = listed
    /\ Seat(c, p, code, members[code])

\* With luck in drawing codes, players enter rooms and leave them.
LEMMA Moves ==
    ASSUME ~Unlucky, HubInv, NEW c \in Clients, MovesPlayers(c)
    PROVE  \/ \E p \in Players, code \in Codes : Enters(c, p, code)
           \/ RemovePlayer(c)
<1> USE DEF HubInv, HubTypeOK, Seated
<1>1. CASE HandleCreateRoom(c)
  <2>1. PICK p \in Players, code \in GenerateCode :
           /\ Fresh(p) /\ listed' = listed \cup {code} /\ Seat(c, p, code, {})
    BY <1>1 DEF HandleCreateRoom
  <2>2. code \in Codes /\ code \notin listed
    BY DEF GenerateCode
  <2>3. members[code] = {}
    BY <2>2
  <2>4. Enters(c, p, code)
    BY <2>1, <2>2, <2>3 DEF Enters
  <2> QED
    BY <2>2, <2>4
<1>2. CASE HandleJoinRoom(c)
  BY <1>2 DEF HandleJoinRoom, Enters
<1>3. CASE HandleRandomJoin(c)
  BY <1>3 DEF HandleRandomJoin, Available, Enters
<1> QED
  BY <1>1, <1>2, <1>3 DEF MovesPlayers

\* Who is mapped is not fresh.
LEMMA FreshIsUnmapped ==
    ASSUME HubInv, NEW p \in Players, Fresh(p)
    PROVE  /\ \A i \in Ids : playerMap[i] # p
           /\ \A code \in Codes : p \notin members[code]
<1> USE DEF HubInv
<1>1. \A code \in Codes : p \notin members[code]
  BY DEF Seated
<1>2. listed \subseteq Codes
  BY DEF HubTypeOK
<1>3. RoomOf(p) = {}
  BY <1>1, <1>2 DEF RoomOf
<1> QED
  BY <1>1, <1>3 DEF MappedAreInRooms

LEMMA EnterKeeps ==
    ASSUME HubInv, NEW c \in Clients, id[c] \in Ids,
           NEW p \in Players, NEW code \in Codes, Enters(c, p, code)
    PROVE  Seated' /\ Injective' /\ MappedAreInRooms'
<1>1. /\ members' = [members EXCEPT ![code] = @ \cup {p}]
      /\ owner' = [owner EXCEPT ![p] = c]
      /\ playerMap' = [playerMap EXCEPT ![id[c]] = p]
      /\ listed' = listed \cup {code}
      /\ Fresh(p)
  BY DEF Enters, Seat
<1>2. /\ \A i \in Ids : playerMap[i] # p
      /\ \A k \in Codes : p \notin members[k]
  BY <1>1, FreshIsUnmapped
<1> USE DEF HubInv, HubTypeOK
<1>3. Seated'
  BY <1>1, <1>2 DEF Seated, Fresh
<1>4. Injective'
  BY <1>1, <1>2 DEF Injective
<1>5. MappedAreInRooms'
  BY <1>1 DEF MappedAreInRooms, RoomOf
<1> QED
  BY <1>3, <1>4, <1>5

LEMMA RemoveKeeps ==
    ASSUME HubInv, NEW c \in Clients, id[c] \in Ids, RemovePlayer(c)
    PROVE  Seated' /\ Injective' /\ MappedAreInRooms'
<1> USE DEF HubInv, HubTypeOK
<1>1. CASE playerMap[id[c]] = NoPlayer
  BY <1>1 DEF RemovePlayer, Seated, Injective, MappedAreInRooms, RoomOf, Fresh
<1>2. CASE playerMap[id[c]] # NoPlayer
  <2> DEFINE p == playerMap[id[c]]
  <2>1. /\ p \in Players /\ owner' = owner
        /\ members' = [code \in Codes |-> members[code] \ {p}]
        /\ listed' = listed \ {code \in RoomOf(p) : members[code] = {p}}
        /\ playerMap' = [playerMap EXCEPT ![id[c]] = NoPlayer]
    BY <1>2 DEF RemovePlayer, Vacate
  <2>2. Seated'
    BY <2>1 DEF Seated, RoomOf, Fresh
  <2>3. Injective'
    BY <2>1 DEF Injective
  <2>4. MappedAreInRooms'
    <3> SUFFICES ASSUME NEW i \in Ids, playerMap'[i] # NoPlayer
                 PROVE  \E code \in listed' : playerMap'[i] \in members'[code]
      BY DEF MappedAreInRooms, RoomOf
    <3>1. i # id[c] /\ playerMap'[i] = playerMap[i] /\ playerMap[i] # p
      BY <2>1, <1>2 DEF Injective
    <3>2. PICK code \in listed : playerMap[i] \in members[code]
      BY <3>1 DEF MappedAreInRooms, RoomOf
    <3> QED
      BY <2>1, <3>1, <3>2
  <2> QED
    BY <2>2, <2>3, <2>4
<1> QED
  BY <1>1, <1>2

LEMMA TurnKeeps ==
    ASSUME HubInv, NEW code \in Codes, Turn(code)
    PROVE  Seated' /\ Injective' /\ MappedAreInRooms'
BY DEF Turn, HubInv, Seated, Injective, MappedAreInRooms, RoomOf, Fresh

LEMMA HubInvStep == ASSUME ~Unlucky PROVE HubInv /\ [Next]_vars => HubInv'
<1> SUFFICES ASSUME HubInv, [Next]_vars PROVE HubInv'
  OBVIOUS
<1>1. ConnTypeOK /\ HubTypeOK'
  BY TypeParts, TypeStep DEF HubInv
<1>2. CASE UNCHANGED roomVars
  BY <1>1, <1>2 DEF roomVars, HubInv, Seated, Injective, MappedAreInRooms, RoomOf, Fresh
<1>3. ASSUME NEW c \in Clients, id[c] \in Ids, MovesPlayers(c) PROVE HubInv'
  BY <1>1, <1>3, Moves, EnterKeeps, RemoveKeeps DEF HubInv
<1> QED
  BY <1>1, <1>2, <1>3, Steps, TurnKeeps DEF HubInv

LEMMA HubInvCorrect == ASSUME ~Unlucky PROVE Spec => []HubInv
BY HubInvInit, HubInvStep, PTL DEF Spec

\* While no code is used twice, whoever the router knows is in a listed room,
\* whatever ids the connections share and in whatever order they come and go
\* (router.go:42-76, lobby.go:238-266).
THEOREM MappedCorrect == ASSUME ~Unlucky PROVE Spec => []MappedAreInRooms
<1>1. HubInv => MappedAreInRooms
  BY DEF HubInv
<1> QED
  BY HubInvCorrect, <1>1, PTL

\* A player is forgotten when it has left, or when another takes its id; luck with
\* the codes is not needed (lobby.go:46-48, 238-266).
THEOREM ForgottenCorrect == Spec => ForgottenLeaveOrAreReplaced
<1> DEFINE Kept == \A i \in Ids : Forgotten(i) =>
                      \/ \A code \in Codes : playerMap[i] \notin members'[code]
                      \/ \E code \in listed' : playerMap'[i] \in members'[code]
<1>1. HubTypeOK /\ [Next]_vars => [Kept]_vars
  <2> SUFFICES ASSUME HubTypeOK, [Next]_vars PROVE Kept
    OBVIOUS
  <2> USE TypeParts DEF RoomTypeOK, Forgotten
  <2>1. ASSUME NEW c \in Clients, id[c] \in Ids, MovesPlayers(c) PROVE Kept
    <3>1. CASE HandleCreateRoom(c)
      BY <2>1, <3>1 DEF HandleCreateRoom, Seat, GenerateCode
    <3>2. CASE HandleJoinRoom(c)
      BY <2>1, <3>2 DEF HandleJoinRoom, Seat
    <3>3. CASE HandleRandomJoin(c)
      BY <2>1, <3>3 DEF HandleRandomJoin, Available, Seat
    <3>4. CASE RemovePlayer(c)
      BY <2>1, <3>4 DEF RemovePlayer, Vacate
    <3> QED
      BY <2>1, <3>1, <3>2, <3>3, <3>4 DEF MovesPlayers
  <2>2. CASE UNCHANGED playerMap
    BY <2>2
  <2> QED
    BY <2>1, <2>2, Steps DEF roomVars, Turn
<1> QED
  BY <1>1, HubTypeCorrect, PTL DEF Spec, ForgottenLeaveOrAreReplaced

(***************************************************************************)
(* Whose player a client acts for.                                          *)
(***************************************************************************)

\* Whoever has arrived stays so, with its id.
LEMMA ArrivedStay ==
    ASSUME ConnTypeOK, [Next]_vars
    PROVE  Arrived \subseteq Arrived' /\ \A c \in Arrived : id'[c] = id[c]
<1> USE DEF Arrived, ConnTypeOK
<1>1. CASE UNCHANGED vars
  BY <1>1 DEF vars, connVars
<1>2. ASSUME NEW c \in Clients, Connection(c)
      PROVE  Arrived \subseteq Arrived' /\ \A k \in Arrived : id'[k] = id[k]
  BY <1>2 DEF Connection, Connect, Read, Deliver, Break
<1>3. CASE HandleMessage \/ \E code \in Codes : Turn(code)
  BY <1>3 DEF HandleMessage, Turn, connVars
<1>4. ASSUME NEW c \in Clients, Register(c) \/ Unregister(c)
      PROVE  Arrived \subseteq Arrived' /\ \A k \in Arrived : id'[k] = id[k]
  BY <1>4 DEF Register, Unregister
<1> QED
  BY <1>1, <1>2, <1>3, <1>4 DEF Next, HubStep, Finished

\* Only who has arrived moves players.
LEMMA MoversArrived ==
    ASSUME ConnTypeOK, [Next]_vars
    PROVE  \/ UNCHANGED <<playerMap, owner>>
           \/ \E c \in Arrived : id[c] \in Ids /\ MovesPlayers(c)
<1>1. CASE UNCHANGED vars
  BY <1>1 DEF vars, roomVars
<1>2. ASSUME NEW c \in Clients, Connection(c) \/ Register(c) PROVE UNCHANGED <<playerMap, owner>>
  BY <1>2 DEF Connection, Connect, Read, Deliver, Break, Register, roomVars
<1>3. CASE HandleMessage
  <2>1. Head(incoming) \in Arrived
    BY <1>3 DEF ConnTypeOK, HandleMessage
  <2> QED
    BY <1>3, <2>1, SenderArrived
       DEF HandleMessage, Authenticate, Lobby, Ignored, MovesPlayers, roomVars
<1>4. ASSUME NEW c \in Clients, Unregister(c) PROVE c \in Arrived /\ id[c] \in Ids /\ MovesPlayers(c)
  BY <1>4 DEF Unregister, MovesPlayers, ConnTypeOK, Arrived
<1>5. CASE \E code \in Codes : Turn(code)
  BY <1>5 DEF Turn
<1> QED
  BY <1>1, <1>2, <1>3, <1>4, <1>5 DEF Next, HubStep, Finished

\* A player is mapped under the id of the connection it was made for, which has
\* arrived.
MappedByOwner ==
    \A i \in Ids : playerMap[i] # NoPlayer =>
        owner[playerMap[i]] \in Arrived /\ id[owner[playerMap[i]]] = i

LEMMA MappedByOwnerMoves ==
    ASSUME ConnTypeOK, RoomTypeOK, MappedByOwner, NEW c \in Arrived, id[c] \in Ids, MovesPlayers(c)
    PROVE  \A i \in Ids : playerMap'[i] # NoPlayer =>
               owner'[playerMap'[i]] \in Arrived /\ id[owner'[playerMap'[i]]] = i
<1> USE DEF RoomTypeOK, MappedByOwner
<1>0. NoClient \notin Arrived /\ c \in Clients
  BY DEF Arrived
<1>1. ASSUME NEW p \in Players, Fresh(p), playerMap' = [playerMap EXCEPT ![id[c]] = p],
             owner' = [owner EXCEPT ![p] = c], NEW i \in Ids, playerMap'[i] # NoPlayer
      PROVE  owner'[playerMap'[i]] \in Arrived /\ id[owner'[playerMap'[i]]] = i
  <2>1. CASE i = id[c]
    BY <1>0, <1>1, <2>1
  <2>2. CASE i # id[c]
    <3>1. playerMap'[i] = playerMap[i] /\ playerMap[i] \in Players
      BY <1>1, <2>2
    <3>2. playerMap[i] # p
      BY <1>0, <1>1, <3>1 DEF Fresh
    <3> QED
      BY <1>1, <3>1, <3>2
  <2> QED
    BY <2>1, <2>2
<1>2. CASE HandleCreateRoom(c)
  BY <1>1, <1>2 DEF HandleCreateRoom, Seat
<1>3. CASE HandleJoinRoom(c)
  BY <1>1, <1>3 DEF HandleJoinRoom, Seat
<1>4. CASE HandleRandomJoin(c)
  BY <1>1, <1>4 DEF HandleRandomJoin, Available, Seat
<1>5. CASE RemovePlayer(c)
  BY <1>5 DEF RemovePlayer
<1> QED
  BY <1>2, <1>3, <1>4, <1>5 DEF MovesPlayers

LEMMA MappedByOwnerStep == HubTypeOK /\ MappedByOwner /\ [Next]_vars => MappedByOwner'
<1> SUFFICES ASSUME HubTypeOK, MappedByOwner, [Next]_vars PROVE MappedByOwner'
  OBVIOUS
<1>1. ConnTypeOK /\ RoomTypeOK
  BY TypeParts
<1>2. Arrived \subseteq Arrived' /\ \A c \in Arrived : id'[c] = id[c]
  BY <1>1, ArrivedStay
<1>3. CASE UNCHANGED <<playerMap, owner>>
  BY <1>2, <1>3 DEF MappedByOwner
<1>4. ASSUME NEW c \in Arrived, id[c] \in Ids, MovesPlayers(c) PROVE MappedByOwner'
  <2>1. \A i \in Ids : playerMap'[i] # NoPlayer =>
            owner'[playerMap'[i]] \in Arrived /\ id[owner'[playerMap'[i]]] = i
    BY <1>1, <1>4, MappedByOwnerMoves
  <2> QED
    BY <1>2, <2>1 DEF MappedByOwner
<1> QED
  BY <1>1, <1>3, <1>4, MoversArrived

\* Sharing an id is the only way in which a client comes to act for the player of
\* another one; luck with the codes is not needed (main.go:101, router.go:36-41,
\* hub.go:36-57).
THEOREM OwnUnlessSharedCorrect == Spec => []OwnUnlessShared
<1>1. Init => MappedByOwner
  BY DEF Init, MappedByOwner
<1>2. HubTypeOK /\ MappedByOwner => OwnUnlessShared
  <2> SUFFICES ASSUME HubTypeOK, MappedByOwner, NEW c \in registered,
                      playerMap[id[c]] # NoPlayer, owner[playerMap[id[c]]] # c
               PROVE  SharesId(c)
    BY DEF OwnUnlessShared
  <2>1. c \in Clients /\ id[c] \in Ids
    BY DEF HubTypeOK
  <2>2. owner[playerMap[id[c]]] \in Clients /\ id[owner[playerMap[id[c]]]] = id[c]
    BY <2>1 DEF MappedByOwner, Arrived
  <2> QED
    BY <2>2 DEF SharesId
<1> QED
  BY <1>1, <1>2, HubTypeCorrect, MappedByOwnerStep, PTL DEF Spec

(***************************************************************************)
(* The rooms implement Directory.                                           *)
(***************************************************************************)

\* What Place says, with a choice that is none.
PlacesFit ==
    \A p \in Players :
        /\ \A code \in Codes : p \in members[code] => Place(p) = code
        /\ (\A code \in Codes : p \notin members[code]) =>
              Place(p) = IF Fresh(p) THEN "new" ELSE "gone"

LEMMA Places == HubInv => PlacesFit
<1> USE DEF PlacesFit
<1> SUFFICES ASSUME HubInv, NEW p \in Players
             PROVE  /\ \A code \in Codes : p \in members[code] => Place(p) = code
                    /\ (\A code \in Codes : p \notin members[code]) =>
                          Place(p) = IF Fresh(p) THEN "new" ELSE "gone"
  OBVIOUS
<1> USE DEF HubInv, Seated
<1>1. ASSUME NEW code \in Codes, p \in members[code] PROVE Place(p) = code
  <2>1. ~Fresh(p)
    BY <1>1
  <2>2. \A k \in Codes : p \in members[k] => k = code
    BY <1>1
  <2> QED
    BY <1>1, <2>1, <2>2 DEF Place
<1>2. ASSUME \A code \in Codes : p \notin members[code]
      PROVE  Place(p) = IF Fresh(p) THEN "new" ELSE "gone"
  BY <1>2 DEF Place
<1> QED
  BY <1>1, <1>2

\* Directory's occupants are the members.
LEMMA OccupantsAreMembers ==
    ASSUME HubInv, NEW code \in Codes PROVE Rooms!Occupants(code) = members[code]
<1>1. members[code] \subseteq Players
  BY DEF HubInv, HubTypeOK
<1>2. ASSUME NEW p \in Players PROVE p \in members[code] <=> Place(p) = code
  <2>1. CASE p \in members[code]
    BY <2>1, Places DEF PlacesFit
  <2>2. CASE \E k \in Codes \ {code} : p \in members[k]
    BY <2>2, Places DEF PlacesFit, HubInv, Seated
  <2>3. CASE \A k \in Codes : p \notin members[k]
    <3>1. Place(p) \in {"new", "gone"}
      BY <2>3, Places DEF PlacesFit
    <3> QED
      BY <2>3, <3>1
  <2> QED
    BY <2>1, <2>2, <2>3
<1> QED
  BY <1>1, <1>2 DEF Rooms!Occupants

LEMMA SamePlaces ==
    ASSUME UNCHANGED <<listed, members, owner>> PROVE UNCHANGED Rooms!vars
BY DEF Rooms!vars, Place, Fresh

LEMMA EnterImplements ==
    ASSUME HubInv, HubInv', NEW c \in Clients,
           NEW p \in Players, NEW code \in Codes, Enters(c, p, code)
    PROVE  Rooms!Open(p, code) \/ Rooms!Enter(p, code)
<1>1. /\ members \in [Codes -> SUBSET Players] /\ owner \in [Players -> Clients \cup {NoClient}]
      /\ members' = [members EXCEPT ![code] = @ \cup {p}]
      /\ owner' = [owner EXCEPT ![p] = c]
      /\ Fresh(p)
  BY DEF Enters, Seat, HubInv, HubTypeOK
<1>2. PlacesFit /\ PlacesFit'
  BY Places, PTL
<1>3. Place(p) = "new"
  BY <1>1, <1>2, FreshIsUnmapped DEF PlacesFit
<1>4. Place(p)' = code
  BY <1>1, <1>2 DEF PlacesFit
<1>5. ASSUME NEW q \in Players \ {p} PROVE Place(q)' = Place(q)
  <2>1. Fresh(q)' <=> Fresh(q)
    BY <1>1 DEF Fresh
  <2>2. \A k \in Codes : q \in members'[k] <=> q \in members[k]
    BY <1>1
  <2> QED
    BY <1>2, <2>1, <2>2 DEF PlacesFit
<1>6. [q \in Players |-> Place(q)'] = [[q \in Players |-> Place(q)] EXCEPT ![p] = code]
  BY <1>4, <1>5
<1>7. CASE code \notin listed /\ listed' = listed \cup {code}
  BY <1>3, <1>6, <1>7 DEF Rooms!Open
<1>8. CASE code \in listed /\ HasSpace(code) /\ listed' = listed
  <2>1. Rooms!Cardinality(Rooms!Occupants(code)) < MaxPlayers
    BY <1>8, OccupantsAreMembers DEF HasSpace, Rooms!Cardinality, Cardinality
  <2> QED
    BY <1>3, <1>6, <1>8, <2>1 DEF Rooms!Enter
<1> QED
  BY <1>7, <1>8 DEF Enters

LEMMA RemoveImplements ==
    ASSUME HubInv, HubInv', NEW c \in Clients, id[c] \in Ids, RemovePlayer(c)
    PROVE  \/ UNCHANGED Rooms!vars
           \/ \E p \in Players, code \in Codes : Rooms!Leave(p, code)
<1>1. CASE playerMap[id[c]] = NoPlayer
  BY <1>1, SamePlaces DEF RemovePlayer
<1>2. CASE playerMap[id[c]] # NoPlayer
  <2>0. PICK p \in Players : p = playerMap[id[c]]
    BY <1>2 DEF HubInv, HubTypeOK
  <2>1. /\ p \in Players /\ listed \subseteq Codes
        /\ members \in [Codes -> SUBSET Players]
        /\ owner' = owner
        /\ members' = [code \in Codes |-> members[code] \ {p}]
        /\ listed' = listed \ {code \in RoomOf(p) : members[code] = {p}}
    BY <1>2, <2>0 DEF RemovePlayer, Vacate, HubInv, HubTypeOK
  <2>2. PICK code \in listed : p \in members[code]
    BY <1>2, <2>0 DEF HubInv, MappedAreInRooms, RoomOf
  <2>3. code \in Codes /\ RoomOf(p) = {code}
    BY <2>1, <2>2 DEF RoomOf, HubInv, Seated
  <2>4. PlacesFit /\ PlacesFit'
    BY Places, PTL
  <2>5. \A q \in Players : Fresh(q)' <=> Fresh(q)
    BY <2>1 DEF Fresh
  <2>6. Place(p) = code
    BY <2>1, <2>2, <2>3, <2>4 DEF PlacesFit
  <2>7. Place(p)' = "gone"
    <3>1. ~Fresh(p)
      BY <2>1, <2>2, <2>3 DEF HubInv, Seated
    <3>2. \A k \in Codes : p \notin members'[k]
      BY <2>1
    <3>3. ~Fresh(p)'
      BY <2>1, <2>5, <3>1
    <3> QED
      BY <2>1, <2>4, <3>2, <3>3 DEF PlacesFit
  <2>8. ASSUME NEW q \in Players \ {p} PROVE Place(q)' = Place(q)
    <3>1. \A k \in Codes : q \in members'[k] <=> q \in members[k]
      BY <2>1
    <3>2. CASE \E k \in Codes : q \in members[k]
      BY <2>4, <3>1, <3>2 DEF PlacesFit
    <3>3. CASE \A k \in Codes : q \notin members[k]
      <4>1. Place(q) = IF Fresh(q) THEN "new" ELSE "gone"
        BY <2>4, <3>3 DEF PlacesFit
      <4>2. Place(q)' = IF Fresh(q)' THEN "new" ELSE "gone"
        BY <2>4, <3>1, <3>3 DEF PlacesFit
      <4> QED
        BY <2>1, <4>1, <4>2 DEF Fresh
    <3> QED
      BY <3>2, <3>3
  <2>9. [q \in Players |-> Place(q)'] = [[q \in Players |-> Place(q)] EXCEPT ![p] = "gone"]
    BY <2>7, <2>8
  <2>10. listed' = IF Rooms!Occupants(code) = {p} THEN listed \ {code} ELSE listed
    BY <2>1, <2>3, OccupantsAreMembers
  <2>11. Rooms!Leave(p, code)
    BY <2>1, <2>6, <2>9, <2>10 DEF Rooms!Leave
  <2> QED
    BY <2>1, <2>3, <2>11
<1> QED
  BY <1>1, <1>2

LEMMA DirectoryStep ==
    ASSUME ~Unlucky PROVE HubInv /\ HubInv' /\ [Next]_vars => [Rooms!Next]_(Rooms!vars)
<1> SUFFICES ASSUME HubInv, HubInv', [Next]_vars PROVE [Rooms!Next]_(Rooms!vars)
  OBVIOUS
<1>1. ConnTypeOK
  BY TypeParts DEF HubInv
<1>2. CASE UNCHANGED roomVars
  BY <1>2, SamePlaces DEF roomVars
<1>3. ASSUME NEW code \in Codes, Turn(code) PROVE UNCHANGED Rooms!vars
  BY <1>3, SamePlaces DEF Turn
<1>4. ASSUME NEW c \in Clients, id[c] \in Ids, MovesPlayers(c)
      PROVE  [Rooms!Next]_(Rooms!vars)
  BY <1>4, Moves, EnterImplements, RemoveImplements DEF Rooms!Next
<1> QED
  BY <1>1, <1>2, <1>3, <1>4, Steps

\* With luck in drawing codes, and whatever the connections do, every step of the
\* hub opens a room with one player, lets one player enter or leave a room, or
\* changes nothing of the sort (manager.go:22-60, lobby.go:35-135, 238-266).
THEOREM DirectoryCorrect == ASSUME ~Unlucky PROVE Spec => ImplementsDirectory
<1>1. Init => Rooms!Init
  BY DEF Init, Rooms!Init, Place, Fresh
<1>2. HubInv /\ HubInv' /\ [Next]_vars => [Rooms!Next]_(Rooms!vars)
  BY DirectoryStep
<1> QED
  BY <1>1, <1>2, HubInvCorrect, PTL DEF Spec, ImplementsDirectory, Rooms!Spec
===============================================================================
