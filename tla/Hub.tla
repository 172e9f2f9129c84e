--------------------------------- MODULE Hub ---------------------------------
(***************************************************************************)
(* All connections and all rooms: ws/hub.go, the read pump of ws/client.go,  *)
(* handleWebSocket of cmd/server/main.go, handler/router.go, room/manager.go *)
(* and the handlers of handler/lobby.go that bring players into rooms and    *)
(* out of them.                                                             *)
(*                                                                          *)
(* Every connection has a goroutine, at pc: the HTTP handler up to Register, *)
(* the read pump from there on.  The hub goroutine takes one Register,       *)
(* Unregister or message at a time and runs its handler to the end, so each  *)
(* of its cases is one action.  What a message says does not matter before   *)
(* it is handled: Incoming holds the client it came from.  Messages that act *)
(* inside a room (Room has them), are malformed or are refused leave this    *)
(* state alone: Ignored.                                                     *)
(***************************************************************************)
EXTENDS Integers, Sequences, FiniteSets

CONSTANTS Clients,      \* connections
          NoClient,
          Players,      \* player ids still to be drawn: a bound on the joins
          NoPlayer,
          Codes,
          MaxPlayers,
          IncomingCap,  \* capacity of Hub.Incoming
          MaxMessages,  \* bound on the messages of a connection
          Unlucky       \* maxRetries draws of a code in a row may all be taken

ASSUME HubAssumption ==
    /\ IsFiniteSet(Clients) /\ NoClient \notin Clients
    /\ IsFiniteSet(Players) /\ NoPlayer \notin Players
    /\ Codes \cap {"new", "gone"} = {}
    /\ MaxPlayers \in Nat \ {0}
    /\ IncomingCap \in Nat \ {0}
    /\ MaxMessages \in Nat
    /\ Unlucky \in BOOLEAN

VARIABLES
    pc,          \* per connection: where its goroutine is
    id,          \* Client.ID: a number, 0 before it is drawn
    sent,        \* how many messages were read from the connection
    auth,        \* Client.Authenticated
    registered,  \* Hub.Clients
    incoming,    \* Hub.Incoming: the senders of the messages in it
    playerMap,   \* Router.playerMap: client id -> player id
    listed,      \* the keys of Manager.rooms
    members,     \* per code: Room.Players of the room listed under it
    waiting,     \* the codes of the rooms whose State is waiting
    owner        \* the client a player was made for; NoClient before it is made

connVars == <<pc, id, sent>>
roomVars == <<playerMap, listed, members, waiting, owner>>
vars == <<connVars, auth, registered, incoming, roomVars>>

Ids == 1..Cardinality(Clients)

Init ==
    /\ pc = [c \in Clients |-> "new"]
    /\ id = [c \in Clients |-> 0]
    /\ sent = [c \in Clients |-> 0]
    /\ auth = [c \in Clients |-> FALSE]
    /\ registered = {} /\ incoming = <<>>
    /\ playerMap = [i \in Ids |-> NoPlayer]
    /\ listed = {} /\ waiting = {}
    /\ members = [code \in Codes |-> {}]
    /\ owner = [p \in Players |-> NoClient]

(***************************************************************************)
(* The goroutine of a connection.                                           *)
(***************************************************************************)

\* (Mutant of Connect: numbered from zero.)
ConnectFromZero(c) ==
    /\ pc[c] = "new"
    /\ id' = [id EXCEPT ![c] = Cardinality(registered)]
    /\ pc' = [pc EXCEPT ![c] = "registering"]
    /\ UNCHANGED <<sent, auth, registered, incoming, roomVars>>

\* handleWebSocket: the id is the number of connected clients and one.
Connect(c) ==
    /\ pc[c] = "new"
    /\ id' = [id EXCEPT ![c] = Cardinality(registered) + 1]
    /\ pc' = [pc EXCEPT ![c] = "registering"]
    /\ UNCHANGED <<sent, auth, registered, incoming, roomVars>>

\* ReadPump has read a message.
Read(c) ==
    /\ pc[c] = "reading" /\ sent[c] < MaxMessages
    /\ sent' = [sent EXCEPT ![c] = @ + 1]
    /\ pc' = [pc EXCEPT ![c] = "sending"]
    /\ UNCHANGED <<id, auth, registered, incoming, roomVars>>

\* c.Hub.Incoming <- message: blocks while the channel is full.
Deliver(c) ==
    /\ pc[c] = "sending" /\ Len(incoming) < IncomingCap
    /\ incoming' = Append(incoming, c)
    /\ pc' = [pc EXCEPT ![c] = "reading"]
    /\ UNCHANGED <<id, sent, auth, registered, roomVars>>

\* ReadMessage fails: the peer went away, was silent too long, or the connection
\* was closed on this side.
Break(c) ==
    /\ pc[c] = "reading"
    /\ pc' = [pc EXCEPT ![c] = "leaving"]
    /\ UNCHANGED <<id, sent, auth, registered, incoming, roomVars>>

(***************************************************************************)
(* The rooms, as the handlers call them.                                    *)
(***************************************************************************)

Fresh(p) == owner[p] = NoClient

\* Manager.CreateRoom puts the new room in place of one that has the same code.
GenerateCode == (Codes \ listed) \cup (IF Unlucky THEN Codes ELSE {})

\* AddPlayer of a player made for c, then RegisterPlayer under the id of c.
Seat(c, p, code, others) ==
    /\ members' = [members EXCEPT ![code] = others \cup {p}]
    /\ owner' = [owner EXCEPT ![p] = c]
    /\ playerMap' = [playerMap EXCEPT ![id[c]] = p]

\* Neither looks whether the client has a player already.
HandleCreateRoom(c) ==
    \E p \in Players, code \in GenerateCode :
        /\ Fresh(p)
        /\ listed' = listed \cup {code} /\ waiting' = waiting \cup {code}
        /\ Seat(c, p, code, {})

HasSpace(code) == Cardinality(members[code]) < MaxPlayers

\* (Mutant of HandleJoinRoom: RegisterPlayer before AddPlayer has found space.)
RegisterThenJoin(c) ==
    \E p \in Players, code \in listed :
        /\ Fresh(p)
        /\ Seat(c, p, code, members[code])
           \/ /\ ~HasSpace(code)
              /\ owner' = [owner EXCEPT ![p] = c]
              /\ playerMap' = [playerMap EXCEPT ![id[c]] = p]
              /\ UNCHANGED members
        /\ UNCHANGED <<listed, waiting>>

HandleJoinRoom(c) ==
    \E p \in Players, code \in listed :
        /\ Fresh(p) /\ HasSpace(code)
        /\ Seat(c, p, code, members[code])
        /\ UNCHANGED <<listed, waiting>>

\* FindAvailableRoom returns one of the rooms that wait and have space; whether one of
\* them has a place in the preferred team decides which, not whether.
Available == {code \in listed \cap waiting : HasSpace(code)}

HandleRandomJoin(c) ==
    \E p \in Players, code \in Available :
        /\ Fresh(p)
        /\ Seat(c, p, code, members[code])
        /\ UNCHANGED <<listed, waiting>>

RoomOf(p) == {code \in listed : p \in members[code]}

\* (Mutant of Vacate: the room is removed with its last but one player.)
VacateEarly(p) ==
    /\ members' = [code \in Codes |-> members[code] \ {p}]
    /\ listed' = listed \ {code \in RoomOf(p) : Cardinality(members[code]) <= 2}
    /\ waiting' = waiting \cap listed'

\* RemovePlayer, then RemoveRoom when nobody is left.
Vacate(p) ==
    /\ members' = [code \in Codes |-> members[code] \ {p}]
    /\ listed' = listed \ {code \in RoomOf(p) : members[code] = {p}}
    /\ waiting' = waiting \cap listed'

\* (Mutant of RemovePlayer: a player of a running game stays in its room.)
RemoveIfWaiting(c) ==
    /\ LET p == playerMap[id[c]] IN
       /\ IF p # NoPlayer /\ RoomOf(p) \subseteq waiting
          THEN Vacate(p) ELSE UNCHANGED <<listed, members, waiting>>
       /\ playerMap' = [playerMap EXCEPT ![id[c]] = NoPlayer]
    /\ UNCHANGED owner

\* removePlayer, of leave_room and of HandleDisconnect.
RemovePlayer(c) ==
    /\ \/ playerMap[id[c]] = NoPlayer /\ UNCHANGED <<playerMap, listed, members, waiting>>
       \/ /\ playerMap[id[c]] # NoPlayer
          /\ Vacate(playerMap[id[c]])
          /\ playerMap' = [playerMap EXCEPT ![id[c]] = NoPlayer]
    /\ UNCHANGED owner

(***************************************************************************)
(* The hub goroutine: Hub.Run and, for messages, Router.HandleMessage.       *)
(***************************************************************************)

Register(c) ==
    /\ pc[c] = "registering"
    /\ registered' = registered \cup {c}
    /\ pc' = [pc EXCEPT ![c] = "reading"]
    /\ UNCHANGED <<id, sent, auth, incoming, roomVars>>

\* (Mutant of Unregister: a player leaves when its game is over.)
UnregisterAfterGame(c) ==
    /\ pc[c] = "leaving"
    /\ playerMap[id[c]] # NoPlayer => RoomOf(playerMap[id[c]]) \subseteq waiting
    /\ registered' = registered \ {c}
    /\ pc' = [pc EXCEPT ![c] = "gone"]
    /\ RemovePlayer(c)
    /\ UNCHANGED <<id, sent, auth, incoming>>

Unregister(c) ==
    /\ pc[c] = "leaving"
    /\ registered' = registered \ {c}
    /\ pc' = [pc EXCEPT ![c] = "gone"]
    /\ RemovePlayer(c)
    /\ UNCHANGED <<id, sent, auth, incoming>>

\* HandleAuthenticate, when it succeeds.
Authenticate(c) ==
    /\ auth' = [auth EXCEPT ![c] = TRUE]
    /\ UNCHANGED roomVars

\* The auth guard, and the lobby messages that move players.
Lobby(c) ==
    /\ auth[c]
    /\ HandleCreateRoom(c) \/ HandleJoinRoom(c) \/ HandleRandomJoin(c) \/ RemovePlayer(c)
    /\ UNCHANGED auth

Ignored == UNCHANGED <<auth, roomVars>>

\* Hub.Run does not look whether the sender is still registered.
HandleMessage ==
    /\ incoming # <<>>
    /\ incoming' = Tail(incoming)
    /\ LET c == Head(incoming) IN Authenticate(c) \/ Lobby(c) \/ Ignored
    /\ UNCHANGED <<connVars, registered>>

\* A game of a room begins, ends or is reset; Room says how.
Turn(code) ==
    /\ code \in listed
    /\ waiting' = IF code \in waiting THEN waiting \ {code} ELSE waiting \cup {code}
    /\ UNCHANGED <<connVars, auth, registered, incoming, playerMap, listed, members, owner>>

Connection(c) == Connect(c) \/ Read(c) \/ Deliver(c) \/ Break(c)
HubStep == HandleMessage \/ \E c \in Clients : Register(c) \/ Unregister(c)

Finished ==
    /\ \A c \in Clients : pc[c] = "gone"
    /\ incoming = <<>>
    /\ UNCHANGED vars

Next ==
    \/ \E c \in Clients : Connection(c)
    \/ HubStep
    \/ \E code \in Codes : Turn(code)
    \/ Finished

Spec == Init /\ [][Next]_vars

\* The select of Hub.Run picks any of the cases that are ready, and the senders
\* that wait for a channel are served in turn: nobody is passed over for ever.
\* Clients owe nothing.
FairSpec ==
    /\ Spec
    /\ WF_vars(HandleMessage)
    /\ \A c \in Clients : WF_vars(Register(c)) /\ WF_vars(Unregister(c)) /\ SF_vars(Deliver(c))

(***************************************************************************)
(* Invariants.                                                              *)
(***************************************************************************)

HubTypeOK ==
    /\ pc \in [Clients -> {"new", "registering", "reading", "sending", "leaving", "gone"}]
    /\ id \in [Clients -> Ids \cup {0}]
    /\ \A c \in Clients : pc[c] # "new" => id[c] \in Ids
    /\ sent \in [Clients -> 0..MaxMessages]
    /\ auth \in [Clients -> BOOLEAN]
    /\ registered = {c \in Clients : pc[c] \in {"reading", "sending", "leaving"}}
    /\ incoming \in Seq({c \in Clients : pc[c] \notin {"new", "registering"}})
    /\ Len(incoming) <= IncomingCap
    /\ playerMap \in [Ids -> Players \cup {NoPlayer}]
    /\ listed \subseteq Codes
    /\ waiting \subseteq listed
    /\ members \in [Codes -> SUBSET Players]
    /\ owner \in [Players -> Clients \cup {NoClient}]

\* The router and the manager agree: a player that playerMap knows is a member of
\* a listed room, whatever happened to the clients that share its id.  Otherwise
\* its client would be told for ever that it is in no room.
MappedAreInRooms ==
    \A i \in Ids : playerMap[i] # NoPlayer => RoomOf(playerMap[i]) # {}

\* Only an authenticated client has ever brought a player into a room.
OwnersAreAuthenticated == \A p \in Players : Fresh(p) \/ auth[owner[p]]

(***************************************************************************)
(* Action properties.                                                       *)
(***************************************************************************)

\* A player that the router forgets has been taken out of its room, or its id has
\* been given to another player that is in a room: this is the only way in which
\* a room comes to hold a player nobody can reach.
Forgotten(i) == playerMap[i] # NoPlayer /\ playerMap'[i] # playerMap[i]
ForgottenLeaveOrAreReplaced ==
    [][\A i \in Ids : Forgotten(i) =>
         \/ \A code \in Codes : playerMap[i] \notin members'[code]
         \/ \E code \in listed' : playerMap'[i] \in members'[code]]_vars

(***************************************************************************)
(* Liveness, under FairSpec.                                                *)
(***************************************************************************)

\* Whoever waits for the hub gets on: the readers that wait for space in Incoming,
\* the connections that come and those that go never wait for each other in a
\* circle.
NobodyStuck ==
    \A c \in Clients :
        pc[c] \in {"registering", "sending", "leaving"} ~> pc[c] \in {"reading", "gone"}

(***************************************************************************)
(* Refinement.                                                              *)
(***************************************************************************)
Place(p) == IF Fresh(p) THEN "new"
            ELSE IF \E code \in Codes : p \in members[code]
                 THEN CHOOSE code \in Codes : p \in members[code]
                 ELSE "gone"

Rooms == INSTANCE Directory WITH place <- [p \in Players |-> Place(p)]

\* Whatever the connections do, the rooms behave as Directory says.
ImplementsDirectory == Rooms!Spec

(***************************************************************************)
(* What documents and comments say and the code does not do.                *)
(***************************************************************************)

\* router.go: playerMap is the mapping from a client to its player: a client that
\* is connected never acts for a player made for another one.
ActsForOwnPlayer ==
    \A c \in registered : playerMap[id[c]] # NoPlayer => owner[playerMap[id[c]]] = c

\* That is so only because ids are shared: whomever a client acts for was made for
\* it or for another connection with the same number.  No other order of connects,
\* disconnects and late messages hands a player to a stranger.
SharesId(c) == \E d \in Clients \ {c} : id[d] = id[c]
OwnUnlessShared ==
    \A c \in registered :
        playerMap[id[c]] # NoPlayer => owner[playerMap[id[c]]] = c \/ SharesId(c)
==============================================================================
