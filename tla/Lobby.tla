------------------------------- MODULE Lobby -------------------------------
(***************************************************************************)
(* The lobby: connections (client_handler.py), the user registry           *)
(* (user_manager.py), the game table (room_manager.py, module Games), the  *)
(* maintenance thread and the administrator's commands (server.py).        *)
(*                                                                         *)
(* Every accepted connection has a User object with a fresh uid, so Uid is *)
(* both the set of connections and the set of user ids.  Each action is    *)
(* one whole handler.  Handlers of different connections run on threads of *)
(* their own; this module interleaves them as units.  Time is abstracted:  *)
(* a grace period may run out at any moment.                               *)
(***************************************************************************)
EXTENDS Games

CONSTANTS MaxUsers,         \* SERVER_MAX_PLAYERS
          DetachOnClose,    \* the values of LOBBY_DETACH_ON_PEER_CLOSE: the
                            \* administrator may reload the configuration
          ForceReady,       \* LOBBY_GJOI_FORCE_READY
          Unsteady          \* bound: the users whose sends may fail, or whom
                            \* the administrator kicks, while they are online

ASSUME LobbyAssumption ==
          /\ MaxUsers \in Nat \ {0}
          /\ DetachOnClose \subseteq BOOLEAN
          /\ ForceReady \in BOOLEAN
          /\ Unsteady \subseteq Uid

VARIABLES conn,        \* conn[u]: has the TCP connection been accepted, closed
          connected,   \* users whose User.connected is True
          detached,    \* users whose User.race_detached_at is not 0
          users,       \* the keys of UserManager._users
          game,        \* User.game, 0 for none
          racing,      \* users whose User.stat is STAT_GAME; STAT_LOBBY and
                       \* STAT_ROOM are not told apart
          table,       \* GameManager._games
          counter      \* Game._counter

tcpVars  == <<conn, connected, detached>>
seatVars == <<game, racing>>
gameVars == <<table, counter>>
vars     == <<tcpVars, users, seatVars, gameVars>>

TypeOK ==
    /\ conn \in [Uid -> {"new", "up", "gone"}]
    /\ connected \in SUBSET Uid
    /\ detached \in SUBSET Uid
    /\ users \in SUBSET Uid
    /\ game \in [Uid -> GameId \union {0}]
    /\ racing \in SUBSET Uid
    /\ table \in [GameId -> Game \union {NoGame}]
    /\ counter \in 1 .. MaxGameId + 1

Init ==
    /\ conn = [u \in Uid |-> "new"]
    /\ connected = {}
    /\ detached = {}
    /\ users = {}
    /\ game = [u \in Uid |-> 0]
    /\ racing = {}
    /\ table = [i \in GameId |-> NoGame]
    /\ counter = 1

-----------------------------------------------------------------------------
(***************************************************************************)
(* Helpers.                                                                *)
(***************************************************************************)
Up == {u \in Uid : conn[u] = "up"}          \* ClientHandler._lobby_handlers

UsersFull == Cardinality(users) >= MaxUsers

(* UserManager.add, through _ensure_registered_user: the call every command *)
(* makes first.  At capacity the user is not added and the command goes on. *)
Registered(c) == IF c \in users \/ ~UsersFull THEN users \union {c} ELSE users

(* games.get(user.game) is a game. *)
InGame(u) == game[u] # 0 /\ table[game[u]] # NoGame

(* The users whom _lobby_user_is_live accepts, in a registry us. *)
LiveUsers(us) == us \intersect connected

(* _lobby_prune_stale_games, on behalf of a command that has just made the *)
(* registry us: a game whose host is not live goes, the other games lose   *)
(* the players who are not live; games that are racing are left alone.     *)
PrunedRacesToo(us) ==                           \* mutant: no ACTIVE test
    [i \in GameId |->
       LET g == table[i]
       IN  IF g = NoGame THEN g
           ELSE IF g.host \notin LiveUsers(us) THEN NoGame
           ELSE Keep(g, LiveUsers(us))]
Pruned(us) ==
    [i \in GameId |->
       LET g == table[i]
       IN  IF g = NoGame \/ g.state = "ACTIVE" THEN g
           ELSE IF \/ g.host \notin LiveUsers(us)
                   \/ Keep(g, LiveUsers(us)).parts = {} THEN NoGame
           ELSE Keep(g, LiveUsers(us))]

(* _lobby_on_game_departure when d has left game i and that removed it:    *)
(* whom it sends back to the lobby.  If nobody was left it returns early.  *)
EvictedNobody(i, d, us) == {}                   \* mutant
Evicted(i, d, us) ==
    LET others == Members(RemovePlayer(table[i], d)) \ {d}
    IN  IF Removes(table[i], d) /\ others # {}
          THEN (others \union {d}) \intersect us ELSE {}

(* user.game = 0; user.stat = STAT_LOBBY, for all the users of a set. *)
ToLobby(S) ==
    /\ game' = [u \in Uid |-> IF u \in S THEN 0 ELSE game[u]]
    /\ racing' = racing \ S

(* user.game = i; user.stat = STAT_ROOM, or STAT_GAME, for a set of users. *)
ToRoom(S, i) ==
    /\ game' = [u \in Uid |-> IF u \in S THEN i ELSE game[u]]
    /\ racing' = racing \ S

ToRace(S, i) ==
    /\ game' = [u \in Uid |-> IF u \in S THEN i ELSE game[u]]
    /\ racing' = racing \union S

-----------------------------------------------------------------------------
(***************************************************************************)
(* Connecting and identifying.                                             *)
(***************************************************************************)
(* _accept_loop_on_socket starts a handler for a new User. *)
Connect(c) ==
    /\ conn[c] = "new"
    /\ conn' = [conn EXCEPT ![c] = "up"]
    /\ connected' = connected \union {c}
    /\ UNCHANGED <<detached, users, seatVars, gameVars>>

(* A user's TCP send fails (User.send), or an administrator kicks or bans   *)
(* the user of an open connection: the flag falls, the handler still runs.  *)
Disconnect(c) ==
    /\ c \in Up \intersect connected \intersect Unsteady
    /\ connected' = connected \ {c}
    /\ UNCHANGED <<conn, detached, users, seatVars, gameVars>>

(* The commands that only register the user here: auth, *ath, user, and    *)
(* every command without an effect on the lobby's state.  Whether a name   *)
(* is accepted is the business of module Identity.                         *)
Login(c) ==
    /\ c \in Up
    /\ users' = Registered(c)
    /\ UNCHANGED <<tcpVars, seatVars, gameVars>>

(* Users without a connection whose seat is kept for their return. *)
Ghosts == (users \intersect detached) \ connected

(* _lobby_reattach_detached_identity: c takes the seat of the ghost o. *)
Reattach(c, o) ==
    /\ users' = Registered(c) \ {o}
    /\ detached' = detached \ {o}
    /\ IF InGame(o)
         THEN /\ table' = [table EXCEPT ![game[o]] = Reseat(@, o, c)]
              /\ game' = [game EXCEPT ![c] = game[o], ![o] = 0]
              /\ racing' = IF o \in racing THEN racing \union {c} ELSE racing \ {c}
         ELSE /\ game' = [game EXCEPT ![o] = 0]
              /\ UNCHANGED <<table, racing>>

(* The pers, cper, PERS and *pat commands, once the persona is accepted.   *)
(* Any ghost may be the one that has this user's name and address.         *)
Pers(c) ==
    /\ c \in Up
    /\ \/ \E o \in Ghosts \ {c} : Reattach(c, o)
       \/ /\ users' = Registered(c)
          /\ UNCHANGED <<detached, seatVars, table>>
    /\ UNCHANGED <<conn, connected, counter>>

(* The sele command turns the keep-alive on. *)
Sele(c) ==
    /\ c \in Up
    /\ connected' = connected \union {c}
    /\ detached' = detached \ {c}
    /\ users' = Registered(c)
    /\ UNCHANGED <<conn, seatVars, gameVars>>

-----------------------------------------------------------------------------
(***************************************************************************)
(* Games.                                                                  *)
(***************************************************************************)
(* gsea, usea, ujoi, gset outside a game, and gjoi of a game that is not   *)
(* found: they prune and answer.                                           *)
Search(c) ==
    /\ c \in Up
    /\ users' = Registered(c)
    /\ table' = Pruned(users')
    /\ UNCHANGED <<tcpVars, seatVars, counter>>

(* usea or gjoi with the name of the race the client is in: it goes back   *)
(* to the room view (_lobby_active_room_reentry_game).                     *)
RoomReentry(c) ==
    /\ c \in Up
    /\ InGame(c)
    /\ users' = Registered(c)
    /\ LET g == table[game[c]]
       IN  /\ g.state = "ACTIVE"
           /\ c \in Members(g) \union {g.host}
           /\ c \in users'
    /\ table' = Pruned(users')
    /\ racing' = racing \ {c}
    /\ UNCHANGED <<tcpVars, game, counter>>

(* gcre by the host of a race: back to the room view. *)
GcreReentry(c) ==
    /\ c \in Up
    /\ InGame(c)
    /\ table[game[c]].state = "ACTIVE"
    /\ table[game[c]].host = c
    /\ users' = Registered(c)
    /\ racing' = racing \ {c}
    /\ UNCHANGED <<tcpVars, game, gameVars>>

(* gcre by the host of an open game only updates its parameters. *)
GcreUpdate(c) ==
    /\ c \in Up
    /\ InGame(c)
    /\ table[game[c]].state = "OPEN"
    /\ table[game[c]].host = c
    /\ users' = Registered(c)
    /\ UNCHANGED <<tcpVars, seatVars, gameVars>>

(* gcre by anyone else: leave the game one is a guest of, create a game of *)
(* limit l and sit down in it; ERR=full when the table is full.            *)
GcreNew(c, l) ==
    /\ c \in Up
    /\ ~(InGame(c) /\ table[game[c]].host = c)
    /\ counter <= MaxGameId
    /\ users' = Registered(c)
    /\ LET left    == IF InGame(c) THEN AfterLeave(table, game[c], c) ELSE table
           evicted == IF InGame(c) /\ table[game[c]].state = "OPEN"
                        THEN Evicted(game[c], c, users') ELSE {}
           cleared == IF InGame(c) THEN evicted \union {c} ELSE {}
       IN  IF Full(left)
             THEN /\ table' = left
                  /\ ToLobby(cleared)
                  /\ UNCHANGED counter
             ELSE /\ table' = [left EXCEPT ![counter] =
                                           AddPlayer(NewGame(c, l), c)]
                  /\ counter' = NextId(counter)
                  /\ game' = [u \in Uid |-> IF u = c THEN counter
                                            ELSE IF u \in cleared THEN 0
                                            ELSE game[u]]
                  /\ racing' = racing \ (cleared \union {c})
    /\ UNCHANGED tcpVars

(* gjoi of the open game i.  The game the user is in already is not left.  *)
(* A user who may not join is told not_joinable.                           *)
Gjoi(c, i) ==
    /\ c \in Up
    /\ users' = Registered(c)
    /\ LET t == Pruned(users')
           g == AddPlayer(t[i], c)
       IN  /\ t[i] # NoGame
           /\ t[i].state = "OPEN"
           /\ IF Joins(t[i], c) \/ (c \in users' /\ c \in Members(g) \union {g.host})
                THEN /\ table' = [t EXCEPT ![i] =
                                    IF ForceReady
                                      THEN [g EXCEPT !.ready = @ \union
                                              (Members(g) \intersect users')]
                                      ELSE g]
                     /\ IF ForceReady THEN ToRace({c}, i) ELSE ToRoom({c}, i)
                ELSE /\ table' = t
                     /\ UNCHANGED seatVars
    /\ UNCHANGED <<tcpVars, counter>>

(* mesg with ATTR=EGS: the player is ready. *)
Ready(c) ==
    /\ c \in Up
    /\ InGame(c)
    /\ users' = Registered(c)
    /\ table' = [table EXCEPT ![game[c]] = SetReady(@, c)]
    /\ UNCHANGED <<tcpVars, seatVars, counter>>

(* gsta: start one's game, or, outside a game, the one the command names.  *)
(* The registered participants are marked as racing.  During a countdown   *)
(* reset it is acknowledged only: a Login or a Search step.                *)
Gsta(c) ==
    /\ c \in Up
    /\ users' = Registered(c)
    /\ \E i \in GameId :
         LET t == IF InGame(c) THEN table ELSE Pruned(users')
         IN  /\ InGame(c) => i = game[c]
             /\ t[i] # NoGame
             /\ table' = [t EXCEPT ![i] = Start(@)]
             /\ ToRace((Members(t[i]) \union {t[i].host}) \intersect users', i)
    /\ UNCHANGED <<tcpVars, counter>>

(* glea, gdel and TERM. *)
Leave(c) ==
    /\ c \in Up
    /\ users' = Registered(c)
    /\ IF InGame(c)
         THEN /\ table' = AfterLeave(table, game[c], c)
              /\ ToLobby({c} \union Evicted(game[c], c, users'))
         ELSE /\ ToLobby({c})
              /\ UNCHANGED table
    /\ UNCHANGED <<tcpVars, counter>>

CloseUnmarked(c) ==                             \* mutant: detached unmarked
    /\ c \in Up
    /\ conn' = [conn EXCEPT ![c] = "gone"]
    /\ connected' = connected \ {c}
    /\ users' = IF InGame(c) THEN users ELSE users \ {c}
    /\ UNCHANGED <<detached, seatVars, gameVars>>

(* The connection is closed by the peer, by a timeout or after Disconnect: *)
(* _cleanup_on_close.  A user in a game is detached and stays registered.  *)
Close(c) ==
    /\ c \in Up
    /\ conn' = [conn EXCEPT ![c] = "gone"]
    /\ connected' = connected \ {c}
    /\ \/ /\ InGame(c) /\ TRUE \in DetachOnClose
          /\ detached' = detached \union {c}
          /\ UNCHANGED <<users, seatVars, table>>
       \/ /\ InGame(c) /\ FALSE \in DetachOnClose
          /\ table' = AfterLeave(table, game[c], c)
          /\ ToLobby({c} \union Evicted(game[c], c, users))
          /\ users' = users \ {c}
          /\ UNCHANGED detached
       \/ /\ ~InGame(c)
          /\ users' = users \ {c}
          /\ UNCHANGED <<detached, seatVars, table>>
    /\ UNCHANGED <<counter>>

-----------------------------------------------------------------------------
(***************************************************************************)
(* The maintenance thread (server.py, _periodic).                          *)
(***************************************************************************)
(* _cleanup_detached_race_users, for the ghost u whose grace is over.  With *)
(* nobody connected there is no handler to send the departure through.     *)
CleanupRacesOnly(u) ==                          \* mutant: forgets open games
    /\ u \in users \intersect detached
    /\ u \notin connected
    /\ InGame(u) => table[game[u]].state = "ACTIVE"
    /\ users' = users \ {u}
    /\ UNCHANGED <<tcpVars, seatVars, gameVars>>
CleanupDetached(u) ==
    /\ u \in users \intersect detached
    /\ u \notin connected
    /\ users' = users \ {u}
    /\ IF InGame(u)
         THEN /\ table' = AfterLeave(table, game[u], u)
              /\ LET out == IF Up = {} THEN {} ELSE Evicted(game[u], u, users')
                 IN  /\ game' = [v \in Uid |-> IF v \in out \union {u} THEN 0
                                               ELSE game[v]]
                     /\ racing' = racing \ out
         ELSE UNCHANGED <<seatVars, table>>
    /\ UNCHANGED <<tcpVars, counter>>

(* kick_inactive and the removal that follows it, after 300 idle seconds.  *)
(* An open connection touches its user at every receive timeout, and the   *)
(* ghost of an open game is given up after LOBBY_DETACHED_GRACE (20 s), so *)
(* only the ghost of a race whose UDP traffic goes on is idle that long.   *)
KickInactive(u) ==
    /\ u \in Ghosts
    /\ InGame(u)
    /\ table[game[u]].state = "ACTIVE"
    /\ users' = users \ {u}
    /\ UNCHANGED <<tcpVars, seatVars, gameVars>>

-----------------------------------------------------------------------------
(***************************************************************************)
(* The administrator (server.py).                                          *)
(***************************************************************************)
(* _admin_kick_user, of a user without a handler; with one it is Disconnect. *)
AdminKickUser(u) ==
    /\ u \in users \ Up
    /\ users' = users \ {u}
    /\ IF InGame(u)
         THEN /\ table' = AfterLeave(table, game[u], u)
              /\ ToLobby(IF Up = {} THEN {} ELSE Evicted(game[u], u, users))
         ELSE UNCHANGED <<seatVars, table>>
    /\ UNCHANGED <<tcpVars, counter>>

(* _admin_kick_from_game *)
AdminKickFromGameOnly(i, u) ==                  \* mutant: pointer kept
    /\ table[i] # NoGame
    /\ u \in Members(table[i]) \union {table[i].host}
    /\ table' = AfterLeave(table, i, u)
    /\ ToLobby(IF Up = {} THEN {} ELSE Evicted(i, u, users))
    /\ UNCHANGED <<tcpVars, users, counter>>
AdminKickFromGame(i, u) ==
    /\ table[i] # NoGame
    /\ u \in Members(table[i]) \union {table[i].host}
    /\ table' = AfterLeave(table, i, u)
    /\ ToLobby(({u} \intersect users) \union
                (IF Up = {} THEN {} ELSE Evicted(i, u, users)))
    /\ UNCHANGED <<tcpVars, users, counter>>

(* _admin_close_game; with nobody connected no departure is announced, and *)
(* only the users who point to the game are sent back.                     *)
AdminCloseGame(i) ==
    /\ table[i] # NoGame
    /\ table' = [table EXCEPT ![i] = NoGame]
    /\ LET all == (Members(table[i]) \union {table[i].host}) \intersect users
           out == IF Up = {} THEN {} ELSE Members(table[i]) \intersect users
       IN  /\ game' = [v \in Uid |-> IF v \in out \/ (v \in all /\ game[v] = i)
                                        THEN 0 ELSE game[v]]
           /\ racing' = racing \ all
    /\ UNCHANGED <<tcpVars, users, counter>>

-----------------------------------------------------------------------------
Identify(c) == Login(c) \/ Pers(c) \/ Sele(c)

Play(c) == \/ Search(c) \/ RoomReentry(c)
           \/ GcreReentry(c) \/ GcreUpdate(c) \/ \E l \in Limits : GcreNew(c, l)
           \/ \E i \in GameId : Gjoi(c, i)
           \/ Ready(c) \/ Gsta(c) \/ Leave(c)

Command(c) == Identify(c) \/ Play(c)

Tcp(c) == Connect(c) \/ Disconnect(c) \/ Close(c)

Periodic(u) == CleanupDetached(u) \/ KickInactive(u)

Admin == \/ \E u \in Uid : AdminKickUser(u)
         \/ \E i \in GameId : AdminCloseGame(i)
         \/ \E i \in GameId, u \in Uid : AdminKickFromGame(i, u)

Next == (\E u \in Uid : Tcp(u) \/ Command(u) \/ Periodic(u)) \/ Admin

Spec == Init /\ [][Next]_vars

-----------------------------------------------------------------------------
(***************************************************************************)
(* Properties.                                                             *)
(***************************************************************************)
Player(u) == u \in Up \intersect connected \intersect users

Seated(u, i) == table[i] # NoGame /\ u \in Members(table[i])

(* Neither the user registry nor the game table exceeds its capacity. *)
Capacity == /\ Cardinality(users) <= MaxUsers
            /\ Cardinality(Live(table)) <= MaxGames

(* A game is never without its host, never marks a player ready who has no *)
(* seat, and never has more players than its limit: through joins, leaves, *)
(* pruning and the seat swap of a reattachment.                            *)
GamesWellFormed ==
    \A i \in Live(table) : /\ table[i].host \in Members(table[i])
                           /\ table[i].ready \subseteq Members(table[i])
                           /\ Count(table[i]) <= table[i].limit

(* A registry slot is held by an open connection or by a ghost, which the  *)
(* maintenance thread will release: no slot is lost when connections close,*)
(* are kicked or are taken over.                                           *)
NoLeakedSlot == \A u \in users : u \in Up \/ u \in detached

(* A game is created under an id that nobody points to: user.game may keep *)
(* naming a game that is gone, and never finds another one there.          *)
FreshGame ==
    [][\A i \in GameId : table[i] = NoGame /\ table'[i] # NoGame =>
          \A u \in Uid : game[u] # i]_vars

(* A connected user whose status is "racing" is in a game that is racing.  *)
RacersRace ==
    \A u \in racing : Player(u) => InGame(u) /\ table[game[u]].state = "ACTIVE"

(* No step takes a seat away from a player behind their back: as long as   *)
(* the game exists, who was seated and pointed to it still has the seat or *)
(* no longer points to it.                                                 *)
SeatStays(u) ==
    LET i == game[u]
    IN  table'[i] # NoGame => u \in Members(table'[i]) \/ game'[u] # i

SeatKept ==
    [][\A u \in Uid : Player(u) /\ InGame(u) /\ Seated(u, game[u]) =>
                      SeatStays(u)]_vars

(* A race disappears only when its host leaves it, is kicked from it or is *)
(* given up as a ghost, or when the administrator closes it; what the      *)
(* other players do, pruning included, never ends it.                      *)
HostEnds(i, h) ==
    \/ Leave(h) \/ Close(h) \/ CleanupDetached(h) \/ AdminKickUser(h)
    \/ AdminKickFromGame(i, h) \/ AdminCloseGame(i)

RaceEndsWithHost ==
    [][\A i \in Live(table) :
          table[i].state = "ACTIVE" /\ table'[i] = NoGame =>
            HostEnds(i, table[i].host)]_vars

(* The returning user c has what the ghost u had in the game: every place  *)
(* (not one more, and nobody else's), the host's role, the ready mark and  *)
(* the status; u is gone from the game and from the registry.              *)
TakenOver(u, c) ==
    LET i == game[u]
    IN  /\ u \notin users'
        /\ game'[c] = i
        /\ u \in racing => c \in racing'
        /\ Entries(table'[i], u) = {}
        /\ Times(table'[i], c) = Times(table[i], c) + Times(table[i], u)
        /\ \A v \in Uid \ {u, c} : Entries(table'[i], v) = Entries(table[i], v)
        /\ u = table[i].host => table'[i].host = c
        /\ u \in table[i].ready => c \in table'[i].ready

StaysReserved(u) ==
    LET i == game[u]
    IN  \/ table'[i] = NoGame
        \/ u \in users' /\ u \in Members(table'[i])
        \/ \E c \in Up \ {u} : TakenOver(u, c)

(* While a racer is a ghost, no command of a player takes the seat unless  *)
(* the race ends: either the ghost keeps it, and stays registered, or one  *)
(* connected client takes over all that the ghost had.                     *)
RacerReserved ==
    [][\A u \in Ghosts :
          /\ InGame(u) /\ Seated(u, game[u]) /\ table[game[u]].state = "ACTIVE"
          /\ \E c \in Uid : Command(c)
          => StaysReserved(u)]_vars

-----------------------------------------------------------------------------
(***************************************************************************)
(* Liveness.  The maintenance thread looks at every ghost once a second,   *)
(* so the first grace period that is over is acted on: weak fairness of    *)
(* Periodic.  (UDP traffic may put off the cleanup of a race for ever, but *)
(* then kick_inactive finds the ghost idle.)  Nothing is assumed about     *)
(* clients or administrators.                                              *)
(***************************************************************************)
FairSpec == Spec /\ \A u \in Uid : WF_vars(Periodic(u))

(* The registry slot of a ghost is released, or taken over, in the end. *)
GhostsReleased ==
    \A u \in Uid : u \in Ghosts ~> u \notin users
=============================================================================
