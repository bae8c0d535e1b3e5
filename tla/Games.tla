------------------------------- MODULE Games -------------------------------
(***************************************************************************)
(* The game table of room_manager.py: the Game object and the pure part of *)
(* GameManager, as operators over one game record and over the whole       *)
(* table.  The table is a total function on the ids that Game._counter can *)
(* hand out; an id that was never created, or was destroyed, maps to       *)
(* NoGame.  Modules that add processes (Lobby, and the ones that come      *)
(* after it) keep the table in a variable and change it only through these *)
(* operators.                                                              *)
(***************************************************************************)
EXTENDS Integers, FiniteSets

CONSTANTS Uid,          \* user ids, one per accepted connection
          MaxGameId,    \* bound: Game._counter stops here
          MaxGames,     \* GAMES, the capacity of the table
          Limits,       \* the seat limits a client may ask for in gcre
          NoGame        \* what games.get returns for an unknown id (None)

ASSUME GamesAssumption ==
          /\ MaxGameId \in Nat \ {0}
          /\ MaxGames \in Nat \ {0}
          /\ Limits \subseteq Nat \ {0, 1}      \* max(2, ...) in _cmd_gcre

GameId == 1 .. MaxGameId

(***************************************************************************)
(* Game.participants is a list in which a uid may occur more than once.    *)
(* Its order only orders the fields of the frames that are sent, so the    *)
(* list is kept as the set of its entries <<uid, k>>, where k tells the    *)
(* occurrences of one uid apart.                                           *)
(***************************************************************************)
Entry == Uid \X Nat

Game == [host  : Uid,                           \* host_uid
         limit : Limits,
         parts : SUBSET Entry,                  \* participants
         ready : SUBSET Uid,                    \* ready_participants
         state : {"OPEN", "ACTIVE"}]

ASSUME NoGameAssumption == NoGame \notin Game

Members(g) == {e[1] : e \in g.parts}

Entries(g, u) == {e \in g.parts : e[1] = u}

Times(g, u) == Cardinality(Entries(g, u))

Count(g) == Cardinality(g.parts)                \* Game.count

(* Game._counter += 1. *)
NextIdStuck(n) == n                             \* mutant
NextId(n) == n + 1

NewGame(h, l) == [host |-> h, limit |-> l, parts |-> {}, ready |-> {},
                  state |-> "OPEN"]

(***************************************************************************)
(* Game.  kicked_uids is never filled (mark_kicked has no caller) and gcre *)
(* passes no secret, so the two tests of can_join on them are always       *)
(* passed and are left out.                                                *)
(***************************************************************************)
CanJoinOneTooMany(g, u) == \/ u = g.host        \* mutant
                           \/ u \in Members(g)
                           \/ /\ Count(g) <= g.limit
                              /\ g.state = "OPEN"
CanJoin(g, u) == \/ u = g.host
                 \/ u \in Members(g)
                 \/ /\ Count(g) < g.limit
                    /\ g.state = "OPEN"

Joins(g, u) == CanJoin(g, u) /\ u \notin Members(g)

AddPlayer(g, u) == IF Joins(g, u) THEN [g EXCEPT !.parts = @ \union {<<u, 0>>}] ELSE g

(* participants.remove(uid) drops one occurrence only. *)
RemovePlayer(g, u) == [g EXCEPT !.parts = @ \ {<<u, Times(g, u) - 1>>},
                                !.ready = @ \ {u}]

SetReady(g, u) == IF u \in Members(g) THEN [g EXCEPT !.ready = @ \union {u}]
                                      ELSE g

Start(g) == [g EXCEPT !.state = "ACTIVE"]

(* The seat swap of _lobby_reattach_detached_identity: old becomes new in   *)
(* the participants, as the host and among the ready.                      *)
ReseatHostOnly(g, old, new) ==                  \* mutant
    [g EXCEPT !.host = IF @ = old THEN new ELSE @]
Reseat(g, old, new) ==
    [g EXCEPT !.parts = (@ \ Entries(g, old)) \union
                        {<<new, Times(g, new) + e[2]>> : e \in Entries(g, old)},
              !.host  = IF @ = old THEN new ELSE @,
              !.ready = IF old \in @ THEN (@ \ {old}) \union {new} ELSE @]

(* What pruning leaves of a game when only the users K are live. *)
Keep(g, K) == [g EXCEPT !.parts = {e \in @ : e[1] \in K},
                        !.ready = @ \intersect K]

(***************************************************************************)
(* GameManager, on a table t.                                              *)
(***************************************************************************)
Live(t) == {i \in GameId : t[i] # NoGame}

FullLate(t) == Cardinality(Live(t)) > MaxGames  \* mutant
Full(t) == Cardinality(Live(t)) >= MaxGames

(* leave: the game goes away with its host, or with its last participant.  *)
Removes(g, u) == u = g.host \/ RemovePlayer(g, u).parts = {}

AfterLeave(t, i, u) ==
    [t EXCEPT ![i] = IF Removes(@, u) THEN NoGame ELSE RemovePlayer(@, u)]
=============================================================================
