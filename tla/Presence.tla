------------------------------ MODULE Presence ------------------------------
(***************************************************************************)
(* What the players of a room are told of each other (client_handler.py):  *)
(* the frames +who, +usm, onln and +mgm, the staging and promotion of a    *)
(* guest who has just joined, the ready and countdown phases, and the      *)
(* refreshes and departure notices that timer threads send later.          *)
(*                                                                         *)
(* A command's replies leave with the command.  What a timer sends does    *)
(* not: it waits in `later', the list of timers and of frames in flight,   *)
(* in the order in which they were scheduled or computed.  A timer that    *)
(* runs computes its frames and puts them at the end of the list; they are *)
(* sent in a step of their own, one client at a time.                      *)
(*                                                                         *)
(* All users stay connected and registered here: module Lobby has the      *)
(* connections.  A frame tells a client that a user is in a room (G is the *)
(* room's number) or is not (G=0); room ident and protocol id are not told *)
(* apart.                                                                  *)
(***************************************************************************)
EXTENDS Games, Sequences

CONSTANTS MaxLater,     \* bound: the timers and frames in flight at a time
          Hosts,        \* bound: the users who open rooms
          Guests        \* bound: the users who join rooms with gjoi

ASSUME PresenceAssumption ==
          MaxLater \in Nat \ {0} /\ Hosts \subseteq Uid /\ Guests \subseteq Uid

VARIABLES table,      \* GameManager._games
          counter,    \* Game._counter
          game,       \* User.game, 0 for none
          phase,      \* the attributes of the Game objects, see Fresh
          auxi,       \* _lobby_post_gjoi_auxi_game_id, of the user's handler
          promoted,   \* handlers with _lobby_post_gjoi_promoted
          staged,     \* handlers with _lobby_post_gjoi_staged
          later,      \* threading.Timer objects, and the frames they computed
          shows,      \* shows[v]: the others of whom v's client was told last
                      \* that they are in the room v is in
          stagedIn    \* history: the room whose staging frames a guest was
                      \* sent since it joined

roomVars  == <<table, counter, game>>
joinVars  == <<auxi, promoted, staged, stagedIn>>
vars      == <<roomVars, phase, joinVars, later, shows>>

(* rank is game._lobby_ready_aux_phase_rank (0 in the room, 1 ready, 2      *)
(* counting down), reset that _lobby_countdown_reset_until is to come, and *)
(* unveiled is game._lobby_post_gjoi_promoted.                             *)
Fresh == [rank |-> 0, reset |-> FALSE, unveiled |-> FALSE]

Any == 3                \* the phase of a refresh that is sent in any phase

(* A timer, or a frame in flight: the clients it goes to, and whom it is    *)
(* about.                                                                  *)
Pending == [kind  : {"staging", "refresh", "staged", "show", "roster", "clear"},
            room  : GameId,
            to    : SUBSET Uid,
            who   : SUBSET Uid,
            phase : 0 .. Any]

TypeOK ==
    /\ table \in [GameId -> Game \union {NoGame}]
    /\ counter \in 1 .. (MaxGameId + 1)
    /\ game \in [Uid -> 0 .. MaxGameId]
    /\ phase \in [GameId -> [rank : 0 .. 2, reset : BOOLEAN, unveiled : BOOLEAN]]
    /\ auxi \in [Uid -> 0 .. MaxGameId]
    /\ promoted \subseteq Uid
    /\ staged \subseteq Uid
    /\ later \in Seq(Pending)
    /\ shows \in [Uid -> SUBSET Uid]
    /\ stagedIn \in [Uid -> 0 .. MaxGameId]

Init ==
    /\ table = [i \in GameId |-> NoGame]
    /\ counter = 1
    /\ game = [u \in Uid |-> 0]
    /\ phase = [i \in GameId |-> Fresh]
    /\ auxi = [u \in Uid |-> 0]
    /\ promoted = {}
    /\ staged = {}
    /\ later = <<>>
    /\ shows = [v \in Uid |-> {}]
    /\ stagedIn = [u \in Uid |-> 0]

-----------------------------------------------------------------------------
(***************************************************************************)
(* What clients show of the room they are in.  A +mgm or a reply with the  *)
(* OPPO fields is a roster and replaces what was shown; +who, +usm and     *)
(* onln are about one user.  A client that leaves shows nothing; what it   *)
(* is told of another room does not count: it gets a roster when it joins. *)
(***************************************************************************)
(* A +usm, +who or onln with G=room about each of S, sent to v. *)
Shown(v, S) == (shows[v] \union S) \ {v}

(* A +usm or onln without a room about each of S, sent to v. *)
Cleared(v, S) == shows[v] \ S

TellRoster(V, S) ==
    shows' = [v \in Uid |-> IF v \in V THEN S \ {v} ELSE shows[v]]

(* games.get(user.game) is a game. *)
InGame(u) == game[u] # 0 /\ table[game[u]] # NoGame

(***************************************************************************)
(* Timers and frames in flight.                                            *)
(***************************************************************************)
Item(kind, i, to, who, r) ==
    [kind |-> kind, room |-> i, to |-> to, who |-> who, phase |-> r]

Staging(u, i)   == Item("staging", i, {u}, {}, Any)   \* 0.03 s after gjoi
Refresh(i, r)   == Item("refresh", i, {}, {}, r)      \* 0.02 s to 0.10 s
Clear(d, i, V)  == Item("clear", i, V, {d}, Any)      \* 0.12 s

Frames == {"staged", "show", "roster"}       \* computed already

(* Bounds: the length of the list, and one refresh waits at a time. *)
Fits(s) ==
    /\ Len(later) + Len(s) <= MaxLater
    /\ \A k \in 1 .. Len(s), j \in 1 .. Len(later) :
          {s[k].kind, later[j].kind} # {"refresh"}

Send(s) == Fits(s) /\ later' = later \o s

(* Not an action of the server: no frame for v waits to be sent. *)
Served(v) == \A k \in 1 .. Len(later) :
                later[k].kind \in Frames => v \notin later[k].to

-----------------------------------------------------------------------------
(***************************************************************************)
(* _lobby_on_game_departure, when d has left game i.  If the game is gone  *)
(* the others are sent back to the lobby (what they are told of it 0.01 s  *)
(* later is about a room they are not in any more, and is left out).  If   *)
(* it goes on they are sent its roster of this moment, 0.01 s later, and   *)
(* that d is gone, once more, 0.12 s later.                                *)
(***************************************************************************)
Others(i, d) == Members(table[i]) \ {d}

Evicted(i, d) == IF Removes(table[i], d) THEN Others(i, d) ELSE {}

DepartureOnce(i, d) ==                          \* mutant: no second notice
    IF Removes(table[i], d) THEN <<>>
    ELSE <<Item("roster", i, Others(i, d), Others(i, d), Any)>>
Departure(i, d) ==
    IF Removes(table[i], d) THEN <<>>
    ELSE <<Item("roster", i, Others(i, d), Others(i, d), Any),
           Clear(d, i, Others(i, d))>>

(* The attributes go with their Game object. *)
AfterPhase(t) == [i \in GameId |-> IF t[i] = NoGame THEN Fresh ELSE phase[i]]

-----------------------------------------------------------------------------
(***************************************************************************)
(* Rooms.                                                                  *)
(***************************************************************************)
(* gcre, by someone who is not the host of an open game or a race: leave,   *)
(* and open a room, unless the table is full.  Only the departure from an  *)
(* open game is announced.                                                 *)
Gcre(u, l) ==
    /\ u \in Hosts
    /\ ~(InGame(u) /\ table[game[u]].host = u)
    /\ counter <= MaxGameId
    /\ LET i    == game[u]
           open == InGame(u) /\ table[i].state = "OPEN"
           left == IF InGame(u) THEN AfterLeave(table, i, u) ELSE table
           full == Full(left)
           out  == IF open THEN Evicted(i, u) ELSE {}
       IN  /\ table' = IF full THEN left
                       ELSE [left EXCEPT ![counter] = AddPlayer(NewGame(u, l), u)]
           /\ counter' = IF full THEN counter ELSE NextId(counter)
           /\ game' = [v \in Uid |->
                 IF v = u THEN (IF full /\ ~InGame(u) THEN i
                                ELSE IF full THEN 0 ELSE counter)
                 ELSE IF v \in out THEN 0 ELSE game[v]]
           /\ phase' = AfterPhase(left)
           /\ TellRoster(out \union {u}, {})
           /\ Send(IF open THEN Departure(i, u) ELSE <<>>)
    /\ UNCHANGED joinVars

(* What the handler of a guest notes at a join. *)
NewcomerStillStaged(u, i) ==                    \* mutant: staged kept
    /\ auxi' = [auxi EXCEPT ![u] = i]
    /\ promoted' = promoted \ {u}
    /\ stagedIn' = [stagedIn EXCEPT ![u] = 0]
    /\ UNCHANGED staged
NewcomerStillPromoted(u, i) ==                  \* mutant: promoted kept
    /\ auxi' = [auxi EXCEPT ![u] = i]
    /\ staged' = staged \ {u}
    /\ stagedIn' = [stagedIn EXCEPT ![u] = 0]
    /\ UNCHANGED promoted
Newcomer(u, i) ==
    /\ auxi' = [auxi EXCEPT ![u] = i]
    /\ promoted' = promoted \ {u}
    /\ staged' = staged \ {u}
    /\ stagedIn' = [stagedIn EXCEPT ![u] = 0]

(* gjoi of an open game, and, with its token, GJOI, which starts no timer. *)
(* The countdown is put back for the newcomer.                             *)
Gjoi(u, i, plain) ==
    /\ u \in Guests /\ Served(u)
    /\ table[i] # NoGame
    /\ table[i].state = "OPEN"
    /\ CanJoin(table[i], u)
    /\ table' = [table EXCEPT ![i] = AddPlayer(@, u)]
    /\ game' = [game EXCEPT ![u] = i]
    /\ Newcomer(u, i)
    /\ phase' = [phase EXCEPT ![i].unveiled = FALSE, ![i].reset = TRUE]
    /\ Send(IF plain THEN <<Staging(u, i)>> ELSE <<>>)
    /\ TellRoster({u}, Members(table'[i]))
    /\ UNCHANGED counter

(* glea, gdel and TERM. *)
Leave(u) ==
    /\ InGame(u)
    /\ LET i   == game[u]
           out == Evicted(i, u) \union {u}
       IN  /\ table' = AfterLeave(table, i, u)
           /\ game' = [v \in Uid |-> IF v \in out THEN 0 ELSE game[v]]
           /\ phase' = AfterPhase(table')
           /\ TellRoster(out, {})
           /\ Send(Departure(i, u))
    /\ UNCHANGED <<counter, joinVars>>

(* gset in a game, and gcre by the host of an open game or of a race: the  *)
(* client is answered with the roster.                                     *)
Answer(u) ==
    /\ InGame(u)
    /\ TellRoster({u}, Members(table[game[u]]))

Gset(u) == Answer(u) /\ UNCHANGED <<roomVars, phase, joinVars, later>>

(* uadm in a game renames it, tells the others its name (not who is in it), *)
(* and answers with the roster, too.                                       *)
Uadm(u) == Answer(u) /\ UNCHANGED <<roomVars, phase, joinVars, later>>

(* gjoi with the name of the race one is in: back to the room view.  All    *)
(* players are sent the roster again.                                      *)
Racing(u) == InGame(u) /\ table[game[u]].state = "ACTIVE"
                       /\ u \in Members(table[game[u]])

Reenter(u) ==
    /\ Racing(u)
    /\ LET P == Members(table[game[u]])
       IN  TellRoster(P \intersect {v \in Uid : game[v] = game[u]}, P)
    /\ UNCHANGED <<roomVars, phase, joinVars, later>>

(* The same by usea: the client is told of each player that it is in no    *)
(* room (+usm with G=0), and nobody else is told anything.                 *)
ReenterView(u) ==
    /\ Racing(u)
    /\ shows' = [shows EXCEPT ![u] = Cleared(u, Members(table[game[u]]))]
    /\ UNCHANGED <<roomVars, phase, joinVars, later>>

(* onln: where is the user w?  The host of a room whose newest guest was   *)
(* promoted is sent the roster, too.                                       *)
Onln(u, w) ==
    /\ w # u
    /\ LET i == game[u]
       IN  shows' = [shows EXCEPT ![u] =
              IF ~InGame(u) \/ w \notin Members(table[i]) THEN Cleared(u, {w})
              ELSE IF phase[i].unveiled /\ table[i].host = u
                     THEN Members(table[i]) \ {u}
              ELSE Shown(u, {w})]
    /\ UNCHANGED <<roomVars, phase, joinVars, later>>

-----------------------------------------------------------------------------
(***************************************************************************)
(* Staging and promotion of a guest.                                       *)
(***************************************************************************)
(* _promote_post_gjoi: the guest is sent the staging frames, unless it has *)
(* them, and the roster; the others that the guest is not in play yet.     *)
Promote(u) ==
    LET i == game[u]
    IN  /\ promoted' = promoted \union {u}
        /\ auxi' = [auxi EXCEPT ![u] = 0]
        /\ phase' = [phase EXCEPT ![i].unveiled = TRUE]
        /\ stagedIn' = IF u \in staged THEN stagedIn
                       ELSE [stagedIn EXCEPT ![u] = i]
        /\ staged' = staged \union {u}
        /\ shows' = [v \in Uid |->
              IF v = u THEN Members(table[i]) \ {u}
              ELSE IF game[v] = i /\ v \in Members(table[i])
                     THEN Cleared(v, {u})
              ELSE shows[v]]
        /\ UNCHANGED later

(* _emit_active_auxi_refresh: the players are told that u is in the race.   *)
ActiveRefresh(i, u) ==
    shows' = [v \in Uid |->
       IF {u, v} \subseteq Members(table[i]) /\ game[v] = i
         THEN Shown(v, {u}) ELSE shows[v]]

(* auxi.  During a race the players are told at once; the first auxi after *)
(* a gjoi promotes the guest; later ones refresh the room, and in the      *)
(* ready phase only if the room is still in that phase then.               *)
Auxi(u) ==
    /\ InGame(u)
    /\ LET i == game[u]
           g == table[i]
       IN  IF g.state = "ACTIVE"
             THEN /\ ActiveRefresh(i, u)
                  /\ UNCHANGED <<phase, joinVars, later>>
             ELSE IF auxi[u] = i /\ u \notin promoted
                    THEN Promote(u)
             ELSE /\ Send(<<Refresh(i, IF phase[i].rank = 1 THEN 1 ELSE Any)>>)
                  /\ UNCHANGED <<phase, joinVars, shows>>
    /\ UNCHANGED roomVars

-----------------------------------------------------------------------------
(***************************************************************************)
(* Ready, countdown and start.                                             *)
(***************************************************************************)
(* mesg with EGS: the player is ready (the mark itself is in module Lobby).*)
(* Two refreshes follow 0.10 s later, with +who and +usm and with onln, if *)
(* the phase is the same by then: they show the same, and one stands for   *)
(* both.                                                                   *)
Ready(u) ==
    /\ InGame(u)
    /\ LET i == game[u]
           r == IF phase[i].rank = 2 THEN 2 ELSE 1
       IN  /\ phase' = [phase EXCEPT ![i].rank = r]
           /\ Send(<<Refresh(i, r)>>)
    /\ UNCHANGED <<roomVars, joinVars, shows>>

(* mesg with EGT: the time of the countdown, unless it was just put back   *)
(* (an EGT that takes the countdown back, TIME=-1, changes nothing).       *)
CountDown(u) ==
    /\ InGame(u)
    /\ ~phase[game[u]].reset
    /\ phase' = [phase EXCEPT ![game[u]].rank = 2]
    /\ UNCHANGED <<roomVars, joinVars, later, shows>>

(* LOBBY_JOIN_COUNTDOWN_DELAY has passed since the last gjoi. *)
ResetOver(i) ==
    /\ phase[i].reset
    /\ phase' = [phase EXCEPT ![i].reset = FALSE]
    /\ UNCHANGED <<roomVars, joinVars, later, shows>>

(* _lobby_mark_game_participants_in_race. *)
InRace(i) ==
    game' = [v \in Uid |-> IF v \in Members(table[i]) THEN i ELSE game[v]]

(* _emit_race_start_bursts: +usm about every player, and the roster. *)
Bursts(i) == TellRoster(Members(table[i]), Members(table[i]))

(* gsta, which a put-back countdown holds up, and GSTA, which it does not: *)
(* start, and the race-start bursts to all players.                        *)
Gsta(u, upper) ==
    /\ InGame(u)
    /\ upper \/ ~phase[game[u]].reset
    /\ table' = [table EXCEPT ![game[u]] = Start(@)]
    /\ InRace(game[u])
    /\ Bursts(game[u])
    /\ UNCHANGED <<counter, phase, joinVars, later>>

-----------------------------------------------------------------------------
(***************************************************************************)
(* Timers.                                                                 *)
(***************************************************************************)
Without(k) == SubSeq(later, 1, k - 1) \o SubSeq(later, k + 1, Len(later))

(* Item k turns into frames computed now, or into nothing. *)
Becomes(k, s) == later' = Without(k) \o s

(* _post_gjoi_guest_staging_frames: to the guest u, about every player. *)
StagingFrames(i, u) == Item("staged", i, {u}, Members(table[i]), Any)

(* _staging has nothing to do when the guest was promoted meanwhile, or    *)
(* has joined another game.                                                *)
Overtaken(u, i) == u \in promoted \/ auxi[u] # i

RunStaging(k) ==
    /\ later[k].kind = "staging"
    /\ LET i == later[k].room
           u == CHOOSE v \in Uid : v \in later[k].to
       IN  Becomes(k, IF Overtaken(u, i) \/ table[i] = NoGame THEN <<>>
                      ELSE <<StagingFrames(i, u)>>)
    /\ UNCHANGED <<roomVars, phase, joinVars, shows>>

(* _emit_presence_refresh and the refreshes that ask for the phase first. *)
RunRefresh(k) ==
    /\ later[k].kind = "refresh"
    /\ LET i == later[k].room
           r == later[k].phase
       IN  Becomes(k, IF r \notin {Any, phase[i].rank} \/ table[i] = NoGame THEN <<>>
                      ELSE <<Item("show", i, Members(table[i]),
                                  Members(table[i]), Any)>>)
    /\ UNCHANGED <<roomVars, phase, joinVars, shows>>

(* Item k was sent to v, and waits for the rest of its addressees. *)
SentTo(k, v) ==
    LET rest == later[k].to \ {v}
    IN  later' = IF rest = {} THEN Without(k)
                 ELSE [later EXCEPT ![k].to = rest]

(* The staging frames reach the guest v, and then the flag is set and the  *)
(* others are told that the guest is not in play yet.                      *)
SendStaged(k, v) ==
    /\ later[k].kind = "staged"
    /\ v \in later[k].to
    /\ LET i == later[k].room
       IN  /\ staged' = staged \union {v}
           /\ stagedIn' = [stagedIn EXCEPT ![v] = i]
           /\ shows' = [w \in Uid |->
                 IF game[w] # i THEN shows[w]
                 ELSE IF w = v THEN Shown(w, later[k].who)
                 ELSE IF InGame(w) /\ w \in Members(table[i])
                        THEN Cleared(w, {v})
                 ELSE shows[w]]
    /\ SentTo(k, v)
    /\ UNCHANGED <<roomVars, phase, auxi, promoted>>

SendShow(k, v) ==
    /\ later[k].kind = "show"
    /\ v \in later[k].to
    /\ shows' = IF game[v] = later[k].room
                  THEN [shows EXCEPT ![v] = Shown(v, later[k].who)]
                  ELSE shows
    /\ SentTo(k, v)
    /\ UNCHANGED <<roomVars, phase, joinVars>>

(* The departure frames of 0.01 s; should_send asks for User.game. *)
SendRoster(k, v) ==
    /\ later[k].kind = "roster"
    /\ v \in later[k].to
    /\ IF game[v] = later[k].room THEN TellRoster({v}, later[k].who)
       ELSE UNCHANGED shows
    /\ SentTo(k, v)
    /\ UNCHANGED <<roomVars, phase, joinVars>>

(* The second departure notice, 0.12 s after the departure: by then every  *)
(* frame that was computed before the departure has been sent.             *)
SendClear(k, v) ==
    /\ later[k].kind = "clear"
    /\ v \in later[k].to
    /\ \A j \in 1 .. k - 1 : later[j].kind \notin Frames
    /\ shows' = IF game[v] = later[k].room
                  THEN [shows EXCEPT ![v] = Cleared(v, later[k].who)] ELSE shows
    /\ SentTo(k, v)
    /\ UNCHANGED <<roomVars, phase, joinVars>>

Fire(k) ==
    /\ k <= Len(later)
    /\ \/ RunStaging(k) \/ RunRefresh(k)
       \/ \E v \in Uid : \/ SendStaged(k, v) \/ SendShow(k, v)
                         \/ SendRoster(k, v) \/ SendClear(k, v)

-----------------------------------------------------------------------------
Command(u) ==
    \/ \E l \in Limits : Gcre(u, l)
    \/ \E i \in GameId, plain \in BOOLEAN : Gjoi(u, i, plain)
    \/ Leave(u)
    \/ Gset(u) \/ Uadm(u) \/ Reenter(u) \/ ReenterView(u)
    \/ \E w \in Uid : Onln(u, w)
    \/ Auxi(u) \/ Ready(u) \/ CountDown(u)
    \/ \E upper \in BOOLEAN : Gsta(u, upper)

Next == \/ \E u \in Uid : Command(u)
        \/ \E i \in GameId : ResetOver(i)
        \/ \E k \in 1 .. MaxLater : Fire(k)

(* A timer thread runs when its time has come: the oldest timer or frame   *)
(* in flight does not wait for ever.  Clients owe nothing.                 *)
Spec == Init /\ [][Next]_vars /\ WF_vars(Fire(1))

-----------------------------------------------------------------------------
(***************************************************************************)
(* Properties.                                                             *)
(***************************************************************************)
(* Nobody in an open room is shown a player who is gone for good: when a   *)
(* client shows a user in the room it is in, the user is there, or the     *)
(* notice that takes it off the screen is on its way, whatever refreshes   *)
(* were under way when the user left.  (Leaving a race with gcre is not    *)
(* announced.)                                                             *)
Correction(v, u, i) ==
    \E k \in 1 .. Len(later) : /\ later[k].kind = "clear"
                               /\ later[k].room = i
                               /\ v \in later[k].to
                               /\ u \in later[k].who

NoPhantoms ==
    \A v \in Uid : InGame(v) =>
       LET g == table[game[v]]
       IN  g.state = "OPEN" /\ v \in Members(g) =>
             \A u \in shows[v] : \/ u \in Members(g)
                                 \/ Correction(v, u, game[v])

(* A guest who is promoted has been sent the staging frames of this room   *)
(* since it joined, by the timer or with the promotion.                    *)
PromotedStaged ==
    [][\A u \in Uid : u \notin promoted /\ u \in promoted' =>
          stagedIn'[u] = game[u]]_vars

(* A guest who joined with gjoi is staged, unless it is promoted before    *)
(* (see PromotedStaged), leaves the room or joins another one.             *)
Waits(u, i) ==
    \E k \in 1 .. Len(later) : /\ later[k].kind = "staging"
                               /\ later[k].room = i
                               /\ u \in later[k].to

StagedSoon ==
    \A u \in Uid, i \in GameId :
       Waits(u, i) ~> \/ stagedIn[u] = i \/ auxi[u] # i
                      \/ game[u] # i \/ table[i] = NoGame
=============================================================================
