------------------------------ MODULE Identity ------------------------------
(***************************************************************************)
(* Who a lobby connection is: names, personas, bans and the registry       *)
(* (client_handler.py, user_manager.py, server.py).  Every connection has  *)
(* a thread of its own; a name or persona is compared with those of the    *)
(* other users and assigned later, without a lock.  user.connected is set  *)
(* by several threads and looked at by the handler's loop between reads.   *)
(*                                                                         *)
(* A User has a default name and no persona; where it has none the code    *)
(* falls back to the name, so here the persona is the default name too.    *)
(* Case is folded before comparing: a Name is what is compared.            *)
(***************************************************************************)
EXTENDS Naturals, FiniteSets

CONSTANTS User,         \* uids of the connections' Users, given in order
          Name,         \* names and personas
          Own,          \* Own[u]: the default name, Player<uid>
          None,         \* no user
          Ip,
          IpOf,         \* the address of a connection
          MaxUsers,     \* SERVER_MAX_PLAYERS
          Banned,       \* what the file of bans may hold at the start
          Verify,       \* values AUTH_VERIFY takes, as the file is reloaded
          MaxFrames,    \* bound: frames that name or claim
          MaxAdmin      \* bound: commands of the administrator

ASSUME IdentityAssumption ==
          /\ User \subseteq Nat
          /\ Own \in [User -> Name]
          /\ \A u, v \in User : Own[u] = Own[v] => u = v
          /\ IpOf \in [User -> Ip]
          /\ None \notin User
          /\ Banned \subseteq [names : SUBSET Name, personas : SUBSET Name, ips : SUBSET Ip]
          /\ Verify \subseteq BOOLEAN
          /\ {MaxUsers, MaxFrames, MaxAdmin} \subseteq Nat

VARIABLES up,           \* up[u]: "new", "up" or "gone", the handler's thread
          connected,    \* users whose User.connected is True
          shut,         \* users whose socket was shut down after a refusal
          refused,      \* users whose refusal has started its timer
          users,        \* the keys of UserManager._users
          byName,       \* UserManager._by_name
          name,         \* User.name, _probe_display_name
          pers,         \* User.pers, _probe_persona
          at,           \* at[u]: where its handler is in a frame
          want,         \* want[u]: the persona it has asked for
          banned,       \* _admin_banned_names, _personas and _ips
          left,         \* how many of the bounded steps are left
          loose,        \* history: users whose persona no claim has checked,
                        \* or was not held against others all the time since
          met,          \* history: <<u, p>> where the last claim of p by u
                        \* has met another claim of p
          hidden,       \* history: users whose entry in byName was taken
          kicked        \* history: users the administrator has told to go,
                        \* and whose keepalive has not revived them

vars == <<up, connected, shut, refused, users, byName, name, pers, at, want,
          banned, left, loose, met, hidden, kicked>>

tcpVars == <<up, connected, shut, refused>>
regVars == <<users, byName, hidden>>
nameVars == <<name, pers>>

TypeOK ==
    /\ up \in [User -> {"new", "up", "gone"}]
    /\ {connected, shut, refused, users, loose, hidden, kicked} \subseteq SUBSET User
    /\ met \subseteq User \X Name
    /\ byName \in [Name -> User \union {None}]
    /\ {name, pers, want} \subseteq [User -> Name]
    /\ at \in [User -> {"idle", "named", "checked", "assigned"}]
    /\ banned \in [names : SUBSET Name, personas : SUBSET Name, ips : SUBSET Ip]
    /\ left \in [{"frames", "admin"} -> Nat]
    /\ Cardinality(users) <= MaxUsers

Init ==
    /\ up = [u \in User |-> "new"]
    /\ connected = {}
    /\ shut = {}
    /\ refused = {}
    /\ users = {}
    /\ byName = [n \in Name |-> None]
    /\ name = Own
    /\ pers = Own
    /\ at = [u \in User |-> "idle"]
    /\ want = Own
    /\ banned \in Banned
    /\ left = [frames |-> MaxFrames, admin |-> MaxAdmin]
    /\ loose = User
    /\ met = {}
    /\ hidden = {}
    /\ kicked = {}

-----------------------------------------------------------------------------
Spends(what) ==
    /\ left[what] > 0
    /\ left' = [left EXCEPT ![what] = @ - 1]

(* A handler between two frames of its client, and one in a frame.         *)
Ready(u) == up[u] = "up" /\ at[u] = "idle" /\ u \notin shut

Goes(u, place) == at' = [at EXCEPT ![u] = place]

(* Mutant: one user more than there are places.                            *)
FullLate == Cardinality(users) > MaxUsers

Full == Cardinality(users) >= MaxUsers

IsBanned(u, n, p) ==
    n \in banned.names \/ p \in banned.personas \/ IpOf[u] \in banned.ips

(* _lobby_account_conflict and _lobby_persona_conflict.                    *)
Others(u) == (users \intersect connected) \ {u}

AccountConflict(u, n) == \E v \in Others(u) : name[v] = n

(* Mutant: a persona is compared with the others' names only.              *)
PersonaConflictByName(u, p) == \E v \in Others(u) : name[v] = p

PersonaConflict(u, p) == \E v \in Others(u) : pers[v] = p

(* UserManager.add: the name's entry goes to the newcomer.                 *)
Add(u) ==
    /\ users' = users \union {u}
    /\ byName' = [byName EXCEPT ![name[u]] = u]
    /\ hidden' = (hidden \union {byName[name[u]]}) \ {None, u}

(* Mutant: the entry under the name of today goes, an older one stays.     *)
RemovingToday(S) ==
    /\ users' = users \ S
    /\ byName' = [n \in Name |->
                    IF byName[n] \in S /\ name[byName[n]] = n THEN None ELSE byName[n]]
    /\ hidden' = hidden \ S

(* UserManager.remove, of a set of users: all their entries go.            *)
Removing(S) ==
    /\ users' = users \ S
    /\ byName' = [n \in Name |-> IF byName[n] \in S THEN None ELSE byName[n]]
    /\ hidden' = hidden \ S

(* _ensure_registered_user.                                                *)
Admissible(u) == ~IsBanned(u, name[u], pers[u]) /\ ~Full

EnsureRegistered(u) ==
    IF u \notin users /\ Admissible(u)
      THEN Add(u)
      ELSE UNCHANGED regVars

(* History: a user that enters the registry later than it claimed.         *)
Late(u) == IF u \notin users /\ Admissible(u) THEN {u} ELSE {}

-----------------------------------------------------------------------------
(* _accept_loop_on_socket: a connection from a banned address is closed.   *)
Connect(u) ==
    /\ up[u] = "new"
    /\ IpOf[u] \notin banned.ips
    /\ \A v \in User : v < u => up[v] # "new"
    /\ up' = [up EXCEPT ![u] = "up"]
    /\ connected' = connected \union {u}
    /\ UNCHANGED <<shut, refused, regVars, nameVars, at, want, banned, left,
                   loose, met, kicked>>

(* _lobby_reject_auth: the socket is shut down by a timer later.           *)
Refuse(u) == refused' = refused \union {u}

(* _display_and_persona_from_kv: the names are taken as sent, or as the    *)
(* account has them.                                                       *)
Takes(u, n) ==
    /\ Ready(u)
    /\ Spends("frames")
    /\ name' = [name EXCEPT ![u] = n]
    /\ pers' = [pers EXCEPT ![u] = n]
    /\ loose' = loose \union {u}

(* *ath: nobody looks whether others have the names.                       *)
Ath(u, n) ==
    /\ Takes(u, n)
    /\ IF u \in users
         THEN UNCHANGED <<regVars, refused>>
         ELSE IF Full \/ IsBanned(u, n, n)
         THEN Refuse(u) /\ UNCHANGED regVars
         ELSE /\ users' = users \union {u}
              /\ byName' = [byName EXCEPT ![n] = u]
              /\ hidden' = (hidden \union {byName[n]}) \ {None, u}
              /\ UNCHANGED refused
    /\ UNCHANGED <<up, connected, shut, at, want, banned, met, kicked>>

(* acct: a new account gives its names, and registers nobody.              *)
Acct(u, n) ==
    /\ Takes(u, n)
    /\ UNCHANGED <<tcpVars, regVars, at, want, banned, met, kicked>>

(* auth: the names are taken ...                                           *)
Auth(u, n) ==
    /\ Takes(u, n)
    /\ Goes(u, "named")
    /\ UNCHANGED <<tcpVars, regVars, want, banned, met, kicked>>

(* ... and then looked at: if the name is in use the login is refused, or  *)
(* without verification the persona becomes the default name.              *)
Welcome(u) == (u \in users \/ ~Full) /\ ~IsBanned(u, name[u], pers[u])

Falls(u, verify) == Welcome(u) /\ ~verify /\ AccountConflict(u, name[u])

AuthPasses(u, verify) ==
    Welcome(u) /\ ~AccountConflict(u, IF Falls(u, verify) THEN Own[u] ELSE name[u])

AuthEnds(u) ==
    /\ at[u] = "named"
    /\ Goes(u, "idle")
    /\ \E verify \in Verify :
          /\ IF AuthPasses(u, verify)
               THEN EnsureRegistered(u) /\ UNCHANGED refused
               ELSE Refuse(u) /\ UNCHANGED regVars
          /\ pers' = IF Falls(u, verify) THEN [pers EXCEPT ![u] = Own[u]] ELSE pers
    /\ UNCHANGED <<up, connected, shut, name, want, banned, left, loose, met, kicked>>

-----------------------------------------------------------------------------
(* pers, cper, PERS and *pat: a persona is claimed.  The first step looks  *)
(* for another user who has it; if there is one, or the rules for the words *)
(* of a persona say so, the claim is refused and nothing changes ...       *)
Claiming(p) == {v \in User : at[v] \in {"checked", "assigned"} /\ want[v] = p}

Claim(u, p) ==
    /\ Ready(u)
    /\ Spends("frames")
    /\ ~PersonaConflict(u, p)
    /\ want' = [want EXCEPT ![u] = p]
    /\ Goes(u, "checked")
    /\ met' = IF Claiming(p) = {} THEN met \ {<<u, p>>}
               ELSE met \union (Claiming(p) \union {u}) \X {p}
    /\ UNCHANGED <<tcpVars, regVars, nameVars, banned, loose, kicked>>

(* ... the second assigns it ...                                           *)
Assign(u) ==
    /\ at[u] = "checked"
    /\ pers' = [pers EXCEPT ![u] = want[u]]
    /\ loose' = loose \ {u}
    /\ Goes(u, "assigned")
    /\ met' = met \ {u} \X (Name \ {want[u]})
    /\ UNCHANGED <<tcpVars, regVars, name, want, banned, left, kicked>>

(* ... and the third registers the user and takes the place of a ghost of  *)
(* the same name and address, one that is no longer connected.             *)
Ghosts(u) ==
    {v \in users \ {u} : /\ up[v] = "gone"
                         /\ {name[u], pers[u]} \intersect {name[v], pers[v]} # {}
                         /\ IpOf[u] = IpOf[v]}

Reattach(u) ==
    /\ at[u] = "assigned"
    /\ Goes(u, "idle")
    /\ IF u \in users \/ ~Admissible(u)
         THEN \/ Ghosts(u) = {} /\ UNCHANGED regVars
              \/ \E v \in Ghosts(u) : Removing({v})
         ELSE \/ Ghosts(u) = {} /\ Add(u)
              \/ \E v \in Ghosts(u) :
                    /\ users' = (users \union {u}) \ {v}
                    /\ byName' = [n \in Name |-> IF n = name[u] THEN u
                                                 ELSE IF byName[n] = v THEN None
                                                 ELSE byName[n]]
                    /\ hidden' = (hidden \union {byName[name[u]]}) \ {None, u, v}
    /\ want' = [want EXCEPT ![u] = Own[u]]
    /\ loose' = IF u \in users \/ Admissible(u) THEN loose ELSE loose \union {u}
    /\ UNCHANGED <<tcpVars, nameVars, banned, left, met, kicked>>

(* user, and every other command: the user is registered if it is not yet. *)
Command(u) ==
    /\ Ready(u)
    /\ u \notin users
    /\ EnsureRegistered(u)
    /\ loose' = loose \union Late(u)
    /\ UNCHANGED <<tcpVars, nameVars, at, want, banned, left, met, kicked>>

(* sele, the keepalive, says that the user is connected, and is a command. *)
Sele(u) ==
    /\ Ready(u)
    /\ u \notin connected
    /\ EnsureRegistered(u)
    /\ connected' = connected \union {u}
    /\ loose' = loose \union {u}
    /\ kicked' = kicked \ {u}
    /\ UNCHANGED <<up, shut, refused, nameVars, at, want, banned, left, met>>

-----------------------------------------------------------------------------
(* The administrator.  A user with a handler is only flagged; the handler  *)
(* sees it before it reads again.                                          *)
Flag(u) ==
    /\ connected' = connected \ {u}
    /\ kicked' = kicked \union {u}
    /\ UNCHANGED <<up, shut, refused, nameVars, at, want, loose, met>>

Kick(u) ==
    /\ u \in users
    /\ Spends("admin")
    /\ IF up[u] = "up"
         THEN Flag(u) /\ UNCHANGED regVars
         ELSE Removing({u}) /\ UNCHANGED <<tcpVars, nameVars, at, want, loose, met, kicked>>
    /\ UNCHANGED banned

KickName(n) == byName[n] # None /\ Kick(byName[n])

Ban(u) ==
    /\ u \in users
    /\ Spends("admin")
    /\ banned' = [names |-> banned.names \union {name[u]},
                  personas |-> banned.personas \union {pers[u]},
                  ips |-> banned.ips \union {IpOf[u]}]
    /\ IF up[u] = "up"
         THEN Flag(u)
         ELSE UNCHANGED <<tcpVars, nameVars, at, want, loose, met, kicked>>
    /\ UNCHANGED regVars

(* A ban is lifted one word at a time: a name or persona, or an address.   *)
Unban ==
    /\ Spends("admin")
    /\ \/ \E n \in banned.names \union banned.personas :
             banned' = [banned EXCEPT !.names = @ \ {n}, !.personas = @ \ {n}]
       \/ \E i \in banned.ips : banned' = [banned EXCEPT !.ips = @ \ {i}]
    /\ UNCHANGED <<tcpVars, regVars, nameVars, at, want, loose, met, kicked>>

(* The maintenance thread: kick_inactive flags an idle user, _periodic     *)
(* takes it out of the registry.                                           *)
KickInactive(u) ==
    /\ u \in users
    /\ at[u] = "idle"
    /\ Spends("admin")
    /\ connected' = connected \ {u}
    /\ kicked' = IF up[u] = "up" THEN kicked \union {u} ELSE kicked
    /\ Removing({u})
    /\ UNCHANGED <<up, shut, refused, nameVars, at, want, banned, loose, met>>

-----------------------------------------------------------------------------
(* The timer of a refusal, _lobby_close_after_auth_reject.                 *)
Shut(u) ==
    /\ u \in refused
    /\ refused' = refused \ {u}
    /\ shut' = shut \union {u}
    /\ connected' = connected \ {u}
    /\ UNCHANGED <<up, regVars, nameVars, at, want, banned, left, loose, met, kicked>>

(* The loop ends, because the user is flagged, the socket is shut or the   *)
(* client has gone; _cleanup_on_close removes the user, unless it was in a *)
(* game, then a ghost stays.                                               *)
Ends(u) ==
    /\ up[u] = "up"
    /\ at[u] = "idle"
    /\ up' = [up EXCEPT ![u] = "gone"]
    /\ connected' = connected \ {u}
    /\ refused' = refused \ {u}
    /\ shut' = shut \ {u}
    /\ kicked' = kicked \ {u}
    /\ loose' = loose \ {u}
    /\ met' = met \ {u} \X Name
    /\ UNCHANGED <<nameVars, at, want, banned, left>>

Close(u) == Ends(u) /\ Removing({u})

Detach(u) == u \in users /\ Ends(u) /\ UNCHANGED regVars

(* The maintenance thread lets a ghost go when its grace period is over.   *)
Release(u) ==
    /\ u \in users
    /\ up[u] = "gone"
    /\ Removing({u})
    /\ UNCHANGED <<tcpVars, nameVars, at, want, banned, left, loose, met, kicked>>

Next ==
    \/ \E u \in User :
          \/ Connect(u) \/ AuthEnds(u) \/ Assign(u) \/ Reattach(u)
          \/ Command(u) \/ Sele(u)
          \/ Kick(u) \/ Ban(u) \/ KickInactive(u)
          \/ Shut(u) \/ Close(u) \/ Detach(u) \/ Release(u)
          \/ \E n \in Name : Ath(u, n) \/ Acct(u, n) \/ Auth(u, n) \/ Claim(u, n)
    \/ \E n \in Name : KickName(n)
    \/ Unban

Spec == Init /\ [][Next]_vars

(* Mutant: the loop does not look at the flag.                             *)
LoopEndsDeaf(u) == u \in shut /\ (Close(u) \/ Detach(u))

(* A handler goes on with its frame; its loop looks at the flag at least   *)
(* every SERVER_TCP_TIMEOUT seconds; timers run.                           *)
LoopEnds(u) == (u \notin connected \/ u \in shut) /\ (Close(u) \/ Detach(u))

Fairness ==
    \A u \in User :
        /\ WF_vars(AuthEnds(u) \/ Assign(u) \/ Reattach(u))
        /\ WF_vars(LoopEnds(u))
        /\ WF_vars(Shut(u))

FairSpec == Spec /\ Fairness

-----------------------------------------------------------------------------
(* Two players in the lobby never have one persona: a claim is compared    *)
(* with all who are there.  It is not so for a persona that came with a    *)
(* login frame, which nobody compares; for two claims that overlapped; and *)
(* for a user the comparison passed over, because it was flagged or not    *)
(* registered at the time, and who came back by a keepalive or a command.  *)
PersonasDistinct ==
    \A u, v \in users \intersect connected :
        (u # v /\ pers[u] = pers[v])
            => \E w \in {u, v} : w \in loose \/ <<w, pers[w]>> \in met

(* Looking a player up by name finds nobody who has left, although names   *)
(* change after the entry is made; and everybody who is registered has an  *)
(* entry, except a player whose entry went to a later one of the same name.*)
(* The entry is under the name of the registration: a player renamed since *)
(* is found by that one only.                                              *)
NamesFound ==
    /\ \A n \in Name : byName[n] \in users \union {None}
    /\ \A u \in users \ hidden : \E n \in Name : byName[n] = u

(* A connection whose login was refused ends, whatever it sends meanwhile; *)
(* one that was kicked, banned or idle ends, or its keepalive comes before *)
(* the loop looks at the flag.                                             *)
Leaving(u) == u \in refused \union shut \union kicked

Leaves == \A u \in User : Leaving(u) ~> ~Leaving(u)

(* "Disconnected by admin", "Disconnect idle users.": they go.  Run        *)
(* kick_undone refutes it: a keepalive revives them.                       *)
KickedGoes ==
    \A u \in User : u \in kicked ~> up[u] = "gone"
=============================================================================
