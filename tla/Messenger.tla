----------------------------- MODULE Messenger -----------------------------
(***************************************************************************)
(* The connections of the control port (control_handler.py) and who is     *)
(* told that who is online (ea_messenger.py).  Each connection has a       *)
(* thread of its own.  What it has to tell the others is made under the    *)
(* social lock and sent after the lock is released, one message at a time, *)
(* while other threads register, close and send.                           *)
(*                                                                         *)
(* Which persona a connection may take is the subject of Identity, who is  *)
(* whose friend that of Relations; here a connection may take any, and     *)
(* everybody sees everybody (CONTROL_SOCIAL_ALL_ONLINE_ENABLE, as          *)
(* shipped) except where a block hides them.                               *)
(***************************************************************************)
EXTENDS Naturals, FiniteSets, Sequences

CONSTANTS Conn,         \* connections to the control port
          Persona,      \* keys of personas
          Nobody,       \* no persona
          Teams,        \* <<o, p>>: o and p are in one game and not friends
          Cap,          \* CONTROL_MAX_CONNECTIONS, 0 for none
          MaxCommands   \* bound: commands that change or tell something

ASSUME MessengerAssumption ==
          /\ IsFiniteSet(Conn)
          /\ Nobody \notin Persona
          /\ Teams \subseteq Persona \X Persona
          /\ {Cap, MaxCommands} \subseteq Nat

VARIABLES sock,         \* sock[c]: "new", "open", "closing" or "closed"
          active,       \* _control_active_connections
          who,          \* who[c]: _peer_user
          key,          \* key[c]: _social_handler_user
          handlers,     \* handlers[p]: _social_handlers
          present,      \* the personas _social_presence has an entry for
          blocks,       \* <<o, p>>: o has blocked p
          look,         \* look[c]: a row its thread has read and not yet sent
          outbox,       \* outbox[c]: what its thread has still to send
          told,         \* told[c][p]: what c was told last about p
          unsure,       \* history: <<c, p>> whose messages to c about p may
                        \* have crossed, or were not sent to c
          commands      \* how many of the bounded commands there were

vars == <<sock, active, who, key, handlers, present, blocks, look, outbox,
          told, unsure, commands>>

Row == [to : Persona, about : Persona, on : BOOLEAN]

(* hush: a team mate who is not a friend need not be told.                 *)
Notice == [to : Conn, about : Persona, on : BOOLEAN, hush : BOOLEAN]

TypeOK ==
    /\ sock \in [Conn -> {"new", "open", "closing", "closed"}]
    /\ active \in IF Cap = 0 THEN {0} ELSE 0 .. Cap
    /\ who \in [Conn -> Persona \union {Nobody}]
    /\ key \in [Conn -> Persona \union {Nobody}]
    /\ handlers \in [Persona -> SUBSET Conn]
    /\ present \subseteq Persona
    /\ blocks \subseteq Persona \X Persona
    /\ look \in [Conn -> Row \union {<<>>}]
    /\ outbox \in [Conn -> Seq(Notice)]
    /\ told \in [Conn -> [Persona -> {"nothing", "on", "off"}]]
    /\ unsure \subseteq Conn \X Persona
    /\ commands \in 0 .. MaxCommands

Init ==
    /\ sock = [c \in Conn |-> "new"]
    /\ active = 0
    /\ who = [c \in Conn |-> Nobody]
    /\ key = [c \in Conn |-> Nobody]
    /\ handlers = [p \in Persona |-> {}]
    /\ present = {}
    /\ blocks = {}
    /\ look = [c \in Conn |-> <<>>]
    /\ outbox = [c \in Conn |-> <<>>]
    /\ told = [c \in Conn |-> [p \in Persona |-> "nothing"]]
    /\ unsure = {}
    /\ commands = 0

-----------------------------------------------------------------------------
Online(p) == handlers[p] # {}

Hidden(o, p) == {<<o, p>>, <<p, o>>} \intersect blocks # {}

(* A thread between two commands of its client.                            *)
Ready(c) == sock[c] = "open" /\ look[c] = <<>> /\ outbox[c] = <<>>

(* _social_notify_targets_locked: the handlers that are told about p, in   *)
(* the order of a dictionary of sets, which may be any.                    *)
Audience(reg, p) ==
    UNION {reg[o] : o \in {o \in Persona \ {p} : ~Hidden(o, p)}}

Orders(S) == {s \in [1 .. Cardinality(S) -> S] :
                \A i, j \in DOMAIN s : i # j => s[i] # s[j]}

Notices(S, p, on, hush) ==
    {[i \in DOMAIN s |-> [to |-> s[i], about |-> p, on |-> on, hush |-> hush]]
       : s \in Orders(S)}

(* History: notices about one persona to one connection that are under way *)
(* in another thread, and rows another thread has read that are outdated   *)
(* by what happens to the persona now.                                     *)
UnderWay(c) ==
    UNION {{<<outbox[d][i].to, outbox[d][i].about>> : i \in DOMAIN outbox[d]}
             : d \in Conn \ {c}}

Crossing(c, box) ==
    {<<box[i].to, box[i].about>> : i \in DOMAIN box} \intersect UnderWay(c)

Read(p) ==
    IF \E e \in Conn : look[e] # <<>> /\ look[e].about = p
      THEN Conn \X {p}
      ELSE {}

Costs == commands < MaxCommands /\ commands' = commands + 1

-----------------------------------------------------------------------------
(* Mutant: the limit is not looked at.                                     *)
AcceptAny(c) ==
    /\ sock[c] = "new"
    /\ sock' = [sock EXCEPT ![c] = "open"]
    /\ active' = IF Cap = 0 THEN active ELSE active + 1
    /\ \E p \in Persona \union {Nobody} : who' = [who EXCEPT ![c] = p]
    /\ UNCHANGED <<key, handlers, present, blocks, look, outbox, told, unsure, commands>>

(* _accept_loop: the slot is taken, the handler asks for a profile of its  *)
(* address, the thread is started.                                         *)
Accept(c) ==
    /\ sock[c] = "new"
    /\ Cap = 0 \/ active < Cap
    /\ sock' = [sock EXCEPT ![c] = "open"]
    /\ active' = IF Cap = 0 THEN active ELSE active + 1
    /\ \E p \in Persona \union {Nobody} : who' = [who EXCEPT ![c] = p]
    /\ UNCHANGED <<key, handlers, present, blocks, look, outbox, told, unsure, commands>>

(* The throttle, a ban or the limit turns it away.                         *)
Refuse(c) ==
    /\ sock[c] = "new"
    /\ sock' = [sock EXCEPT ![c] = "closed"]
    /\ UNCHANGED <<active, who, key, handlers, present, blocks, look, outbox,
                   told, unsure, commands>>

(* Mutant: the connection stays under the persona it leaves.               *)
DroppedNever(c) == handlers

(* A connection goes out of the handlers of the persona it had.            *)
Dropped(c) == [p \in Persona |-> handlers[p] \ {c}]

(* control_social_register, for AUTH, RGET and PSET once the persona is    *)
(* allowed.  A connection that had another persona takes it down silently, *)
(* and nobody tells a connection about its own persona.                    *)
Register(c, p) ==
    LET others == IF key[c] = p THEN handlers ELSE Dropped(c)
        emptied == {o \in Persona : o = key[c] /\ others[o] = {}}
        now == [others EXCEPT ![p] = @ \union {c}]
        news == IF others[p] = {} THEN Audience(now, p) ELSE {}
    IN  /\ Ready(c)
        /\ who' = [who EXCEPT ![c] = p]
        /\ key' = [key EXCEPT ![c] = p]
        /\ handlers' = now
        /\ present' = (present \ emptied) \union {p}
        /\ \E box \in Notices(news, p, TRUE, TRUE) :
              /\ outbox' = [outbox EXCEPT ![c] = box]
              /\ unsure' = unsure \union Crossing(c, box)
                                 \union (Conn \X emptied) \union {<<c, p>>} \union Read(p)
        /\ IF key[c] \in {Nobody, p} THEN UNCHANGED commands ELSE Costs
        /\ UNCHANGED <<sock, active, blocks, look, told>>

(* Mutant: the others are not told.                                        *)
LeaveSilent(c) ==
    LET p == key[c]
        last == p # Nobody /\ handlers[p] = {c}
    IN  /\ Ready(c)
        /\ sock' = [sock EXCEPT ![c] = "closing"]
        /\ key' = [key EXCEPT ![c] = Nobody]
        /\ handlers' = Dropped(c)
        /\ present' = IF last THEN present \ {p} ELSE present
        /\ UNCHANGED <<active, who, blocks, look, outbox, told, unsure, commands>>

(* The end of run: unregister, tell, close, give the slot back.            *)
Leave(c) ==
    LET p == key[c]
        last == p # Nobody /\ handlers[p] = {c}
        news == IF last THEN Audience(handlers, p) ELSE {}
    IN  /\ Ready(c)
        /\ sock' = [sock EXCEPT ![c] = "closing"]
        /\ key' = [key EXCEPT ![c] = Nobody]
        /\ handlers' = Dropped(c)
        /\ present' = IF last THEN present \ {p} ELSE present
        /\ \E box \in Notices(news, p, FALSE, FALSE) :
              /\ outbox' = [outbox EXCEPT ![c] = box]
              /\ unsure' = unsure \union Crossing(c, box) \union Read(p)
        /\ UNCHANGED <<active, who, blocks, look, told, commands>>

Close(c) ==
    /\ sock[c] = "closing"
    /\ outbox[c] = <<>>
    /\ sock' = [sock EXCEPT ![c] = "closed"]
    /\ active' = IF active > 0 THEN active - 1 ELSE 0
    /\ UNCHANGED <<who, key, handlers, present, blocks, look, outbox, told, unsure, commands>>

-----------------------------------------------------------------------------
(* PSET tells everybody again.                                             *)
SetPresence(c) ==
    /\ Ready(c)
    /\ key[c] # Nobody
    /\ Costs
    /\ present' = present \union {key[c]}
    /\ \E box \in Notices(Audience(handlers, key[c]), key[c], TRUE, TRUE) :
          /\ outbox' = [outbox EXCEPT ![c] = box]
          /\ unsure' = unsure \union Crossing(c, box)
    /\ UNCHANGED <<sock, active, who, key, handlers, blocks, look, told>>

(* control_social_snapshot: who is online and not blocked.                 *)
Snapshot(o) == {p \in Persona \ {o} : Online(p) /\ <<o, p>> \notin blocks}

(* RGET: the snapshot, to the connection itself.  One that could not       *)
(* register is told too, and not told of changes.                          *)
GetRoster(c) ==
    LET rows == Snapshot(who[c])
    IN  /\ Ready(c)
        /\ Costs
        /\ \E s \in Orders(rows) :
              LET box == [i \in DOMAIN s |->
                             [to |-> c, about |-> s[i], on |-> TRUE, hush |-> FALSE]]
              IN  /\ outbox' = [outbox EXCEPT ![c] = box]
                  /\ unsure' = unsure \union Crossing(c, box)
                       \union IF key[c] = Nobody THEN {c} \X rows ELSE {}
        /\ UNCHANGED <<sock, active, who, key, handlers, present, blocks, look, told>>

(* control_social_presence_row: the row of p is read for o, whose handlers *)
(* are looked up afterwards.                                               *)
Shows(c, o, p) ==
    /\ look' = [look EXCEPT ![c] = [to |-> o, about |-> p, on |-> Online(p)]]
    /\ unsure' = unsure \union {x \in UnderWay(c) : x[2] = p}
    /\ UNCHANGED <<sock, active, who, key, handlers, present, blocks, outbox, told>>

(* SEND and INVT show the sender to the other, unless there is a block.    *)
Greets(c, q) ==
    /\ Ready(c)
    /\ who[c] \notin {Nobody, q}
    /\ ~Hidden(who[c], q)
    /\ Costs
    /\ Shows(c, q, who[c])

Chat(c, q) == Greets(c, q)

Invite(c, q) == Greets(c, q)

(* RADD, RDEL and RRSP show each side the other's row, to the one who has  *)
(* not blocked the other.                                                  *)
RosterRow(c, o, p) ==
    /\ Ready(c)
    /\ who[c] \in {o, p}
    /\ o # p
    /\ <<o, p>> \notin blocks
    /\ Costs
    /\ Shows(c, o, p)

(* control_social_deliver.                                                 *)
Deliver(c) ==
    /\ look[c] # <<>>
    /\ \E box \in Notices(handlers[look[c].to], look[c].about, look[c].on, FALSE) :
          /\ outbox' = [outbox EXCEPT ![c] = box]
          /\ unsure' = unsure \union Crossing(c, box)
    /\ look' = [look EXCEPT ![c] = <<>>]
    /\ UNCHANGED <<sock, active, who, key, handlers, present, blocks, told, commands>>

(* A block hides the two from each other, comings and goings included.     *)
Block(c, p) ==
    /\ Ready(c)
    /\ who[c] \notin {Nobody, p}
    /\ Costs
    /\ blocks' = blocks \union {<<who[c], p>>}
    /\ unsure' = unsure \union (Conn \X {who[c], p})
    /\ UNCHANGED <<sock, active, who, key, handlers, present, look, outbox, told>>

Unblock(c, p) ==
    /\ Ready(c)
    /\ <<who[c], p>> \in blocks
    /\ Costs
    /\ blocks' = blocks \ {<<who[c], p>>}
    /\ UNCHANGED <<sock, active, who, key, handlers, present, look, outbox, told, unsure>>

-----------------------------------------------------------------------------
(* The next notice of a thread.  Team mates who are not friends are not    *)
(* announced to each other; a socket that is closed takes nothing.         *)
Suppressed(n) == n.hush /\ key[n.to] # Nobody /\ <<key[n.to], n.about>> \in Teams

Send(c) ==
    LET n == Head(outbox[c])
    IN  /\ outbox[c] # <<>>
        /\ outbox' = [outbox EXCEPT ![c] = Tail(@)]
        /\ told' = IF Suppressed(n) \/ sock[n.to] = "closed"
                     THEN told
                     ELSE [told EXCEPT ![n.to][n.about] = IF n.on THEN "on" ELSE "off"]
        /\ unsure' = IF Suppressed(n) THEN unsure \union {<<n.to, n.about>>} ELSE unsure
        /\ UNCHANGED <<sock, active, who, key, handlers, present, blocks, look, commands>>

Next ==
    \/ \E c \in Conn :
          \/ Accept(c) \/ Refuse(c) \/ Leave(c) \/ Close(c)
          \/ SetPresence(c) \/ GetRoster(c) \/ Deliver(c) \/ Send(c)
          \/ \E p \in Persona : \/ Register(c, p)
                                \/ Chat(c, p)
                                \/ Invite(c, p)
                                \/ Block(c, p)
                                \/ Unblock(c, p)
          \/ \E o, p \in Persona : RosterRow(c, o, p)

Spec == Init /\ [][Next]_vars

(* A thread that has something to send sends it: the sockets' writes end   *)
(* (a client that does not read ends its connection), and the threads run. *)
FairSpec == Spec /\ \A c \in Conn : WF_vars(Send(c)) /\ WF_vars(Deliver(c))

-----------------------------------------------------------------------------
(* The dictionaries agree whoever registers, moves and leaves in whatever  *)
(* order: a persona's handlers are the connections that have it, presence  *)
(* is kept for the personas with handlers, and every slot belongs to a     *)
(* connection that will give it back.                                      *)
Agree ==
    /\ \A c \in Conn, p \in Persona : c \in handlers[p] <=> key[c] = p
    /\ present = {p \in Persona : Online(p)}
    /\ active = IF Cap = 0 THEN 0
                 ELSE Cardinality({c \in Conn : sock[c] \in {"open", "closing"}})

(* What a client was told last about a player is so, once nothing about    *)
(* that player is under way to it: notices are sent after the lock is      *)
(* released, and a late one must not be the last.  It is not so where      *)
(* threads told about one player at once, where the player's connection    *)
(* changed its persona, where a team mate was not announced, and after a   *)
(* block between the two.                                                  *)
Sure(c, p) ==
    /\ key[c] \notin {Nobody, p}
    /\ <<c, p>> \notin unsure

ToldRight ==
    \A c \in Conn, p \in Persona :
        (Sure(c, p) /\ <<c, p>> \notin UnderWay(c) /\ look[c] = <<>> /\ outbox[c] = <<>>)
            => /\ told[c][p] = "on" => Online(p)
               /\ told[c][p] = "off" => ~Online(p)

(* A client that was told a player is there hears when he goes.            *)
HearsOfLeaving ==
    \A c \in Conn, p \in Persona :
        (Sure(c, p) /\ told[c][p] = "on" /\ ~Online(p))
            ~> (told[c][p] # "on" \/ Online(p) \/ ~Sure(c, p))
=============================================================================
