------------------------------ MODULE RawOrder ------------------------------
(***************************************************************************)
(* How the UDP relay of server.py keeps the packets that start a race in   *)
(* order.  The clients of one room each send opcodes 0x65 to 0x69, over a  *)
(* network that loses, repeats and reorders, and race traffic after that.  *)
(* The relay hands a client's opcodes on in ascending order: one that      *)
(* comes early is held (raw_order_buffer) until the missing ones are       *)
(* through (raw_order_next).  A packet with nobody to go to is kept        *)
(* aside for the room (_udp_relay_pending_room_raw_packets).  Names that   *)
(* Relay has too are other ones here: one module of proofs extends both.   *)
(***************************************************************************)
EXTENDS Naturals, FiniteSets

CONSTANTS Racer,        \* UDP endpoints
          First,        \* 0x65, the first of the opcodes that are ordered
          Last,         \* 0x69, the last
          StashMax      \* how many packets are kept aside for a room: 64

ASSUME RawOrderAssumption ==
          /\ First \in Nat \ {0}
          /\ Last \in Nat
          /\ First <= Last
          /\ StashMax \in Nat

Absent == 0             \* no entry of raw_order_next

(* Every opcode past 0x69 is treated alike: one stands for all.            *)
Opcode == First .. (Last + 1)

Ordered == First .. Last

VARIABLES known,        \* the clients the relay has a state of
          members,      \* those who are in the room
          started,      \* the room is in _udp_relay_raw_started_rooms
          next,         \* next[c]: raw_order_next
          buffer,       \* buffer[c]: the opcodes held in raw_order_buffer
          stash,        \* the packets kept aside, as <<client, opcode>>
          rawSent,      \* the clients with the room in their raw_sent_rooms
          sent,         \* history: the packets, as <<client, opcode>>, that
                        \* the last step sent to somebody
          resumed       \* history: clients whose held packets outlived the
                        \* start of their room

orderVars == <<known, members, started, next, buffer, stash, rawSent, sent,
               resumed>>

OrderTypeOK ==
    /\ known \subseteq Racer
    /\ members \subseteq known
    /\ started \in BOOLEAN
    /\ next \in [Racer -> {Absent} \union (First + 1) .. (Last + 1)]
    /\ buffer \in [Racer -> SUBSET Ordered]
    /\ stash \subseteq Racer \X Opcode
    /\ rawSent \subseteq Racer
    /\ sent \subseteq Racer \X Opcode
    /\ resumed \subseteq Racer

OrderInit ==
    /\ known = {}
    /\ members = {}
    /\ started = FALSE
    /\ next = [c \in Racer |-> Absent]
    /\ buffer = [c \in Racer |-> {}]
    /\ stash = {}
    /\ rawSent = {}
    /\ sent = {}
    /\ resumed = {}

-----------------------------------------------------------------------------
(* The opcode of c that is handed on next when n is raw_order_next.        *)
Due(n, c) == IF n[c] = Absent THEN First ELSE n[c]

(* The replay of the stash to the clients D, where K are those the relay   *)
(* knows: what is sent, and what is kept.  Nobody is sent its own packets. *)
GoesOut(D, K) == {p \in stash : p[1] \in K /\ D \ {p[1]} # {}}

Kept(D, K) == {p \in stash : p[1] \notin K \/ D \subseteq {p[1]}}

(* A client enters: by a packet of cmd 1 or 5, by a short 0x65 before the  *)
(* start, which is otherwise ignored, or because the relay guesses that it *)
(* is a peer's opponent.  With somebody there the stash is replayed to it. *)
Enter(c) ==
    LET K == known \union {c}
        D == IF c \notin members /\ members # {} THEN {c} ELSE {}
    IN  /\ known' = K
        /\ members' = members \union {c}
        /\ stash' = Kept(D, K)
        /\ sent' = GoesOut(D, K)
        /\ UNCHANGED <<started, next, buffer, rawSent, resumed>>

-----------------------------------------------------------------------------
(* A packet that somebody receives; out is what a replay has sent before.  *)
(* An early one is held.                                                   *)
Hold(c, op, n, out) ==
    /\ op \in Ordered
    /\ op > Due(n, c)
    /\ buffer' = [buffer EXCEPT ![c] = @ \union {op}]
    /\ next' = n
    /\ sent' = out

InTurnAlone(c, op, n, out) ==           \* mutant: what is held stays held
    /\ op \in Ordered
    /\ op = Due(n, c)
    /\ next' = [n EXCEPT ![c] = op + 1]
    /\ sent' = out \union {<<c, op>>}
    /\ UNCHANGED buffer

InTurnClears(c, op, n, out) ==          \* mutant: raw_order_buffer.pop always
    /\ op \in Ordered
    /\ op = Due(n, c)
    /\ \E gap \in (op + 1) .. (Last + 1) :
          /\ gap \notin buffer[c]
          /\ (op + 1) .. (gap - 1) \subseteq buffer[c]
          /\ next' = [n EXCEPT ![c] = gap]
          /\ buffer' = [buffer EXCEPT ![c] = {}]
          /\ sent' = out \union {<<c, k>> : k \in op .. (gap - 1)}

(* One whose turn it is goes out, and those held that follow it.           *)
InTurn(c, op, n, out) ==
    /\ op \in Ordered
    /\ op = Due(n, c)
    /\ \E gap \in (op + 1) .. (Last + 1) :
          /\ gap \notin buffer[c]
          /\ (op + 1) .. (gap - 1) \subseteq buffer[c]
          /\ next' = [n EXCEPT ![c] = gap]
          /\ buffer' = [buffer EXCEPT ![c] = @ \ (op + 1) .. (gap - 1)]
          /\ sent' = out \union {<<c, k>> : k \in op .. (gap - 1)}

(* A late one, and what is not ordered at all, goes out as it is.          *)
OutOfTurn(c, op, n, out) ==
    /\ op \in Ordered => op < Due(n, c)
    /\ next' = n
    /\ sent' = out \union {<<c, op>>}
    /\ UNCHANGED buffer

(* n is next after what the packet did before this.                        *)
Pass(c, op, n, out) ==
    Hold(c, op, n, out) \/ InTurn(c, op, n, out) \/ OutOfTurn(c, op, n, out)

(* A packet that nobody receives; left is the stash it finds.  There may   *)
(* be no place for it, nor for one more room that has a stash.             *)
SetAside(c, op, n, out, left) ==
    /\ next' = n
    /\ sent' = out
    /\ UNCHANGED buffer
    /\ \/ /\ <<c, op>> \in left \/ Cardinality(left) < StashMax
          /\ stash' = left \union {<<c, op>>}
       \/ /\ <<c, op>> \notin left
          /\ left = {} \/ Cardinality(left) >= StashMax
          /\ stash' = left

(* A usable raw packet: it starts the room if it is the first in it, and   *)
(* then the order of its sender begins with it.  Who is alone in the room  *)
(* may still be given a peer that the relay guesses and, unless it guesses *)
(* by ports or by elimination, moves into the room.                        *)
Opens(c, op) ==
    IF ~started /\ op \in Ordered \ {First} /\ next[c] = Absent
    THEN [next EXCEPT ![c] = op]
    ELSE next

RawPacket(c, op) ==
    LET K == known \union {c}
        D == IF started /\ (c \in members \/ members = {}) THEN {} ELSE {c}
        n == Opens(c, op)
    IN  /\ known' = K
        /\ started' = TRUE
        /\ rawSent' = rawSent \union {c}
        /\ UNCHANGED resumed
        /\ \/ /\ members \ {c} # {}
              /\ members' = members \union {c}
              /\ stash' = Kept(D, K)
              /\ Pass(c, op, n, GoesOut(D, K))
           \/ /\ members \subseteq {c}
              /\ members' = {c}
              /\ \/ SetAside(c, op, n, GoesOut(D, K), Kept(D, K))
                 \/ /\ known \ {c} # {}
                    /\ stash' = Kept(D, K)
                    /\ Pass(c, op, n, GoesOut(D, K))
           \/ /\ members \subseteq {c}
              /\ \E b \in known \ {c} :
                    /\ members' = {c, b}
                    /\ stash' = Kept(D \union {b}, K)
                    /\ Pass(c, op, n, GoesOut(D \union {b}, K))

-----------------------------------------------------------------------------
(* The clients whose held packets have no entry of raw_order_next.         *)
Unopened == {x \in Racer : next[x] = Absent /\ buffer[x] # {}}

(* A client goes to another room, or is pruned from this one.  The last    *)
(* one takes the start with it, not the stash.                             *)
Leave(c) ==
    /\ c \in members
    /\ members' = members \ {c}
    /\ IF members = {c}
       THEN /\ started' = FALSE
            /\ resumed' = resumed \union Unopened
       ELSE UNCHANGED <<started, resumed>>
    /\ sent' = {}
    /\ UNCHANGED <<known, next, buffer, stash, rawSent>>

(* An idle client is dropped with its state; the last one takes the start  *)
(* and the stash with it.                                                  *)
Drop(c) ==
    /\ c \in known
    /\ known' = known \ {c}
    /\ members' = members \ {c}
    /\ next' = [next EXCEPT ![c] = Absent]
    /\ buffer' = [buffer EXCEPT ![c] = {}]
    /\ rawSent' = rawSent \ {c}
    /\ sent' = {}
    /\ IF members = {c}
       THEN /\ started' = FALSE
            /\ stash' = {}
            /\ resumed' = (resumed \union Unopened) \ {c}
       ELSE /\ resumed' = resumed \ {c}
            /\ UNCHANGED <<started, stash>>

(* The maintenance thread resets the room.  Its clients are kept, except   *)
(* those it finds idle.                                                    *)
Reset(idle) ==
    /\ idle \subseteq members
    /\ known' = known \ idle
    /\ members' = {}
    /\ started' = FALSE
    /\ next' = [x \in Racer |-> IF x \in idle THEN Absent ELSE next[x]]
    /\ buffer' = [x \in Racer |-> IF x \in idle THEN {} ELSE buffer[x]]
    /\ stash' = {}
    /\ rawSent' = rawSent \ idle
    /\ sent' = {}
    /\ resumed' = (resumed \union Unopened) \ idle

(* The stash is too old.                                                   *)
Expire ==
    /\ stash # {}
    /\ stash' = {}
    /\ sent' = {}
    /\ UNCHANGED <<known, members, started, next, buffer, rawSent, resumed>>

OrderNext ==
    \/ \E c \in Racer : Enter(c) \/ Leave(c) \/ Drop(c)
    \/ \E c \in Racer, op \in Opcode : RawPacket(c, op)
    \/ \E idle \in SUBSET Racer : Reset(idle)
    \/ Expire

OrderSpec == OrderInit /\ [][OrderNext]_orderVars

-----------------------------------------------------------------------------
(* No packet is held that could go out: everything held is ahead of the    *)
(* opcode that is expected, so that each gap that closes lets out all that *)
(* waited behind it.  Except for clients that send on after the last one   *)
(* of the room went away and came back: the new start gives them a new     *)
(* first opcode and leaves what they had in the buffer, for good.          *)
BufferAhead ==
    \A c \in Racer \ resumed : \A op \in buffer[c] : op > Due(next, c)

(* There is no place to keep a packet of c aside: nobody else is in the    *)
(* room, and the stash is full, or is one that a full table has no place   *)
(* for.                                                                    *)
NoPlace(c) ==
    /\ members' = {c}
    /\ stash' = {} \/ Cardinality(stash') >= StashMax

(* The room is given up with its stash: it is reset, or its last client is *)
(* dropped as idle, or what it keeps aside is too old.                     *)
GivesUpRoom ==
    \/ \E x \in Racer : members = {x} /\ Drop(x)
    \/ \E idle \in SUBSET Racer : Reset(idle)
    \/ Expire

(* Nothing is lost on the way, through replays, guesses and clients that   *)
(* come and go.  A packet that a client sends goes out, is held or is kept *)
(* aside at once, unless there is no place for it; one that is held goes   *)
(* out, or its sender is forgotten; one that is kept aside goes out, or    *)
(* the room is given up.  In particular no other client's packet, arrival  *)
(* or departure, and no leaving of the sender, costs a packet.             *)
NothingLost ==
    [][\A c \in Racer, op \in Opcode :
         /\ RawPacket(c, op) =>
               \/ <<c, op>> \in sent' \union stash'
               \/ op \in buffer'[c]
               \/ NoPlace(c)
         /\ op \in buffer[c] \ buffer'[c] =>
               <<c, op>> \in sent' \/ c \notin known'
         /\ <<c, op>> \in stash \ stash' =>
               <<c, op>> \in sent' \/ GivesUpRoom]_orderVars

=============================================================================
