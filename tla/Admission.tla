----------------------------- MODULE Admission -----------------------------
(***************************************************************************)
(* The accept loops of server.py, the thread each accepted connection gets *)
(* and the count of connections that caps them.  A loop                    *)
(* (_accept_loop_on_socket; there is one per listening socket) keeps the   *)
(* handler it made last in a local variable, and the function it starts a  *)
(* thread with, _run_handler, reads that variable when the thread runs it, *)
(* which may be after the loop has accepted another connection.            *)
(***************************************************************************)
EXTENDS Integers, FiniteSets

CONSTANTS Conn,         \* TCP connections
          Listener,     \* the listening sockets
          NoConn,       \* a handler variable that is not bound yet
          Caps          \* the values SERVER_MAX_CONNECTIONS may be given

ASSUME AdmissionAssumption ==
          /\ IsFiniteSet(Conn)
          /\ Caps \subseteq Nat
          /\ NoConn \notin Conn

VARIABLES socket,       \* socket[c]: "new", "refused", "open" or "closed"
          handler,      \* handler[l]: the connection of the loop's last handler
          via,          \* via[c]: the loop that accepted c
          thread,       \* thread[c]: the thread that was started for c
          serves,       \* serves[c]: whose handler that thread runs
          active,       \* _lobby_active_connections
          cap,          \* SERVER_MAX_CONNECTIONS, 0 for none
          late,         \* history: some loop has accepted a connection before
                        \* the thread of the previous one read its variable
          reloaded      \* history: the configuration has been reloaded

vars == <<socket, handler, via, thread, serves, active, cap, late, reloaded>>

TypeOK ==
    /\ socket \in [Conn -> {"new", "refused", "open", "closed"}]
    /\ handler \in [Listener -> Conn \union {NoConn}]
    /\ via \in [Conn -> Listener]
    /\ thread \in [Conn -> {"none", "started", "running", "done"}]
    /\ serves \in [Conn -> Conn \union {NoConn}]
    /\ active \in Nat
    /\ cap \in Caps
    /\ {late, reloaded} \subseteq BOOLEAN

Init ==
    /\ socket = [c \in Conn |-> "new"]
    /\ handler = [l \in Listener |-> NoConn]
    /\ via \in [Conn -> Listener]               \* where c will connect to
    /\ thread = [c \in Conn |-> "none"]
    /\ serves = [c \in Conn |-> NoConn]
    /\ active = 0
    /\ cap \in Caps
    /\ late = FALSE
    /\ reloaded = FALSE

-----------------------------------------------------------------------------
Open == {c \in Conn : socket[c] = "open"}

Started(l) == {c \in Conn : via[c] = l /\ thread[c] = "started"}

Alive == {c \in Conn : thread[c] \in {"started", "running"}}

(* The loop is back at accept(), and c is next. *)
Ready(l, c) == via[c] = l /\ socket[c] = "new"

(* The throttle, the address bans or the count of connections refuse c.    *)
(* Throttle and bans, which look at the address only, may always do so.    *)
RefuseUnclosed(l, c) ==                         \* mutant: no conn.close()
    /\ Ready(l, c)
    /\ socket' = [socket EXCEPT ![c] = "open"]
    /\ UNCHANGED <<handler, via, thread, serves, active, cap, late, reloaded>>
Refuse(l, c) ==
    /\ Ready(l, c)
    /\ socket' = [socket EXCEPT ![c] = "refused"]
    /\ UNCHANGED <<handler, via, thread, serves, active, cap, late, reloaded>>

(* _open_lobby_connection_slot; without a cap nothing is counted. *)
OpenSlotLate == active <= cap /\ active' = active + 1       \* mutant
OpenSlot == IF cap = 0 THEN UNCHANGED active
            ELSE active < cap /\ active' = active + 1

(* c is accepted: a slot, a handler and a thread. *)
Accept(l, c) ==
    /\ Ready(l, c)
    /\ OpenSlot
    /\ socket' = [socket EXCEPT ![c] = "open"]
    /\ handler' = [handler EXCEPT ![l] = c]
    /\ thread' = [thread EXCEPT ![c] = "started"]
    /\ late' = (late \/ Started(l) # {})
    /\ UNCHANGED <<via, serves, cap, reloaded>>

(* The thread evaluates handler.run. *)
Begin(c) ==
    /\ thread[c] = "started"
    /\ serves' = [serves EXCEPT ![c] = handler[via[c]]]
    /\ thread' = [thread EXCEPT ![c] = "running"]
    /\ UNCHANGED <<socket, handler, via, active, cap, late, reloaded>>

(* _close_lobby_connection_slot *)
CloseSlotOfOpen(c) ==                           \* mutant: once per socket
    active' = IF active > 0 /\ c \in Open THEN active - 1 ELSE active
CloseSlot(c) == active' = IF active > 0 THEN active - 1 ELSE active

(* handler.run ends: _cleanup_on_close closes its socket, if another       *)
(* thread has not done so, and the thread gives its slot back.             *)
Finish(c) ==
    /\ thread[c] = "running"
    /\ thread' = [thread EXCEPT ![c] = "done"]
    /\ socket' = [socket EXCEPT ![serves[c]] = "closed"]
    /\ CloseSlot(serves[c])
    /\ UNCHANGED <<handler, via, serves, cap, late, reloaded>>

(* _admin_reload_config: the cap is read anew at every accept. *)
Reload ==
    /\ cap' \in Caps
    /\ reloaded' = TRUE
    /\ UNCHANGED <<socket, handler, via, thread, serves, active, late>>

Next ==
    \/ \E l \in Listener, c \in Conn : Refuse(l, c) \/ Accept(l, c)
    \/ \E c \in Conn : Begin(c) \/ Finish(c)
    \/ Reload

Spec == Init /\ [][Next]_vars

-----------------------------------------------------------------------------
(* No slot is lost: the count never exceeds the number of threads that     *)
(* will still give one back, whatever handlers they run and however often  *)
(* the cap is changed.                                                     *)
SlotsReturn == active <= Cardinality(Alive)

(* As long as no thread has been late, every open connection is served by  *)
(* the thread that was started for it, and by no other, until it is closed.*)
OwnThread ==
    ~late => \A c \in Conn :
               /\ thread[c] = "running" => serves[c] = c
               /\ c \in Open <=> c \in Alive

(* CONFIG.md: SERVER_MAX_CONNECTIONS "caps active lobby/bootstrap sockets  *)
(* before login": a connection is let in below the cap only.  It is so as  *)
(* long as no thread has been late and the cap has never been changed.     *)
BelowCap ==
    \A c \in Conn : socket[c] # "open" /\ socket'[c] = "open" /\ cap > 0 =>
                      Cardinality(Open) < cap

SocketCap == [][~late /\ ~reloaded => BelowCap]_vars
=============================================================================
