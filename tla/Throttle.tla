------------------------------ MODULE Throttle ------------------------------
(***************************************************************************)
(* The connection throttle of server.py, _accepts_new_connection: every    *)
(* accepted TCP connection is first offered to it.  The whole decision is  *)
(* made under _connection_rate_lock, so it is one step.  Time is a counter *)
(* that only goes forward, in units of which Window and Block are          *)
(* multiples.  (A limit of 0 switches the throttle off.)                   *)
(* Names that Admission has too begin with Rate: one module of proofs      *)
(* extends both.                                                           *)
(***************************************************************************)
EXTENDS Integers, FiniteSets

CONSTANTS Ip,           \* source addresses
          Limit,        \* SERVER_CONN_RATE_LIMIT
          Window,       \* SERVER_CONN_RATE_WINDOW
          Block,        \* SERVER_CONN_RATE_BLOCK
          TableCap,     \* 4096, the entries above which stale ones are dropped
          DropCap,      \* 512, the most that are dropped at once
          MaxTime       \* bound: the clock stops here

ASSUME ThrottleAssumption ==
          /\ IsFiniteSet(Ip)
          /\ Limit \in Nat \ {0}
          /\ Window \in Nat \ {0}               \* max(1.0, ...)
          /\ Block \in Nat
          /\ {TableCap, DropCap, MaxTime} \subseteq Nat

Time == 0 .. MaxTime

(* One admitted connection: when, and a number that tells it from the       *)
(* other ones of the same moment and address.                              *)
Stamp == Time \X Nat

VARIABLES now,        \* time.time()
          attempts,   \* _connection_rate_attempts; {} for an absent key
          blocked,    \* _connection_rate_blocked_until; 0 for an absent key
          accepted    \* history: the stamps of all the admitted connections

rateVars == <<now, attempts, blocked, accepted>>

RateTypeOK ==
    /\ now \in Time
    /\ attempts \in [Ip -> SUBSET Stamp]
    /\ blocked \in [Ip -> Nat]
    /\ accepted \in [Ip -> SUBSET Stamp]

RateInit ==
    /\ now = 0
    /\ attempts = [p \in Ip |-> {}]
    /\ blocked = [p \in Ip |-> 0]
    /\ accepted = [p \in Ip |-> {}]

-----------------------------------------------------------------------------
IsBlockedBriefly(p) == blocked[p] > now + 1     \* mutant
IsBlocked(p) == blocked[p] > now

Recent(S) == {a \in S : now - a[1] < Window}

NewStamp(p) == <<now, Cardinality(accepted[p])>>

(* The keys of a table. *)
Entries(t) == {p \in Ip : t[p] # {}}

(* The entries of a table that may be dropped: none of their attempts is   *)
(* inside the window (the code looks at the last one).                     *)
StaleByFirst(t) ==                              \* mutant: seen[0] for seen[-1]
    {p \in Entries(t) : \E a \in t[p] : now - a[1] >= Window}
Stale(t) == {p \in Entries(t) : Recent(t[p]) = {}}

(* What is dropped when p's attempt makes the table t: the dictionary's    *)
(* order says which entries, so they may be any.                           *)
Dropped(t) ==
    IF Cardinality(Entries(t)) <= TableCap THEN {{}}
    ELSE {S \in SUBSET Stale(t) :
             Cardinality(S) = DropCap \/ (Cardinality(S) < DropCap /\ S = Stale(t))}

(* A connection from p is let in. *)
Admit(p) ==
    /\ ~IsBlocked(p)
    /\ Cardinality(Recent(attempts[p])) < Limit
    /\ accepted' = [accepted EXCEPT ![p] = @ \union {NewStamp(p)}]
    /\ LET t == [attempts EXCEPT ![p] = Recent(@) \union {NewStamp(p)}]
       IN  \E S \in Dropped(t) :
             /\ attempts' = [q \in Ip |-> IF q \in S THEN {} ELSE t[q]]
             /\ blocked' = [q \in Ip |-> IF q \in S \union {p} THEN 0
                                         ELSE blocked[q]]
    /\ UNCHANGED now

(* A connection from p is one too many, and p is blocked. *)
Trip(p) ==
    /\ ~IsBlocked(p)
    /\ Cardinality(Recent(attempts[p])) >= Limit
    /\ attempts' = [attempts EXCEPT ![p] = Recent(@)]
    /\ blocked' = [blocked EXCEPT ![p] = IF Block > 0 THEN now + Block ELSE 0]
    /\ UNCHANGED <<now, accepted>>

(* A connection from p is refused because p is blocked. *)
RefuseBlocked(p) == IsBlocked(p) /\ UNCHANGED rateVars

Tick == /\ now < MaxTime
        /\ now' = now + 1
        /\ UNCHANGED <<attempts, blocked, accepted>>

RateNext == Tick \/ \E p \in Ip : Admit(p) \/ Trip(p) \/ RefuseBlocked(p)

RateSpec == RateInit /\ [][RateNext]_rateVars

-----------------------------------------------------------------------------
(* CONFIG.md: the limit "caps new TCP lobby/bootstrap connections per      *)
(* source IP inside" the window.  However the attempts are forgotten, by   *)
(* age or when the table is full, no window of time lets in more.          *)
During(p, t) == {a \in accepted[p] : t - Window < a[1] /\ a[1] <= t}

RateCap == \A p \in Ip, t \in Time : Cardinality(During(p, t)) <= Limit

(* CONFIG.md: when the limit is exceeded, "new connections from that IP    *)
(* are dropped for SERVER_CONN_RATE_BLOCK seconds": a block lasts until    *)
(* its time is over, as long as the table of attempts is not at its cap,   *)
(* where the code drops blocks together with old attempts.                 *)
BlockLasts ==
    [][\A p \in Ip : blocked[p] > now /\ Cardinality(Entries(attempts)) < TableCap
                       => blocked'[p] = blocked[p]]_rateVars
=============================================================================
