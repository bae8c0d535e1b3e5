---------------------------- MODULE Accept_proofs ----------------------------
(***************************************************************************)
(* Proofs about what a connection passes before its handler runs: the      *)
(* throttle (Throttle), for any number of addresses and any settings, and  *)
(* the accept loops with their threads and slots (Admission), for any      *)
(* number of connections and loops.                                        *)
(***************************************************************************)
EXTENDS Throttle, Admission, FiniteSetTheorems, TLAPS

(***************************************************************************)
(* The throttle: no window of time lets in more connections of one address *)
(* than the limit, and a block lasts while the table is below its cap.     *)
(***************************************************************************)
(* RateCap speaks of connections the throttle may have forgotten.  It is   *)
(* inductive together with the fact that what it remembers, attempts, has  *)
(* every admitted connection that is still inside the window.              *)
Remembered(p) ==
    /\ IsFiniteSet(accepted[p])
    /\ attempts[p] \subseteq accepted[p]
    /\ Recent(accepted[p]) \subseteq attempts[p]
    /\ \A a \in accepted[p] : a[1] <= now

RateInv == RateTypeOK /\ RateCap /\ \A p \in Ip : Remembered(p)

(* In the beginning nothing has been admitted.                             *)
LEMMA RateInitOK == RateInit => RateInv
<1> SUFFICES ASSUME RateInit PROVE RateInv
  OBVIOUS
<1> USE ThrottleAssumption
<1>1. RateTypeOK
  BY DEF RateInit, RateTypeOK, Time
<1>2. \A p \in Ip : accepted[p] = {} /\ attempts[p] = {}
  BY DEF RateInit
<1>3. RateCap
  <2> SUFFICES ASSUME NEW p \in Ip, NEW t \in Time
               PROVE  Cardinality(During(p, t)) <= Limit
    BY DEF RateCap
  <2>1. During(p, t) = {}
    BY <1>2 DEF During
  <2> QED
    BY <2>1, FS_EmptySet
<1>4. \A p \in Ip : Remembered(p)
  BY <1>2, FS_EmptySet DEF Remembered, Recent
<1> QED
  BY <1>1, <1>3, <1>4 DEF RateInv

(* A finite set with one more element.                                     *)
LEMMA AddOne ==
  ASSUME NEW T, NEW x, IsFiniteSet(T)
  PROVE  /\ IsFiniteSet(T \union {x})
         /\ Cardinality(T \union {x}) <= Cardinality(T) + 1
<1>1. Cardinality(T) \in Nat
  BY FS_CardinalityType
<1> QED
  BY <1>1, FS_AddElement

(* One more connection of p, let in now, keeps the cap: everything else in *)
(* a window that holds it is recent, so it is remembered and was counted.  *)
LEMMA OneMoreStamp ==
  ASSUME RateInv, NEW p \in Ip, NEW t \in Time,
         Cardinality(Recent(attempts[p])) < Limit,
         accepted' = [accepted EXCEPT ![p] = @ \union {NewStamp(p)}]
  PROVE  Cardinality(During(p, t)') <= Limit
<1> USE ThrottleAssumption
<1> DEFINE s == NewStamp(p)
<1>0. /\ now \in Nat /\ t \in Nat /\ accepted[p] \in SUBSET Stamp
      /\ \A a \in accepted[p] : a[1] \in Nat
      /\ s[1] = now /\ Remembered(p)
  BY DEF RateInv, RateTypeOK, Time, Stamp, NewStamp
<1>1. accepted'[p] = accepted[p] \union {s}
  BY DEF RateInv, RateTypeOK
<1>2. CASE ~(t - Window < now /\ now <= t)
  <2>1. During(p, t)' = During(p, t)
    BY <1>0, <1>1, <1>2 DEF During
  <2> QED
    BY <2>1 DEF RateInv, RateCap
<1>3. CASE t - Window < now /\ now <= t
  <2>1. During(p, t)' \subseteq Recent(attempts[p]) \union {s}
    BY <1>0, <1>1, <1>3 DEF During, Remembered, Recent
  <2>2. IsFiniteSet(Recent(attempts[p])) /\ Cardinality(Recent(attempts[p])) \in Nat
    <3>1. Recent(attempts[p]) \subseteq accepted[p]
      BY <1>0 DEF Recent, Remembered
    <3> QED
      BY <1>0, <3>1, FS_Subset, FS_CardinalityType DEF Remembered
  <2>3. /\ IsFiniteSet(Recent(attempts[p]) \union {s})
        /\ Cardinality(Recent(attempts[p]) \union {s})
             <= Cardinality(Recent(attempts[p])) + 1
    BY <2>2, AddOne
  <2>4. /\ Cardinality(During(p, t)') <= Cardinality(Recent(attempts[p]) \union {s})
        /\ Cardinality(During(p, t)') \in Nat
        /\ Cardinality(Recent(attempts[p]) \union {s}) \in Nat
    BY <2>1, <2>3, FS_Subset, FS_CardinalityType
  <2> QED
    BY <2>2, <2>3, <2>4
<1> QED
  BY <1>2, <1>3

(* Letting a connection in, with whatever the full table forgets.          *)
LEMMA AdmitOK == ASSUME RateInv, NEW p \in Ip, Admit(p) PROVE RateInv'
<1> USE ThrottleAssumption
<1> DEFINE tab == [attempts EXCEPT ![p] = Recent(@) \union {NewStamp(p)}]
<1>1. PICK S \in Dropped(tab) :
        /\ attempts' = [q \in Ip |-> IF q \in S THEN {} ELSE tab[q]]
        /\ blocked' = [q \in Ip |-> IF q \in S \union {p} THEN 0 ELSE blocked[q]]
  BY DEF Admit
<1>2. S \subseteq Stale(tab)
  BY DEF Dropped
<1>3. /\ now' = now /\ now \in Nat
      /\ accepted' = [accepted EXCEPT ![p] = @ \union {NewStamp(p)}]
      /\ Cardinality(Recent(attempts[p])) < Limit
  BY DEF Admit, RateInv, RateTypeOK, Time
<1>4. NewStamp(p) \in Stamp /\ NewStamp(p)[1] = now
  <2>1. Cardinality(accepted[p]) \in Nat
    BY FS_CardinalityType DEF RateInv, Remembered
  <2> QED
    BY <2>1 DEF NewStamp, Stamp, RateInv, RateTypeOK
<1>5. \A q \in Ip : /\ accepted'[q] = IF q = p THEN accepted[p] \union {NewStamp(p)}
                                               ELSE accepted[q]
                    /\ tab[q] = IF q = p THEN Recent(attempts[p]) \union {NewStamp(p)}
                                         ELSE attempts[q]
                    /\ attempts'[q] = IF q \in S THEN {} ELSE tab[q]
  BY <1>1, <1>3 DEF RateInv, RateTypeOK
<1>6. RateTypeOK'
  <2>1. \A q \in Ip : attempts'[q] \subseteq Stamp
    BY <1>4, <1>5 DEF RateInv, RateTypeOK, Recent
  <2>2. attempts' \in [Ip -> SUBSET Stamp]
    BY <1>1, <2>1
  <2>3. blocked' \in [Ip -> Nat]
    BY <1>1 DEF RateInv, RateTypeOK
  <2>4. accepted' \in [Ip -> SUBSET Stamp]
    BY <1>3, <1>4 DEF RateInv, RateTypeOK
  <2> QED
    BY <1>3, <2>2, <2>3, <2>4 DEF RateInv, RateTypeOK
<1>7. RateCap'
  <2> SUFFICES ASSUME NEW q \in Ip, NEW t \in Time
               PROVE  Cardinality(During(q, t)') <= Limit
    BY DEF RateCap, During
  <2>1. CASE q = p
    BY <1>3, <2>1, OneMoreStamp
  <2>2. CASE q # p
    <3>1. During(q, t)' = During(q, t)
      BY <1>5, <2>2 DEF During
    <3> QED
      BY <3>1 DEF RateInv, RateCap
  <2> QED
    BY <2>1, <2>2
<1>8. ASSUME NEW q \in Ip PROVE Remembered(q)'
  <2>1. IsFiniteSet(accepted'[q])
    <3>1. IsFiniteSet(accepted[q]) /\ IsFiniteSet(accepted[p])
      BY DEF RateInv, Remembered
    <3>2. IsFiniteSet(accepted[p] \union {NewStamp(p)})
      BY <3>1, AddOne
    <3> QED
      BY <1>5, <3>1, <3>2
  <2>2. tab[q] \subseteq accepted'[q]
    <3>1. attempts[q] \subseteq accepted[q] /\ attempts[p] \subseteq accepted[p]
      BY DEF RateInv, Remembered
    <3>2. Recent(attempts[p]) \subseteq attempts[p]
      BY DEF Recent
    <3> HIDE DEF tab
    <3> QED
      BY <1>5, <3>1, <3>2
  <2>3. attempts'[q] \subseteq accepted'[q]
    BY <1>5, <2>2
  <2>4. /\ Recent(accepted[q]) \subseteq attempts[q]
        /\ Recent(accepted[p]) \subseteq attempts[p]
    BY DEF RateInv, Remembered
  <2>5. Recent(accepted'[q]) \subseteq tab[q]
    <3> HIDE DEF tab
    <3> QED
      BY <1>5, <2>4 DEF Recent
  <2>6. q \in S => Recent(accepted'[q]) = {}
    BY <1>2, <2>5 DEF Stale, Entries, Recent
  <2>7. Recent(accepted'[q]) \subseteq attempts'[q]
    BY <1>5, <2>5, <2>6
  <2>8. \A a \in accepted'[q] : a[1] <= now
    BY <1>3, <1>4, <1>5 DEF RateInv, Remembered
  <2>9. Recent(accepted[q])' \subseteq attempts'[q]
    BY <1>3, <2>7 DEF Recent
  <2>10. \A a \in accepted'[q] : a[1] <= now'
    BY <1>3, <2>8
  <2> QED
    BY <2>1, <2>3, <2>9, <2>10 DEF Remembered
<1> QED
  BY <1>6, <1>7, <1>8 DEF RateInv

(* Tripping the block forgets only what is outside the window.             *)
LEMMA TripOK == ASSUME RateInv, NEW p \in Ip, Trip(p) PROVE RateInv'
<1> USE ThrottleAssumption
<1>1. /\ now' = now /\ accepted' = accepted
      /\ \A q \in Ip : attempts'[q] = IF q = p THEN Recent(attempts[p]) ELSE attempts[q]
  BY DEF Trip, RateInv, RateTypeOK
<1>2. RateTypeOK'
  BY DEF Trip, RateInv, RateTypeOK, Time, Recent
<1>3. RateCap'
  BY <1>1 DEF RateInv, RateCap, During
<1>4. ASSUME NEW q \in Ip PROVE Remembered(q)'
  BY <1>1 DEF RateInv, Remembered, Recent
<1> QED
  BY <1>2, <1>3, <1>4 DEF RateInv

(* As time goes on, less is recent.                                        *)
LEMMA TickOK == ASSUME RateInv, Tick PROVE RateInv'
<1> USE ThrottleAssumption
<1>1. now \in Nat /\ now' = now + 1 /\ accepted' = accepted /\ attempts' = attempts
  BY DEF Tick, RateInv, RateTypeOK, Time
<1>2. RateTypeOK'
  BY DEF Tick, RateInv, RateTypeOK, Time
<1>3. RateCap'
  BY <1>1 DEF RateInv, RateCap, During
<1>4. ASSUME NEW p \in Ip PROVE Remembered(p)'
  <2>1. \A a \in accepted[p] : a[1] \in Nat
    BY DEF RateInv, RateTypeOK, Stamp, Time
  <2>2. Recent(accepted[p])' \subseteq Recent(accepted[p])
    BY <1>1, <2>1 DEF Recent
  <2> QED
    BY <1>1, <2>1, <2>2 DEF RateInv, Remembered
<1> QED
  BY <1>2, <1>3, <1>4 DEF RateInv

(* The inductive invariant of the throttle.                                *)
THEOREM RateInvariance == RateSpec => []RateInv
<1>1. RateInit => RateInv
  BY RateInitOK
<1>2. RateInv /\ [RateNext]_rateVars => RateInv'
  <2> SUFFICES ASSUME RateInv, [RateNext]_rateVars PROVE RateInv'
    OBVIOUS
  <2>1. CASE Tick
    BY <2>1, TickOK
  <2>2. ASSUME NEW p \in Ip, Admit(p) PROVE RateInv'
    BY <2>2, AdmitOK
  <2>3. ASSUME NEW p \in Ip, Trip(p) PROVE RateInv'
    BY <2>3, TripOK
  <2>4. CASE UNCHANGED rateVars
    BY <2>4 DEF rateVars, RateInv, RateTypeOK, RateCap, During, Remembered, Recent
  <2> QED
    BY <2>1, <2>2, <2>3, <2>4 DEF RateNext, RefuseBlocked
<1> QED
  BY <1>1, <1>2, PTL DEF RateSpec

(* No window of time lets in more connections of an address than the limit *)
(* of the configuration, whatever the throttle forgets on the way          *)
(* (_accepts_new_connection).                                              *)
THEOREM RateCapCorrect == RateSpec => []RateCap
<1>1. RateInv => RateCap
  BY DEF RateInv
<1> QED
  BY <1>1, RateInvariance, PTL

(* Below its cap the table drops nothing when one more address is entered. *)
LEMMA NothingDropped ==
  ASSUME RateTypeOK, NEW p \in Ip, Admit(p), Cardinality(Entries(attempts)) < TableCap
  PROVE  \A q \in Ip \ {p} : blocked'[q] = blocked[q]
<1> USE ThrottleAssumption
<1> DEFINE tab == [attempts EXCEPT ![p] = Recent(@) \union {NewStamp(p)}]
<1>1. PICK S \in Dropped(tab) :
        blocked' = [q \in Ip |-> IF q \in S \union {p} THEN 0 ELSE blocked[q]]
  BY DEF Admit
<1>2. Entries(tab) \subseteq Entries(attempts) \union {p}
  BY DEF Entries, RateTypeOK
<1>3. IsFiniteSet(Entries(attempts)) /\ Cardinality(Entries(attempts)) \in Nat
  <2>1. Entries(attempts) \subseteq Ip
    BY DEF Entries
  <2> QED
    BY <2>1, FS_Subset, FS_CardinalityType
<1> HIDE DEF tab
<1>4. /\ IsFiniteSet(Entries(attempts) \union {p})
      /\ Cardinality(Entries(attempts) \union {p}) <= Cardinality(Entries(attempts)) + 1
  BY <1>3, AddOne
<1>5. /\ Cardinality(Entries(tab)) <= Cardinality(Entries(attempts) \union {p})
      /\ Cardinality(Entries(tab)) \in Nat
      /\ Cardinality(Entries(attempts) \union {p}) \in Nat
  BY <1>2, <1>4, FS_Subset, FS_CardinalityType
<1>6. TableCap \in Nat
  OBVIOUS
<1>7. Cardinality(Entries(tab)) <= TableCap
  BY <1>3, <1>4, <1>5, <1>6
<1>8. S = {}
  BY <1>7 DEF Dropped
<1> QED
  BY <1>1, <1>8

(* A block of an address lasts until its time is over, as long as the      *)
(* table of attempts is below its cap.                                     *)
THEOREM BlockLastsCorrect == RateSpec => BlockLasts
<1> DEFINE Lasts == \A p \in Ip : blocked[p] > now /\ Cardinality(Entries(attempts)) < TableCap
                                    => blocked'[p] = blocked[p]
<1>1. RateInv /\ [RateNext]_rateVars => [Lasts]_rateVars
  <2> SUFFICES ASSUME RateInv, RateNext, NEW q \in Ip, blocked[q] > now,
                      Cardinality(Entries(attempts)) < TableCap
               PROVE  blocked'[q] = blocked[q]
    BY DEF rateVars
  <2>1. ASSUME NEW p \in Ip, Admit(p) PROVE blocked'[q] = blocked[q]
    BY <2>1, NothingDropped DEF Admit, IsBlocked, RateInv
  <2>2. ASSUME NEW p \in Ip, Trip(p) PROVE blocked'[q] = blocked[q]
    BY <2>2 DEF Trip, IsBlocked, RateInv, RateTypeOK
  <2>3. ASSUME NEW p \in Ip, RefuseBlocked(p) PROVE blocked'[q] = blocked[q]
    BY <2>3 DEF RefuseBlocked, rateVars
  <2> QED
    BY <2>1, <2>2, <2>3 DEF RateNext, Tick
<1> QED
  BY <1>1, RateInvariance, PTL DEF RateSpec, BlockLasts

-----------------------------------------------------------------------------
(***************************************************************************)
(* The accept loops.                                                       *)
(***************************************************************************)
(* A thread belongs to a connection the loop has been through.             *)
NoEarlyThread == \A c \in Conn : socket[c] = "new" => thread[c] = "none"

(* As long as no thread has been late: the loop's variable still is the     *)
(* handler of the thread that has not read it.                             *)
OwnHandler ==
    \A c \in Conn : thread[c] = "started" => handler[via[c]] = c

(* If the cap was never changed either: the count is that of the sockets.  *)
CountIsOpen == active = IF cap = 0 THEN 0 ELSE Cardinality(Open)

IInv == /\ TypeOK
        /\ NoEarlyThread
        /\ SlotsReturn
        /\ OwnThread
        /\ ~late => OwnHandler
        /\ ~late /\ ~reloaded => CountIsOpen

(* Sets of connections are finite.                                         *)
LEMMA Finite ==
  /\ IsFiniteSet(Open) /\ Cardinality(Open) \in Nat
  /\ IsFiniteSet(Alive) /\ Cardinality(Alive) \in Nat
<1>1. Open \subseteq Conn /\ Alive \subseteq Conn
  BY DEF Open, Alive
<1> QED
  BY <1>1, AdmissionAssumption, FS_Subset, FS_CardinalityType

(* The cardinality of a set of connections with one more, or one less.     *)
LEMMA OneMore ==
  ASSUME NEW T, NEW U, NEW x, IsFiniteSet(T), x \notin T, U = T \union {x}
  PROVE  Cardinality(U) = Cardinality(T) + 1
BY FS_AddElement

LEMMA OneLess ==
  ASSUME NEW T, NEW U, NEW x, IsFiniteSet(T), x \in T, U = T \ {x}
  PROVE  /\ Cardinality(U) = Cardinality(T) - 1
         /\ Cardinality(U) \in Nat
BY FS_RemoveElement, FS_CardinalityType

(* In the beginning there are no threads, sockets or slots.                *)
LEMMA InitOK == Init => IInv
<1> SUFFICES ASSUME Init PROVE IInv
  OBVIOUS
<1>1. TypeOK
  BY DEF Init, TypeOK
<1>2. Open = {} /\ Alive = {}
  BY DEF Init, Open, Alive
<1>3. active = 0 /\ Cardinality(Open) = 0 /\ Cardinality(Alive) = 0
  BY <1>2, FS_EmptySet DEF Init
<1>4. SlotsReturn /\ CountIsOpen
  BY <1>3 DEF SlotsReturn, CountIsOpen
<1>5. OwnThread /\ OwnHandler
  BY <1>2 DEF Init, OwnHandler, OwnThread
<1>6. NoEarlyThread
  BY DEF Init, NoEarlyThread
<1> QED
  BY <1>1, <1>4, <1>5, <1>6 DEF IInv

(* A refused connection has no thread, and no socket that counts.          *)
LEMMA RefuseOK ==
  ASSUME IInv, NEW l \in Listener, NEW c \in Conn, Refuse(l, c) PROVE IInv'
<1>1. Open' = Open /\ Alive' = Alive
  BY DEF Refuse, Ready, IInv, TypeOK, Open, Alive
<1>2. TypeOK' /\ NoEarlyThread'
  BY DEF Refuse, IInv, TypeOK, NoEarlyThread
<1>3. SlotsReturn'
  BY <1>1 DEF Refuse, IInv, SlotsReturn
<1>4. OwnThread' /\ (~late' => OwnHandler')
  BY <1>1 DEF Refuse, IInv, OwnHandler, OwnThread
<1>5. ~late' /\ ~reloaded' => CountIsOpen'
  BY <1>1 DEF Refuse, IInv, CountIsOpen
<1> QED
  BY <1>2, <1>3, <1>4, <1>5 DEF IInv

(* Accepting takes a slot for the new thread.                              *)
LEMMA AcceptOK ==
  ASSUME IInv, NEW l \in Listener, NEW c \in Conn, Accept(l, c) PROVE IInv'
<1>1. /\ Open' = Open \union {c} /\ c \notin Open
      /\ Alive' = Alive \union {c} /\ c \notin Alive
  BY DEF Accept, Ready, IInv, TypeOK, NoEarlyThread, Open, Alive
<1>2. /\ Cardinality(Open') = Cardinality(Open) + 1
      /\ Cardinality(Alive') = Cardinality(Alive) + 1
  BY <1>1, Finite, OneMore
<1>3. TypeOK' /\ NoEarlyThread'
  BY DEF Accept, OpenSlot, IInv, TypeOK, NoEarlyThread
<1>4. SlotsReturn'
  BY <1>2, Finite DEF Accept, OpenSlot, IInv, TypeOK, SlotsReturn
<1>5. OwnThread' /\ (~late' => OwnHandler')
  BY <1>1 DEF Accept, Ready, Started, IInv, TypeOK, OwnHandler, OwnThread
<1>6. ~late' /\ ~reloaded' => CountIsOpen'
  BY <1>2, Finite, AdmissionAssumption
     DEF Accept, OpenSlot, IInv, TypeOK, CountIsOpen
<1> QED
  BY <1>3, <1>4, <1>5, <1>6 DEF IInv

(* A thread that starts changes no count.                                  *)
LEMMA BeginOK == ASSUME IInv, NEW c \in Conn, Begin(c) PROVE IInv'
<1>1. Open' = Open /\ Alive' = Alive
  BY DEF Begin, IInv, TypeOK, Open, Alive
<1>2. TypeOK' /\ NoEarlyThread'
  BY DEF Begin, IInv, TypeOK, NoEarlyThread
<1>3. SlotsReturn'
  BY <1>1 DEF Begin, IInv, SlotsReturn
<1>4. OwnThread' /\ (~late' => OwnHandler')
  BY <1>1 DEF Begin, IInv, TypeOK, OwnHandler, OwnThread
<1>5. ~late' /\ ~reloaded' => CountIsOpen'
  BY <1>1 DEF Begin, IInv, CountIsOpen
<1> QED
  BY <1>2, <1>3, <1>4, <1>5 DEF IInv

(* A thread that ends gives a slot back, the one of its own connection if  *)
(* none has been late.                                                     *)
LEMMA FinishOK == ASSUME IInv, NEW c \in Conn, Finish(c) PROVE IInv'
<1>1. Alive' = Alive \ {c} /\ c \in Alive
  BY DEF Finish, IInv, TypeOK, Alive
<1>2. /\ Cardinality(Alive') = Cardinality(Alive) - 1
      /\ Cardinality(Alive') \in Nat
  BY <1>1, Finite, OneLess
<1>3. TypeOK' /\ NoEarlyThread'
  <2>1. socket' = [d \in Conn |-> IF d = serves[c] THEN "closed" ELSE socket[d]]
    BY DEF Finish, IInv, TypeOK
  <2>2. thread' = [d \in Conn |-> IF d = c THEN "done" ELSE thread[d]]
    BY DEF Finish, IInv, TypeOK
  <2>3. socket' \in [Conn -> {"new", "refused", "open", "closed"}]
    BY <2>1 DEF IInv, TypeOK
  <2>4. thread' \in [Conn -> {"none", "started", "running", "done"}]
    BY <2>2 DEF IInv, TypeOK
  <2>5. TypeOK'
    BY <2>3, <2>4 DEF Finish, CloseSlot, IInv, TypeOK
  <2>6. NoEarlyThread'
    BY <2>1, <2>2 DEF Finish, IInv, NoEarlyThread
  <2> QED
    BY <2>5, <2>6
<1>4. SlotsReturn'
  BY <1>2, Finite DEF Finish, CloseSlot, IInv, TypeOK, SlotsReturn
<1>5. ASSUME ~late
      PROVE  /\ Open' = Open \ {c} /\ c \in Open
             /\ OwnThread' /\ OwnHandler'
  <2>1. serves[c] = c /\ c \in Open
    BY <1>1, <1>5 DEF Finish, IInv, OwnHandler, OwnThread
  <2>2. Open' = Open \ {c}
    BY <2>1 DEF Finish, IInv, TypeOK, Open
  <2>3. OwnThread' /\ OwnHandler'
    BY <1>1, <1>5, <2>1, <2>2 DEF Finish, IInv, TypeOK, OwnHandler, OwnThread
  <2> QED
    BY <2>1, <2>2, <2>3
<1>6. ASSUME ~late, ~reloaded PROVE CountIsOpen'
  <2>1. /\ Cardinality(Open') = Cardinality(Open) - 1
        /\ Cardinality(Open') \in Nat
    BY <1>5, <1>6, Finite, OneLess
  <2> QED
    BY <1>6, <2>1, Finite DEF Finish, CloseSlot, IInv, TypeOK, CountIsOpen
<1>7. late' = late /\ reloaded' = reloaded
  BY DEF Finish
<1>8. late => OwnThread'
  BY <1>7 DEF OwnThread
<1> QED
  BY <1>3, <1>4, <1>5, <1>6, <1>7, <1>8 DEF IInv

(* A reload changes the cap only.                                          *)
LEMMA ReloadOK == ASSUME IInv, Reload PROVE IInv'
<1>1. Open' = Open /\ Alive' = Alive
  BY DEF Reload, Open, Alive
<1> QED
  BY <1>1 DEF Reload, IInv, TypeOK, NoEarlyThread, SlotsReturn, OwnHandler,
              OwnThread

(* The inductive invariant of the accept loops.                            *)
THEOREM Invariance == Spec => []IInv
<1>1. Init => IInv
  BY InitOK
<1>2. IInv /\ [Next]_vars => IInv'
  <2> SUFFICES ASSUME IInv, [Next]_vars PROVE IInv'
    OBVIOUS
  <2>1. ASSUME NEW l \in Listener, NEW c \in Conn, Refuse(l, c) PROVE IInv'
    BY <2>1, RefuseOK
  <2>2. ASSUME NEW l \in Listener, NEW c \in Conn, Accept(l, c) PROVE IInv'
    BY <2>2, AcceptOK
  <2>3. ASSUME NEW c \in Conn, Begin(c) PROVE IInv'
    BY <2>3, BeginOK
  <2>4. ASSUME NEW c \in Conn, Finish(c) PROVE IInv'
    BY <2>4, FinishOK
  <2>5. CASE Reload
    BY <2>5, ReloadOK
  <2>6. CASE UNCHANGED vars
    BY <2>6 DEF vars, IInv, TypeOK, NoEarlyThread, SlotsReturn, OwnHandler,
                OwnThread, CountIsOpen, Open, Alive
  <2> QED
    BY <2>1, <2>2, <2>3, <2>4, <2>5, <2>6 DEF Next
<1> QED
  BY <1>1, <1>2, PTL DEF Spec

(* The count of connections (_lobby_active_connections) never exceeds the  *)
(* number of threads that will still give a slot back.                     *)
THEOREM SlotsReturnCorrect == Spec => []SlotsReturn
<1>1. IInv => SlotsReturn
  BY DEF IInv
<1> QED
  BY <1>1, Invariance, PTL

(* As long as no thread was late, the thread of a connection runs the       *)
(* handler of that connection (_run_handler), until the socket is closed.  *)
THEOREM OwnThreadCorrect == Spec => []OwnThread
<1>1. IInv => OwnThread
  BY DEF IInv
<1> QED
  BY <1>1, Invariance, PTL

(* If moreover the configuration was never reloaded, no connection is let  *)
(* in beyond SERVER_MAX_CONNECTIONS.                                       *)
THEOREM SocketCapCorrect == Spec => SocketCap
<1>1. IInv /\ [Next]_vars => [~late /\ ~reloaded => BelowCap]_vars
  <2> SUFFICES ASSUME IInv, Next, ~late, ~reloaded, NEW c \in Conn,
                      socket[c] # "open", socket'[c] = "open", cap > 0
               PROVE  Cardinality(Open) < cap
    BY DEF BelowCap, vars
  <2>1. PICK l \in Listener : \E d \in Conn : Accept(l, d)
    <3>1. ASSUME NEW d \in Conn, Begin(d) \/ Finish(d) PROVE FALSE
      BY <3>1 DEF Begin, Finish, IInv, TypeOK
    <3>2. ASSUME NEW l \in Listener, NEW d \in Conn, Refuse(l, d) PROVE FALSE
      BY <3>2 DEF Refuse, IInv, TypeOK
    <3> QED
      BY <3>1, <3>2 DEF Next, Reload
  <2>2. OpenSlot /\ CountIsOpen
    BY <2>1 DEF Accept, IInv
  <2> QED
    BY <2>2, AdmissionAssumption DEF OpenSlot, CountIsOpen, IInv, TypeOK
<1> QED
  BY <1>1, Invariance, PTL DEF Spec, SocketCap
=============================================================================
