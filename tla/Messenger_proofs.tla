-------------------------- MODULE Messenger_proofs --------------------------
(***************************************************************************)
(* The messenger, for any connections, personas, teams and limits: its     *)
(* dictionaries agree, whoever registers, moves and leaves, and what a     *)
(* client was told last is right.                                          *)
(*                                                                         *)
(* TypeOK and Agree are inductive together: the roster a connection asks   *)
(* for is a finite list because every persona that is online is the        *)
(* persona of a connection.  ToldInv adds what is under way: each notice   *)
(* and each row on its way to a client tells the truth, or the client and  *)
(* the persona are in unsure.                                              *)
(***************************************************************************)
EXTENDS Messenger, TLAPS, FiniteSetTheorems, FunctionTheorems

Live == {c \in Conn : sock[c] \in {"open", "closing"}}

IInv == TypeOK /\ Agree

-----------------------------------------------------------------------------
(* The notices of a thread are a finite sequence.                          *)
LEMMA OrdersAreSequences ==
    ASSUME NEW S, IsFiniteSet(S), NEW s \in Orders(S)
    PROVE  s \in Seq(S) /\ DOMAIN s = 1 .. Cardinality(S)
<1>1. Cardinality(S) \in Nat
  BY FS_CardinalityType
<1>2. s \in [1 .. Cardinality(S) -> S]
  BY DEF Orders
<1> QED
  BY <1>1, <1>2

LEMMA NoticesTyped ==
    ASSUME NEW S \in SUBSET Conn, NEW p \in Persona, NEW on \in BOOLEAN,
           NEW hush \in BOOLEAN, NEW box \in Notices(S, p, on, hush)
    PROVE  box \in Seq(Notice)
<1>1. IsFiniteSet(S)
  BY FS_Subset, MessengerAssumption
<1>2. PICK s \in Orders(S) :
         box = [i \in DOMAIN s |-> [to |-> s[i], about |-> p, on |-> on, hush |-> hush]]
  BY DEF Notices
<1>3. s \in Seq(S) /\ DOMAIN s = 1 .. Cardinality(S) /\ Cardinality(S) \in Nat
  BY <1>1, OrdersAreSequences, FS_CardinalityType
<1>4. \A i \in DOMAIN s : s[i] \in Conn
  BY <1>3
<1>5. box \in [1 .. Cardinality(S) -> Notice]
  BY <1>2, <1>3, <1>4 DEF Notice
<1> QED
  BY <1>3, <1>5

(* Who is told is a set of connections.                                    *)
LEMMA AudienceTyped ==
    ASSUME NEW reg \in [Persona -> SUBSET Conn], NEW p
    PROVE  Audience(reg, p) \in SUBSET Conn
  BY DEF Audience

LEMMA DroppedTyped ==
    ASSUME TypeOK, NEW c \in Conn
    PROVE  Dropped(c) \in [Persona -> SUBSET Conn]
  BY DEF Dropped, TypeOK

(* Finitely many personas are online.                                      *)
LEMMA OnlineFinite ==
    ASSUME IInv, NEW S \in SUBSET Persona, \A p \in S : Online(p)
    PROVE  IsFiniteSet(S)
<1> DEFINE C == {c \in Conn : key[c] \in S}
           f == [c \in C |-> key[c]]
<1>1. IsFiniteSet(C)
  BY FS_Subset, MessengerAssumption
<1>2. \A p \in S : \E c \in C : f[c] = p
  BY DEF IInv, TypeOK, Agree, Online
<1>3. f \in Surjection(C, S)
  BY <1>2, Fun_IsSurj
<1> QED
  BY <1>1, <1>3, FS_Surjection

(* The history only speaks of connections and personas.                    *)
LEMMA CrossingTyped ==
    ASSUME NEW c, NEW box \in Seq(Notice)
    PROVE  Crossing(c, box) \subseteq Conn \X Persona
<1>1. \A i \in DOMAIN box : box[i] \in Notice
  OBVIOUS
<1>2. \A i \in DOMAIN box : <<box[i].to, box[i].about>> \in Conn \X Persona
  BY <1>1 DEF Notice
<1> QED
  BY <1>2 DEF Crossing

LEMMA UnderWayTyped ==
    ASSUME TypeOK, NEW c
    PROVE  UnderWay(c) \subseteq Conn \X Persona
<1>1. \A d \in Conn : \A i \in DOMAIN outbox[d] : outbox[d][i] \in Notice
  BY DEF TypeOK
<1>2. \A d \in Conn : \A i \in DOMAIN outbox[d] :
         <<outbox[d][i].to, outbox[d][i].about>> \in Conn \X Persona
  BY <1>1 DEF Notice
<1> QED
  BY <1>2 DEF UnderWay

(* What a thread puts in its outbox is a list of notices.                  *)
LEMMA PutTyped ==
    ASSUME TypeOK, NEW c \in Conn, NEW box \in Seq(Notice),
           outbox' = [outbox EXCEPT ![c] = box],
           NEW more \in SUBSET (Conn \X Persona),
           unsure' = unsure \union Crossing(c, box) \union more
    PROVE  outbox' \in [Conn -> Seq(Notice)] /\ unsure' \subseteq Conn \X Persona
<1>1. Crossing(c, box) \subseteq Conn \X Persona
  BY CrossingTyped
<1>2. outbox \in [Conn -> Seq(Notice)] /\ unsure \subseteq Conn \X Persona
  BY DEF TypeOK
<1> QED
  BY <1>1, <1>2

LEMMA CostsTyped == ASSUME TypeOK, Costs PROVE commands' \in 0 .. MaxCommands
  BY MessengerAssumption DEF TypeOK, Costs

-----------------------------------------------------------------------------
(* Init: nobody is there.                                                  *)
LEMMA InitOK == Init => IInv
<1> SUFFICES ASSUME Init PROVE IInv
  OBVIOUS
<1>1. TypeOK
  BY MessengerAssumption DEF Init, TypeOK
<1>2. {c \in Conn : sock[c] \in {"open", "closing"}} = {}
  BY DEF Init
<1>3. Agree
  BY <1>2, FS_EmptySet, MessengerAssumption DEF Init, Agree, Online
<1> QED
  BY <1>1, <1>3 DEF IInv

-----------------------------------------------------------------------------
(* Types.                                                                  *)
LEMMA AcceptTyped == ASSUME TypeOK, NEW c \in Conn, Accept(c) PROVE TypeOK'
<1>1. active' \in IF Cap = 0 THEN {0} ELSE 0 .. Cap
  BY MessengerAssumption DEF TypeOK, Accept
<1> QED
  BY <1>1 DEF TypeOK, Accept

LEMMA RefuseTyped == ASSUME TypeOK, NEW c \in Conn, Refuse(c) PROVE TypeOK'
  BY DEF TypeOK, Refuse

LEMMA RegisterTyped ==
    ASSUME TypeOK, NEW c \in Conn, NEW p \in Persona, Register(c, p)
    PROVE  TypeOK'
<1> DEFINE others == IF key[c] = p THEN handlers ELSE Dropped(c)
           emptied == {o \in Persona : o = key[c] /\ others[o] = {}}
           now == [others EXCEPT ![p] = @ \union {c}]
           news == IF others[p] = {} THEN Audience(now, p) ELSE {}
           more == (Conn \X emptied) \union {<<c, p>>} \union Read(p)
<1>1. others \in [Persona -> SUBSET Conn]
  BY DroppedTyped DEF TypeOK
<1>2. now \in [Persona -> SUBSET Conn]
  BY <1>1
<1>3. news \in SUBSET Conn
  BY <1>2, AudienceTyped
<1>4. PICK box \in Notices(news, p, TRUE, TRUE) :
         /\ outbox' = [outbox EXCEPT ![c] = box]
         /\ unsure' = unsure \union Crossing(c, box)
                            \union (Conn \X emptied) \union {<<c, p>>} \union Read(p)
  BY DEF Register
<1>5. box \in Seq(Notice)
  BY <1>3, <1>4, NoticesTyped
<1>6. more \in SUBSET (Conn \X Persona)
  BY DEF Read
<1>7. unsure' = unsure \union Crossing(c, box) \union more
  BY <1>4
<1>8. outbox' \in [Conn -> Seq(Notice)] /\ unsure' \subseteq Conn \X Persona
  <2> HIDE DEF more
  <2> QED
    BY <1>4, <1>5, <1>6, <1>7, PutTyped
<1>9. commands' \in 0 .. MaxCommands
  BY CostsTyped DEF Register, TypeOK
<1>10. handlers' \in [Persona -> SUBSET Conn] /\ present' \subseteq Persona
  BY <1>2 DEF Register, TypeOK
<1>11. /\ who' \in [Conn -> Persona \union {Nobody}]
       /\ key' \in [Conn -> Persona \union {Nobody}]
       /\ UNCHANGED <<sock, active, blocks, look, told>>
  BY DEF Register, TypeOK
<1> QED
  BY <1>8, <1>9, <1>10, <1>11 DEF TypeOK

LEMMA LeaveTyped == ASSUME TypeOK, NEW c \in Conn, Leave(c) PROVE TypeOK'
<1> DEFINE p == key[c]
           last == p # Nobody /\ handlers[p] = {c}
           news == IF last THEN Audience(handlers, p) ELSE {}
<1>1. PICK box \in Notices(news, p, FALSE, FALSE) :
         /\ outbox' = [outbox EXCEPT ![c] = box]
         /\ unsure' = unsure \union Crossing(c, box) \union Read(p)
  BY DEF Leave
<1>2. box \in Seq(Notice) /\ Read(p) \subseteq Conn \X Persona
  <2>1. CASE p \in Persona
    <3>1. news \in SUBSET Conn
      BY AudienceTyped DEF TypeOK
    <3> QED
      BY <2>1, <3>1, <1>1, NoticesTyped DEF Read
  <2>2. CASE p = Nobody
    <3>1. news = {}
      BY <2>2
    <3>2. box = <<>>
      <4>1. PICK s \in Orders({}) :
               box = [i \in DOMAIN s |-> [to |-> s[i], about |-> p,
                                          on |-> FALSE, hush |-> FALSE]]
        BY <3>1, <1>1 DEF Notices
      <4>2. DOMAIN s = 1 .. 0
        BY FS_EmptySet, OrdersAreSequences
      <4> QED
        BY <4>1, <4>2
    <3>3. Read(p) = {}
      BY <2>2, MessengerAssumption DEF Read, TypeOK, Row
    <3> QED
      BY <3>2, <3>3
  <2> QED
    BY <2>1, <2>2 DEF TypeOK
<1>3. outbox' \in [Conn -> Seq(Notice)] /\ unsure' \subseteq Conn \X Persona
  <2>1. Read(p) \in SUBSET (Conn \X Persona)
    BY <1>2
  <2> HIDE DEF p, news
  <2> QED
    BY <1>1, <1>2, <2>1, PutTyped
<1>4. handlers' \in [Persona -> SUBSET Conn]
  BY DroppedTyped DEF Leave
<1>5. /\ sock' \in [Conn -> {"new", "open", "closing", "closed"}]
      /\ key' \in [Conn -> Persona \union {Nobody}]
      /\ present' \subseteq Persona
      /\ UNCHANGED <<active, who, blocks, look, told, commands>>
  BY DEF Leave, TypeOK
<1> QED
  BY <1>3, <1>4, <1>5 DEF TypeOK

LEMMA CloseTyped == ASSUME TypeOK, NEW c \in Conn, Close(c) PROVE TypeOK'
<1>1. active' \in IF Cap = 0 THEN {0} ELSE 0 .. Cap
  BY MessengerAssumption DEF TypeOK, Close
<1> QED
  BY <1>1 DEF TypeOK, Close

LEMMA SetPresenceTyped == ASSUME TypeOK, NEW c \in Conn, SetPresence(c) PROVE TypeOK'
<1>1. key[c] \in Persona
  BY DEF SetPresence, TypeOK
<1>2. PICK box \in Notices(Audience(handlers, key[c]), key[c], TRUE, TRUE) :
         /\ outbox' = [outbox EXCEPT ![c] = box]
         /\ unsure' = unsure \union Crossing(c, box)
  BY DEF SetPresence
<1>3. Audience(handlers, key[c]) \in SUBSET Conn
  BY AudienceTyped DEF TypeOK
<1>4. box \in Seq(Notice)
  BY <1>1, <1>2, <1>3, NoticesTyped
<1>5. {} \in SUBSET (Conn \X Persona) /\ unsure' = unsure \union Crossing(c, box) \union {}
  BY <1>2
<1>6. outbox' \in [Conn -> Seq(Notice)] /\ unsure' \subseteq Conn \X Persona
  BY <1>2, <1>4, <1>5, PutTyped
<1>7. commands' \in 0 .. MaxCommands
  BY CostsTyped DEF SetPresence
<1> QED
  BY <1>1, <1>6, <1>7 DEF SetPresence, TypeOK

LEMMA GetRosterTyped == ASSUME IInv, NEW c \in Conn, GetRoster(c) PROVE TypeOK'
<1> DEFINE rows == Snapshot(who[c])
           more == IF key[c] = Nobody THEN {c} \X rows ELSE {}
           Box(s) == [i \in DOMAIN s |->
                        [to |-> c, about |-> s[i], on |-> TRUE, hush |-> FALSE]]
<1>0. TypeOK
  BY DEF IInv
<1>1. rows \in SUBSET Persona /\ \A p \in rows : Online(p)
  BY DEF Snapshot
<1>2. IsFiniteSet(rows)
  BY <1>1, OnlineFinite
<1>3. PICK s \in Orders(rows) :
         /\ outbox' = [outbox EXCEPT ![c] = Box(s)]
         /\ unsure' = unsure \union Crossing(c, Box(s)) \union more
  BY DEF GetRoster
<1>4. s \in Seq(rows) /\ DOMAIN s = 1 .. Cardinality(rows) /\ Cardinality(rows) \in Nat
  BY <1>2, OrdersAreSequences, FS_CardinalityType
<1>5. \A i \in DOMAIN s : s[i] \in Persona
  BY <1>1, <1>4
<1>6. Box(s) \in [1 .. Cardinality(rows) -> Notice]
  BY <1>4, <1>5 DEF Notice
<1>7. Box(s) \in Seq(Notice)
  BY <1>4, <1>6
<1>8. more \in SUBSET (Conn \X Persona)
  BY <1>1
<1>9. outbox' \in [Conn -> Seq(Notice)] /\ unsure' \subseteq Conn \X Persona
  <2> HIDE DEF more, Box
  <2> QED
    BY <1>0, <1>3, <1>7, <1>8, PutTyped
<1>10. commands' \in 0 .. MaxCommands
  BY <1>0, CostsTyped DEF GetRoster
<1> QED
  BY <1>0, <1>9, <1>10 DEF GetRoster, TypeOK

LEMMA ShowsTyped ==
    ASSUME TypeOK, Costs, NEW c \in Conn, NEW o \in Persona, NEW p \in Persona,
           Shows(c, o, p)
    PROVE  TypeOK'
<1>1. UnderWay(c) \subseteq Conn \X Persona
  BY UnderWayTyped
<1>2. unsure' \subseteq Conn \X Persona
  BY <1>1 DEF Shows, TypeOK
<1>3. look' \in [Conn -> Row \union {<<>>}]
  BY DEF Shows, TypeOK, Row, Online
<1>4. commands' \in 0 .. MaxCommands
  BY CostsTyped
<1> QED
  BY <1>2, <1>3, <1>4 DEF Shows, TypeOK

LEMMA GreetsTyped ==
    ASSUME TypeOK, NEW c \in Conn, NEW q \in Persona, Greets(c, q)
    PROVE  TypeOK'
<1>1. who[c] \in Persona
  BY DEF Greets, TypeOK
<1> QED
  BY <1>1, ShowsTyped DEF Greets

LEMMA DeliverTyped == ASSUME TypeOK, NEW c \in Conn, Deliver(c) PROVE TypeOK'
<1>1. look[c] \in Row
  BY DEF Deliver, TypeOK
<1>2. PICK box \in Notices(handlers[look[c].to], look[c].about, look[c].on, FALSE) :
         /\ outbox' = [outbox EXCEPT ![c] = box]
         /\ unsure' = unsure \union Crossing(c, box)
  BY DEF Deliver
<1>3. /\ handlers[look[c].to] \in SUBSET Conn
      /\ look[c].about \in Persona
      /\ look[c].on \in BOOLEAN
  BY <1>1 DEF TypeOK, Row
<1>4. box \in Seq(Notice)
  BY <1>2, <1>3, NoticesTyped
<1>5. {} \in SUBSET (Conn \X Persona) /\ unsure' = unsure \union Crossing(c, box) \union {}
  BY <1>2
<1>6. outbox' \in [Conn -> Seq(Notice)] /\ unsure' \subseteq Conn \X Persona
  BY <1>2, <1>4, <1>5, PutTyped
<1> QED
  BY <1>6 DEF Deliver, TypeOK

LEMMA BlockTyped ==
    ASSUME TypeOK, NEW c \in Conn, NEW p \in Persona, Block(c, p)
    PROVE  TypeOK'
<1>1. who[c] \in Persona
  BY DEF Block, TypeOK
<1>2. commands' \in 0 .. MaxCommands
  BY CostsTyped DEF Block
<1> QED
  BY <1>1, <1>2 DEF Block, TypeOK

LEMMA UnblockTyped ==
    ASSUME TypeOK, NEW c \in Conn, NEW p \in Persona, Unblock(c, p)
    PROVE  TypeOK'
<1>1. commands' \in 0 .. MaxCommands
  BY CostsTyped DEF Unblock
<1> QED
  BY <1>1 DEF Unblock, TypeOK

LEMMA SendTyped == ASSUME TypeOK, NEW c \in Conn, Send(c) PROVE TypeOK'
<1> DEFINE n == Head(outbox[c])
<1>1. outbox[c] \in Seq(Notice) /\ outbox[c] # <<>>
  BY DEF Send, TypeOK
<1>2. n \in Notice /\ Tail(outbox[c]) \in Seq(Notice)
  BY <1>1
<1>3. n.to \in Conn /\ n.about \in Persona
  BY <1>2 DEF Notice
<1>4. outbox' \in [Conn -> Seq(Notice)]
  BY <1>2 DEF Send, TypeOK
<1>5. told' \in [Conn -> [Persona -> {"nothing", "on", "off"}]]
  <2> HIDE DEF n
  <2>1. told' = IF Suppressed(n) \/ sock[n.to] = "closed"
                  THEN told
                  ELSE [told EXCEPT ![n.to][n.about] = IF n.on THEN "on" ELSE "off"]
    BY DEF Send, n
  <2> QED
    BY <1>3, <2>1 DEF TypeOK
<1>6. unsure' \subseteq Conn \X Persona
  BY <1>3 DEF Send, TypeOK, Notice
<1> QED
  BY <1>4, <1>5, <1>6 DEF Send, TypeOK

-----------------------------------------------------------------------------
(* The dictionaries and the slots.                                         *)

(* Most steps touch neither; nor does a socket that is only told to close. *)
LEMMA AgreeKept ==
    ASSUME Agree, UNCHANGED <<active, key, handlers, present>>, Live' = Live
    PROVE  Agree'
  BY DEF Agree, Online, Live

LEMMA AcceptAgrees == ASSUME IInv, NEW c \in Conn, Accept(c) PROVE Agree'
<1>1. c \notin Live /\ Live' = Live \union {c}
  BY DEF Accept, Live, IInv, TypeOK
<1>2. IsFiniteSet(Live)
  BY FS_Subset, MessengerAssumption DEF Live
<1>3. Cardinality(Live') = Cardinality(Live) + 1
  BY <1>1, <1>2, FS_AddElement
<1>4. active' = IF Cap = 0 THEN 0 ELSE Cardinality(Live')
  BY <1>3 DEF Accept, IInv, Agree, Live
<1> QED
  BY <1>4 DEF Accept, IInv, Agree, Online, Live

LEMMA CloseAgrees == ASSUME IInv, NEW c \in Conn, Close(c) PROVE Agree'
<1>1. c \in Live /\ Live' = Live \ {c}
  BY DEF Close, Live, IInv, TypeOK
<1>2. IsFiniteSet(Live)
  BY FS_Subset, MessengerAssumption DEF Live
<1>3. /\ Cardinality(Live') = Cardinality(Live) - 1
      /\ Cardinality(Live) \in Nat
      /\ Cardinality(Live) # 0
  BY <1>1, <1>2, FS_RemoveElement, FS_CardinalityType, FS_EmptySet
<1>4. active' = IF Cap = 0 THEN 0 ELSE Cardinality(Live')
  BY <1>3 DEF Close, IInv, Agree, Live
<1> QED
  BY <1>4 DEF Close, IInv, Agree, Online, Live

LEMMA RegisterAgrees ==
    ASSUME IInv, NEW c \in Conn, NEW p \in Persona, Register(c, p)
    PROVE  Agree'
<1> DEFINE others == IF key[c] = p THEN handlers ELSE Dropped(c)
           emptied == {o \in Persona : o = key[c] /\ others[o] = {}}
<1>1. /\ handlers \in [Persona -> SUBSET Conn]
      /\ key \in [Conn -> Persona \union {Nobody}]
      /\ \A d \in Conn, q \in Persona : d \in handlers[q] <=> key[d] = q
      /\ present = {q \in Persona : handlers[q] # {}}
  BY DEF IInv, TypeOK, Agree, Online
<1>2. /\ handlers' = [others EXCEPT ![p] = @ \union {c}]
      /\ key' = [key EXCEPT ![c] = p]
      /\ present' = (present \ emptied) \union {p}
      /\ UNCHANGED <<sock, active>>
  BY DEF Register
<1>3. others \in [Persona -> SUBSET Conn]
  BY <1>1, DroppedTyped DEF IInv
<1>4. \A q \in Persona : others[q] = IF key[c] = p THEN handlers[q] ELSE handlers[q] \ {c}
  BY DEF Dropped
<1>5. \A q \in Persona : handlers'[q] = IF q = p THEN others[q] \union {c} ELSE others[q]
  BY <1>2, <1>3
<1>6. \A d \in Conn, q \in Persona : d \in handlers'[q] <=> key'[d] = q
  <2> TAKE d \in Conn, q \in Persona
  <2>1. d \in handlers[q] <=> key[d] = q
    BY <1>1
  <2>2. key'[d] = IF d = c THEN p ELSE key[d]
    BY <1>1, <1>2
  <2>3. CASE key[c] = p
    BY <2>1, <2>2, <2>3, <1>4, <1>5
  <2>4. CASE key[c] # p
    <3>1. d \in others[q] <=> (d \in handlers[q] /\ d # c)
      BY <2>4, <1>4
    <3> QED
      BY <2>1, <2>2, <3>1, <1>5
  <2> QED
    BY <2>3, <2>4
<1>7. \A q \in Persona : q \in present' <=> handlers'[q] # {}
  <2> TAKE q \in Persona
  <2>1. CASE q = p
    BY <2>1, <1>2, <1>5
  <2>2. CASE q # p /\ q = key[c]
    <3>1. handlers'[q] = others[q] /\ c \in handlers[q]
      BY <2>2, <1>1, <1>5
    <3>2. q \in present
      BY <3>1, <1>1
    <3>3. q \in emptied <=> others[q] = {}
      BY <2>2
    <3> QED
      BY <2>2, <3>1, <3>2, <3>3, <1>2
  <2>3. CASE q # p /\ q # key[c]
    <3>0. c \notin handlers[q]
      BY <2>3, <1>1
    <3>1. handlers'[q] = handlers[q]
      <4>1. handlers[q] \ {c} = handlers[q]
        BY <3>0
      <4>2. others[q] = handlers[q]
        BY <4>1, <1>4
      <4> QED
        BY <4>2, <2>3, <1>5
    <3>2. q \notin emptied
      BY <2>3
    <3> QED
      BY <2>3, <3>1, <3>2, <1>1, <1>2
  <2> QED
    BY <2>1, <2>2, <2>3
<1>8. present' = {q \in Persona : handlers'[q] # {}}
  BY <1>1, <1>2, <1>7
<1> QED
  BY <1>2, <1>6, <1>8 DEF IInv, Agree, Online

LEMMA LeaveAgrees == ASSUME IInv, NEW c \in Conn, Leave(c) PROVE Agree'
<1> DEFINE p == key[c]
           last == p # Nobody /\ handlers[p] = {c}
<1>1. /\ handlers \in [Persona -> SUBSET Conn]
      /\ key \in [Conn -> Persona \union {Nobody}]
      /\ \A d \in Conn, q \in Persona : d \in handlers[q] <=> key[d] = q
      /\ present = {q \in Persona : handlers[q] # {}}
  BY DEF IInv, TypeOK, Agree, Online
<1>2. /\ key' = [key EXCEPT ![c] = Nobody]
      /\ present' = IF last THEN present \ {p} ELSE present
      /\ UNCHANGED active
  BY DEF Leave
<1>3. \A q \in Persona : handlers'[q] = handlers[q] \ {c}
  BY DEF Leave, Dropped
<1>4. Live' = Live
  BY DEF Leave, Ready, Live, IInv, TypeOK
<1>5. \A d \in Conn, q \in Persona : d \in handlers'[q] <=> key'[d] = q
  BY <1>1, <1>2, <1>3, MessengerAssumption
<1>6. \A q \in Persona : q \in present' <=> handlers'[q] # {}
  <2> TAKE q \in Persona
  <2>1. CASE q = p
    <3>1. c \in handlers[q] /\ q \in present /\ q # Nobody
      BY <2>1, <1>1, MessengerAssumption
    <3>2. handlers'[q] = {} <=> handlers[q] = {c}
      BY <3>1, <1>3
    <3> QED
      BY <2>1, <3>1, <3>2, <1>2
  <2>2. CASE q # p
    <3>0. c \notin handlers[q]
      BY <2>2, <1>1
    <3>1. handlers'[q] = handlers[q]
      BY <3>0, <1>3
    <3> QED
      BY <2>2, <3>1, <1>1, <1>2
  <2> QED
    BY <2>1, <2>2
<1>7. present' = {q \in Persona : handlers'[q] # {}}
  BY <1>1, <1>2, <1>6
<1> QED
  BY <1>2, <1>4, <1>5, <1>7 DEF IInv, Agree, Online, Live

(* A connection that has a persona is one of its handlers.                 *)
LEMMA SetPresenceAgrees == ASSUME IInv, NEW c \in Conn, SetPresence(c) PROVE Agree'
<1>1. key[c] \in Persona /\ c \in handlers[key[c]]
  BY DEF SetPresence, IInv, TypeOK, Agree
<1>2. present' = present
  BY <1>1 DEF SetPresence, IInv, Agree, Online
<1> QED
  BY <1>2, AgreeKept DEF SetPresence, IInv, Live

-----------------------------------------------------------------------------
LEMMA StepOK == IInv /\ [Next]_vars => IInv'
<1> SUFFICES ASSUME IInv, [Next]_vars PROVE TypeOK' /\ Agree'
  BY DEF IInv
<1>0. TypeOK /\ Agree
  BY DEF IInv
<1>1. ASSUME NEW c \in Conn, Accept(c) PROVE TypeOK' /\ Agree'
  BY <1>0, <1>1, AcceptTyped, AcceptAgrees
<1>2. ASSUME NEW c \in Conn, Refuse(c) PROVE TypeOK' /\ Agree'
  <2>1. Live' = Live
    BY <1>0, <1>2 DEF Refuse, Live, TypeOK
  <2> QED
    BY <1>0, <1>2, <2>1, RefuseTyped, AgreeKept DEF Refuse
<1>3. ASSUME NEW c \in Conn, Leave(c) PROVE TypeOK' /\ Agree'
  BY <1>0, <1>3, LeaveTyped, LeaveAgrees
<1>4. ASSUME NEW c \in Conn, Close(c) PROVE TypeOK' /\ Agree'
  BY <1>0, <1>4, CloseTyped, CloseAgrees
<1>5. ASSUME NEW c \in Conn, SetPresence(c) PROVE TypeOK' /\ Agree'
  BY <1>0, <1>5, SetPresenceTyped, SetPresenceAgrees
<1>6. ASSUME NEW c \in Conn, GetRoster(c) PROVE TypeOK' /\ Agree'
  BY <1>0, <1>6, GetRosterTyped, AgreeKept DEF GetRoster, Live
<1>7. ASSUME NEW c \in Conn, Deliver(c) PROVE TypeOK' /\ Agree'
  BY <1>0, <1>7, DeliverTyped, AgreeKept DEF Deliver, Live
<1>8. ASSUME NEW c \in Conn, Send(c) PROVE TypeOK' /\ Agree'
  BY <1>0, <1>8, SendTyped, AgreeKept DEF Send, Live
<1>9. ASSUME NEW c \in Conn, NEW p \in Persona, Register(c, p) PROVE TypeOK' /\ Agree'
  BY <1>0, <1>9, RegisterTyped, RegisterAgrees
<1>10. ASSUME NEW c \in Conn, NEW p \in Persona, Greets(c, p) PROVE TypeOK' /\ Agree'
  BY <1>0, <1>10, GreetsTyped, AgreeKept DEF Greets, Shows, Live
<1>11. ASSUME NEW c \in Conn, NEW p \in Persona, Block(c, p) PROVE TypeOK' /\ Agree'
  BY <1>0, <1>11, BlockTyped, AgreeKept DEF Block, Live
<1>12. ASSUME NEW c \in Conn, NEW p \in Persona, Unblock(c, p) PROVE TypeOK' /\ Agree'
  BY <1>0, <1>12, UnblockTyped, AgreeKept DEF Unblock, Live
<1>13. ASSUME NEW c \in Conn, NEW o \in Persona, NEW p \in Persona, RosterRow(c, o, p)
       PROVE TypeOK' /\ Agree'
  BY <1>0, <1>13, ShowsTyped, AgreeKept DEF RosterRow, Shows, Live
<1>14. ASSUME UNCHANGED vars PROVE TypeOK' /\ Agree'
  BY <1>0, <1>14, AgreeKept DEF vars, TypeOK, Live
<1> QED
  BY <1>1, <1>2, <1>3, <1>4, <1>5, <1>6, <1>7, <1>8, <1>9, <1>10, <1>11, <1>12,
     <1>13, <1>14 DEF Next, Chat, Invite

(* The types and the agreement of the dictionaries hold in every reachable *)
(* state, each with the help of the other.                                 *)
THEOREM Invariance == Spec => []IInv
  BY InitOK, StepOK, PTL DEF Spec

(* Every variable of the messenger keeps its type; with a limit, no more   *)
(* than CONTROL_MAX_CONNECTIONS slots are ever taken, and none is given    *)
(* back that was not taken.                                                *)
THEOREM TypeCorrect == Spec => []TypeOK
<1>1. IInv => TypeOK
  BY DEF IInv
<1> QED
  BY <1>1, Invariance, PTL

(* A persona's handlers are the connections that have it, presence is kept *)
(* for exactly the personas with handlers, and the count of slots is that  *)
(* of the live connections, in every interleaving of registering, moving   *)
(* to another persona and closing.                                         *)
THEOREM DictionariesAgree == Spec => []Agree
<1>1. IInv => Agree
  BY DEF IInv
<1> QED
  BY <1>1, Invariance, PTL

-----------------------------------------------------------------------------
(* What clients were told.                                                 *)

(* Notice i of thread d is to c and about p.                               *)
Tells(d, i, c, p) ==
    /\ i \in DOMAIN outbox[d]
    /\ outbox[d][i].to = c
    /\ outbox[d][i].about = p

Pending(c, p) == \E d \in Conn : \E i \in DOMAIN outbox[d] : Tells(d, i, c, p)

PlacesOK ==
    \A c \in Conn :
        /\ key[c] # Nobody => sock[c] = "open" /\ <<c, key[c]>> \in unsure
        /\ look[c] # <<>> => outbox[c] = <<>>

BlocksOK == \A o, p \in Persona : <<o, p>> \in blocks => Conn \X {o, p} \subseteq unsure

RowsOK ==
    \A e \in Conn : look[e] # <<>> =>
        look[e].on = Online(look[e].about) \/ Conn \X {look[e].about} \subseteq unsure

Right(c, p) ==
    /\ told[c][p] = "on" => Online(p)
    /\ told[c][p] = "off" => ~Online(p)

(* To a connection that has a persona everything under way is true, and    *)
(* what it was told last is, if nothing is under way; one that has none,   *)
(* and may still get one, was told nothing.                                *)
NewsOK(c, p) ==
    /\ key[c] # Nobody =>
          /\ \A d \in Conn : \A i \in DOMAIN outbox[d] :
                Tells(d, i, c, p) => outbox[d][i].on = Online(p)
          /\ Pending(c, p) \/ Right(c, p)
    /\ (key[c] = Nobody /\ sock[c] \in {"new", "open"}) =>
          ~Pending(c, p) /\ told[c][p] = "nothing"

ToldInv ==
    /\ PlacesOK
    /\ BlocksOK
    /\ RowsOK
    /\ \A c \in Conn, p \in Persona : <<c, p>> \notin unsure => NewsOK(c, p)

LEMMA InitTold == Init => ToldInv
  BY MessengerAssumption
     DEF Init, ToldInv, PlacesOK, BlocksOK, RowsOK, NewsOK, Pending, Tells, Right

(* An order of a finite set has all of it.                                 *)
LEMMA OrdersHaveAll ==
    ASSUME NEW S, IsFiniteSet(S), NEW s \in Orders(S), NEW x \in S
    PROVE  \E i \in DOMAIN s : s[i] = x
<1> SUFFICES ASSUME \A i \in DOMAIN s : s[i] # x PROVE FALSE
  OBVIOUS
<1> DEFINE n == Cardinality(S)
           T == S \ {x}
<1>1. n \in Nat /\ IsFiniteSet(T) /\ Cardinality(T) = n - 1
  BY FS_RemoveElement, FS_CardinalityType
<1>2. s \in [1 .. n -> S] /\ \A i, j \in 1 .. n : i # j => s[i] # s[j]
  BY DEF Orders
<1>3. s \in [1 .. n -> T]
  BY <1>2
<1>4. IsFiniteSet(1 .. n) /\ Cardinality(1 .. n) = n
  BY <1>1, FS_Interval
<1>5. Cardinality(T) < Cardinality(1 .. n)
  BY <1>1, <1>4
<1>6. \E i, j \in 1 .. n : i # j /\ s[i] = s[j]
  BY <1>1, <1>3, <1>4, <1>5, FS_PigeonHole
<1> QED
  BY <1>2, <1>6

Says(box, S, p, on) ==
    /\ \A i \in DOMAIN box : box[i].to \in S /\ box[i].about = p /\ box[i].on = on
    /\ \A x \in S : \E i \in DOMAIN box : box[i].to = x

LEMMA NoticesSay ==
    ASSUME NEW S \in SUBSET Conn, NEW p \in Persona, NEW on \in BOOLEAN,
           NEW hush \in BOOLEAN, NEW box \in Notices(S, p, on, hush)
    PROVE  Says(box, S, p, on)
<1>1. IsFiniteSet(S)
  BY FS_Subset, MessengerAssumption
<1>2. PICK s \in Orders(S) :
         box = [i \in DOMAIN s |-> [to |-> s[i], about |-> p, on |-> on, hush |-> hush]]
  BY DEF Notices
<1>3. \A i \in DOMAIN s : s[i] \in S
  BY DEF Orders
<1> QED
  BY <1>1, <1>2, <1>3, OrdersHaveAll DEF Says

LEMMA NoNotices ==
    ASSUME NEW p, NEW on \in BOOLEAN, NEW hush \in BOOLEAN,
           NEW box \in Notices({}, p, on, hush)
    PROVE  DOMAIN box = {}
<1>1. PICK s \in Orders({}) :
         box = [i \in DOMAIN s |-> [to |-> s[i], about |-> p, on |-> on, hush |-> hush]]
  BY DEF Notices
<1>2. DOMAIN s = 1 .. 0
  BY FS_EmptySet, OrdersAreSequences
<1> QED
  BY <1>1, <1>2

(* What another thread tells is under way.                                 *)
LEMMA TellsUnderWay ==
    ASSUME NEW c \in Conn, NEW d \in Conn \ {c}, NEW i, NEW e, NEW p, Tells(d, i, e, p)
    PROVE  <<e, p>> \in UnderWay(c)
  BY DEF Tells, UnderWay

-----------------------------------------------------------------------------
(* The notices a step makes: they are true; whoever needs to be told of a  *)
(* persona that has come or gone is.                                       *)
Truthful(box) ==
    \A i \in DOMAIN box : <<box[i].to, box[i].about>> \notin unsure' =>
        key'[box[i].to] # Nobody /\ box[i].on = Online(box[i].about)'

ToldOf(box, p) ==
    /\ Read(p) \subseteq unsure'
    /\ \A d \in Conn : (key'[d] # Nobody /\ <<d, p>> \notin unsure') =>
          \E i \in DOMAIN box : box[i].to = d /\ box[i].about = p

Announces(box) ==
    \A p \in Persona :
        \/ Online(p)' <=> Online(p)
        \/ Conn \X {p} \subseteq unsure'
        \/ ToldOf(box, p)

(* Only a connection that is open gets a persona, and never again one that *)
(* has given its persona up.                                               *)
KeysMove ==
    \A d \in Conn :
        /\ key'[d] # Nobody => key[d] # Nobody \/ sock[d] \in {"new", "open"}
        /\ (key'[d] = Nobody /\ sock'[d] \in {"new", "open"}) =>
              key[d] = Nobody /\ sock[d] \in {"new", "open"}

(* A thread with nothing to send makes notices, of whatever has changed.   *)
LEMMA PutTold ==
    ASSUME TypeOK, ToldInv, NEW c \in Conn, NEW box, outbox[c] = <<>>,
           outbox' = [outbox EXCEPT ![c] = box],
           UNCHANGED <<told, blocks>>,
           PlacesOK',
           \A e \in Conn : look'[e] \in {look[e], <<>>},
           unsure \subseteq unsure',
           Crossing(c, box) \subseteq unsure',
           Truthful(box), Announces(box), KeysMove
    PROVE  ToldInv'
<1>1. \A d \in Conn : outbox'[d] = IF d = c THEN box ELSE outbox[d]
  BY DEF TypeOK
<1>2. BlocksOK'
  BY DEF ToldInv, BlocksOK
<1>3. RowsOK'
  <2> SUFFICES ASSUME NEW e \in Conn, look'[e] # <<>>
               PROVE  (look[e].on = Online(look[e].about) \/ Conn \X {look[e].about} \subseteq unsure)'
    BY DEF RowsOK
  <2> DEFINE p == look[e].about
  <2>1. look'[e] = look[e] /\ look[e] # <<>> /\ look[e] \in Row
    BY DEF TypeOK
  <2>2. p \in Persona /\ look[e].on \in BOOLEAN
    BY <2>1 DEF Row
  <2>3. look[e].on = Online(p) \/ Conn \X {p} \subseteq unsure
    BY <2>1 DEF ToldInv, RowsOK
  <2>4. Read(p) = Conn \X {p}
    BY <2>1 DEF Read
  <2>5. look'[e].on = look[e].on /\ look'[e].about = p
    BY <2>1
  <2>6. CASE Conn \X {p} \subseteq unsure'
    BY <2>5, <2>6
  <2>7. CASE Online(p)' <=> Online(p)
    <3>1. Online(p)' = Online(p)
      BY <2>7 DEF Online
    <3> QED
      BY <2>3, <2>5, <3>1 DEF Online
  <2> QED
    BY <2>2, <2>4, <2>6, <2>7 DEF Announces, ToldOf
<1>4. ASSUME NEW d \in Conn, NEW p \in Persona, <<d, p>> \notin unsure'
      PROVE  NewsOK(d, p)'
  <2>1. NewsOK(d, p)
    BY <1>4 DEF ToldInv
  <2>2. \A e \in Conn \ {c} : \A i : Tells(e, i, d, p)' <=> Tells(e, i, d, p)
    BY <1>1 DEF Tells
  <2>3. \A i : ~Tells(c, i, d, p)
    BY DEF Tells
  <2>4. \A i : Tells(c, i, d, p)' =>
                  key'[d] # Nobody /\ outbox'[c][i].on = Online(p)'
    BY <1>1, <1>4 DEF Tells, Truthful
  <2>5. Pending(d, p) => Pending(d, p)'
    BY <2>2, <2>3 DEF Pending, Tells
  <2>6. Pending(d, p)' => Pending(d, p) \/ key'[d] # Nobody
    BY <2>2, <2>4 DEF Pending, Tells
  <2>7. CASE key'[d] # Nobody
    <3>1. CASE Online(p)' <=> Online(p)
      <4>1. \A e \in Conn \ {c} : \A i : Tells(e, i, d, p)' => outbox'[e][i].on = Online(p)'
        <5> SUFFICES ASSUME NEW e \in Conn \ {c}, NEW i, Tells(e, i, d, p)'
                     PROVE  outbox'[e][i].on = Online(p)'
          OBVIOUS
        <5>1. Tells(e, i, d, p) /\ i \in DOMAIN outbox[e] /\ outbox'[e] = outbox[e]
          BY <1>1, <2>2 DEF Tells
        <5>2. Pending(d, p)
          BY <5>1 DEF Pending
        <5>3. key[d] # Nobody
          BY <2>1, <2>7, <5>2 DEF NewsOK, KeysMove
        <5>4. outbox[e][i].on = Online(p)
          BY <2>1, <5>1, <5>3 DEF NewsOK
        <5>5. Online(p)' = Online(p)
          BY <3>1 DEF Online
        <5> QED
          BY <5>1, <5>4, <5>5
      <4>2. Pending(d, p)' \/ Right(d, p)'
        <5>1. CASE Pending(d, p)
          BY <2>5, <5>1
        <5>2. CASE ~Pending(d, p)
          <6>1. Right(d, p)
            BY <2>1, <2>7, <5>2 DEF NewsOK, Right, KeysMove
          <6> QED
            BY <3>1, <6>1 DEF Right
        <5> QED
          BY <5>1, <5>2
      <4> QED
        BY <2>4, <2>7, <4>1, <4>2 DEF NewsOK
    <3>2. CASE ~(Online(p)' <=> Online(p))
      <4>1. PICK i \in DOMAIN box : box[i].to = d /\ box[i].about = p
        BY <1>4, <2>7, <3>2 DEF Announces, ToldOf
      <4>2. <<d, p>> \notin UnderWay(c)
        BY <1>4, <4>1 DEF Crossing
      <4>3. \A e \in Conn \ {c} : \A j : ~Tells(e, j, d, p)
        BY <4>2, TellsUnderWay
      <4>4. Tells(c, i, d, p)'
        BY <1>1, <4>1 DEF Tells
      <4>5. Pending(d, p)'
        BY <4>4 DEF Pending, Tells
      <4> QED
        BY <2>2, <2>4, <2>7, <4>3, <4>5 DEF NewsOK
    <3> QED
      BY <3>1, <3>2
  <2>8. CASE key'[d] = Nobody
    BY <2>1, <2>6, <2>8 DEF NewsOK, KeysMove
  <2> QED
    BY <2>7, <2>8
<1> QED
  BY <1>2, <1>3, <1>4 DEF ToldInv

-----------------------------------------------------------------------------
(* Steps of a socket change nothing that is said.                          *)
LEMMA SocketTold ==
    ASSUME TypeOK, ToldInv, NEW c \in Conn, Accept(c) \/ Refuse(c) \/ Close(c)
    PROVE  ToldInv'
<1>1. UNCHANGED <<key, handlers, blocks, look, outbox, told, unsure>>
  BY DEF Accept, Refuse, Close
<1>2. \A d \in Conn : /\ sock[d] = "open" => sock'[d] = "open"
                      /\ sock'[d] \in {"new", "open"} => sock[d] \in {"new", "open"}
  BY DEF Accept, Refuse, Close, TypeOK
<1>3. PlacesOK' /\ BlocksOK' /\ RowsOK'
  BY <1>1, <1>2 DEF ToldInv, PlacesOK, BlocksOK, RowsOK, Online
<1>4. ASSUME NEW d \in Conn, NEW p \in Persona, <<d, p>> \notin unsure'
      PROVE  NewsOK(d, p)'
  BY <1>1, <1>2, <1>4 DEF ToldInv, NewsOK, Pending, Tells, Right, Online
<1> QED
  BY <1>3, <1>4 DEF ToldInv

(* A row that a thread has read; a block; an end of one.                   *)
LEMMA StillTold ==
    ASSUME ToldInv, UNCHANGED <<sock, key, handlers, outbox, told>>,
           unsure \subseteq unsure', PlacesOK', BlocksOK', RowsOK'
    PROVE  ToldInv'
<1>1. ASSUME NEW d \in Conn, NEW p \in Persona, <<d, p>> \notin unsure'
      PROVE  NewsOK(d, p)'
  BY <1>1 DEF ToldInv, NewsOK, Pending, Tells, Right, Online
<1> QED
  BY <1>1 DEF ToldInv

LEMMA ShowsTold ==
    ASSUME TypeOK, ToldInv, NEW c \in Conn, NEW o \in Persona, NEW p \in Persona,
           Ready(c), Shows(c, o, p)
    PROVE  ToldInv'
<1>1. \A e \in Conn : look'[e] = IF e = c THEN [to |-> o, about |-> p, on |-> Online(p)]
                                 ELSE look[e]
  BY DEF Shows, TypeOK
<1>2. unsure \subseteq unsure' /\ UNCHANGED <<sock, key, handlers, outbox, told, blocks>>
  BY DEF Shows
<1>3. PlacesOK'
  BY <1>1, <1>2 DEF ToldInv, PlacesOK, Ready
<1>4. BlocksOK'
  BY <1>2 DEF ToldInv, BlocksOK
<1>5. RowsOK'
  <2>1. look'[c].on = Online(p) /\ look'[c].about = p
    BY <1>1
  <2>2. \A e \in Conn \ {c} : look'[e] = look[e]
    BY <1>1
  <2>3. \A q : Online(q)' = Online(q)
    BY <1>2 DEF Online
  <2> QED
    BY <1>2, <2>1, <2>2, <2>3 DEF ToldInv, RowsOK
<1> QED
  BY <1>2, <1>3, <1>4, <1>5, StillTold

LEMMA BlockTold ==
    ASSUME TypeOK, ToldInv, NEW c \in Conn, NEW p \in Persona, Block(c, p) \/ Unblock(c, p)
    PROVE  ToldInv'
<1>1. unsure \subseteq unsure' /\ UNCHANGED <<sock, key, handlers, look, outbox, told>>
  BY DEF Block, Unblock
<1>2. PlacesOK' /\ RowsOK'
  BY <1>1 DEF ToldInv, PlacesOK, RowsOK, Online
<1>3. BlocksOK'
  BY <1>1 DEF ToldInv, BlocksOK, Block, Unblock
<1> QED
  BY <1>1, <1>2, <1>3, StillTold

-----------------------------------------------------------------------------
(* Whoever has another persona, and no block with p, is told of p.         *)
LEMMA AudienceHas ==
    ASSUME TypeOK, NEW reg \in [Persona -> SUBSET Conn], NEW p \in Persona,
           NEW d \in Conn, NEW o \in Persona, d \in reg[o], o # p, ~Hidden(o, p)
    PROVE  d \in Audience(reg, p)
  BY DEF Audience

LEMMA AudienceOf ==
    ASSUME NEW reg \in [Persona -> SUBSET Conn], NEW p,
           NEW d \in Audience(reg, p)
    PROVE  d \in Conn /\ \E o \in Persona : d \in reg[o]
  BY DEF Audience

(* Whoever is sure about p has another persona, and no block with p.       *)
LEMMA SureOpen ==
    ASSUME TypeOK, ToldInv, NEW d \in Conn, NEW p \in Persona,
           key[d] # Nobody, <<d, p>> \notin unsure
    PROVE  key[d] \in Persona /\ key[d] # p /\ ~Hidden(key[d], p)
<1>1. key[d] \in Persona /\ key[d] # p
  BY DEF TypeOK, ToldInv, PlacesOK
<1>2. \A o, q \in Persona : (<<o, q>> \in blocks /\ p \in {o, q}) => <<d, p>> \in unsure
  BY DEF ToldInv, BlocksOK
<1> QED
  BY <1>1, <1>2 DEF Hidden

LEMMA RegisterTold ==
    ASSUME IInv, Agree', ToldInv, NEW c \in Conn, NEW p \in Persona, Register(c, p)
    PROVE  ToldInv'
<1> DEFINE others == IF key[c] = p THEN handlers ELSE Dropped(c)
           emptied == {o \in Persona : o = key[c] /\ others[o] = {}}
           now == [others EXCEPT ![p] = @ \union {c}]
           news == IF others[p] = {} THEN Audience(now, p) ELSE {}
<1>0. TypeOK /\ Agree
  BY DEF IInv
<1>1. /\ handlers' = now /\ key' = [key EXCEPT ![c] = p]
      /\ Ready(c) /\ UNCHANGED <<sock, blocks, look, told>>
  BY DEF Register
<1>2. PICK box \in Notices(news, p, TRUE, TRUE) :
         /\ outbox' = [outbox EXCEPT ![c] = box]
         /\ unsure' = unsure \union Crossing(c, box)
                            \union (Conn \X emptied) \union {<<c, p>>} \union Read(p)
  BY DEF Register
<1>3. others \in [Persona -> SUBSET Conn] /\ now \in [Persona -> SUBSET Conn]
  BY <1>0, DroppedTyped DEF TypeOK
<1>4. news \in SUBSET Conn
  BY <1>3, AudienceTyped
<1>0a. Says(box, news, p, TRUE)
  BY <1>2, <1>4, NoticesSay
<1>5. \A i \in DOMAIN box : box[i].to \in news /\ box[i].about = p /\ box[i].on = TRUE
  BY <1>0a DEF Says
<1>6. \A x \in news : \E i \in DOMAIN box : box[i].to = x /\ box[i].about = p
  <2> HIDE DEF news
  <2> QED
    BY <1>0a DEF Says
<1>7. \A d \in Conn : key'[d] = IF d = c THEN p ELSE key[d]
  BY <1>0, <1>1 DEF TypeOK
<1>8. PlacesOK'
  <2>1. unsure \subseteq unsure' /\ <<c, p>> \in unsure' /\ sock[c] = "open" /\ look[c] = <<>>
    BY <1>1, <1>2 DEF Ready
  <2>2. \A d \in Conn \ {c} : outbox'[d] = outbox[d]
    BY <1>0, <1>2 DEF TypeOK
  <2> QED
    BY <1>1, <1>7, <2>1, <2>2 DEF ToldInv, PlacesOK
<1>9. Online(p)'
  BY <1>1, <1>3 DEF Online
<1>10. ASSUME NEW q \in Persona
       PROVE  (Online(q)' <=> Online(q)) \/ Conn \X {q} \subseteq unsure' \/ ToldOf(box, q)
  <2>1. CASE q = p /\ others[p] = {}
    <3>1. ASSUME NEW d \in Conn, key'[d] # Nobody, <<d, p>> \notin unsure'
          PROVE  d \in news
      <4>1. d # c /\ key[d] # Nobody /\ <<d, p>> \notin unsure
        BY <1>2, <1>7, <3>1
      <4>2. key[d] \in Persona /\ key[d] # p /\ ~Hidden(key[d], p)
        BY <1>0, <4>1, SureOpen
      <4>3. d \in now[key[d]]
        BY <1>1, <1>7, <4>1, <4>2 DEF Agree
      <4> QED
        BY <1>0, <1>3, <2>1, <4>2, <4>3, AudienceHas
    <3>2. Read(p) \subseteq unsure'
      BY <1>2
    <3> QED
      BY <1>6, <2>1, <3>1, <3>2 DEF ToldOf
  <2>2. CASE q = p /\ others[p] # {}
    BY <1>9, <2>2 DEF Online, Dropped
  <2>3. CASE q # p
    <3>1. handlers'[q] = others[q]
      BY <1>1, <1>3, <2>3
    <3>2. CASE q \in emptied
      BY <1>2, <3>2
    <3>3. CASE q = key[c] /\ others[q] # {}
      BY <3>1, <3>3 DEF Online, Dropped
    <3>4. CASE q # key[c]
      <4>1. c \notin handlers[q]
        BY <1>0, <3>4 DEF Agree
      <4>2. others[q] = handlers[q]
        BY <4>1 DEF Dropped
      <4> QED
        BY <3>1, <4>2 DEF Online
    <3> QED
      BY <3>2, <3>3, <3>4
  <2> QED
    BY <2>1, <2>2, <2>3
<1>11. \A i \in DOMAIN box : key'[box[i].to] # Nobody /\ box[i].on = Online(box[i].about)'
  <2> TAKE i \in DOMAIN box
  <2>1. box[i].to \in Audience(now, p)
    BY <1>5
  <2>2. PICK o \in Persona : box[i].to \in now[o] /\ box[i].to \in Conn
    BY <1>3, <2>1, AudienceOf
  <2>3. key'[box[i].to] = o
    BY <1>1, <2>2 DEF Agree
  <2>4. box[i].on = TRUE /\ box[i].about = p
    BY <1>5
  <2>5. Online(p)' = TRUE
    BY <1>9 DEF Online
  <2> QED
    BY <2>2, <2>3, <2>4, <2>5, MessengerAssumption
<1>12. outbox[c] = <<>> /\ unsure \subseteq unsure' /\ Crossing(c, box) \subseteq unsure'
  BY <1>1, <1>2 DEF Ready
<1>13. KeysMove
  BY <1>1, <1>7, MessengerAssumption DEF KeysMove, Ready
<1>14. Announces(box) /\ Truthful(box)
  BY <1>10, <1>11 DEF Announces, Truthful
<1> HIDE DEF others, emptied, now, news
<1> QED
  BY <1>0, <1>1, <1>2, <1>8, <1>12, <1>13, <1>14, PutTold

LEMMA LeaveTold ==
    ASSUME IInv, Agree', ToldInv, NEW c \in Conn, Leave(c)
    PROVE  ToldInv'
<1>p. PICK p : p = key[c]
  OBVIOUS
<1> USE <1>p
<1> DEFINE last == p # Nobody /\ handlers[p] = {c}
           news == IF last THEN Audience(handlers, p) ELSE {}
<1>0. TypeOK /\ Agree
  BY DEF IInv
<1>1. /\ handlers' = Dropped(c) /\ key' = [key EXCEPT ![c] = Nobody]
      /\ sock' = [sock EXCEPT ![c] = "closing"]
      /\ Ready(c) /\ UNCHANGED <<blocks, look, told>>
  BY DEF Leave
<1>2. PICK box \in Notices(news, p, FALSE, FALSE) :
         /\ outbox' = [outbox EXCEPT ![c] = box]
         /\ unsure' = unsure \union Crossing(c, box) \union Read(p)
  BY DEF Leave
<1>3. handlers \in [Persona -> SUBSET Conn]
  BY <1>0 DEF TypeOK
<1>4. news \in SUBSET Conn
  BY <1>3, AudienceTyped
<1>0a. Says(box, news, p, FALSE)
  <2>1. CASE p \in Persona
    <3> HIDE DEF news
    <3> QED
      BY <1>2, <1>4, <2>1, NoticesSay
  <2>2. CASE p = Nobody
    <3>1. news = {}
      BY <2>2
    <3>2. DOMAIN box = {}
      BY <1>2, <3>1, NoNotices
    <3> QED
      BY <3>1, <3>2 DEF Says
  <2> QED
    BY <1>0, <2>1, <2>2 DEF TypeOK
<1>5. \A i \in DOMAIN box : box[i].to \in news /\ box[i].about = p /\ box[i].on = FALSE
  BY <1>0a DEF Says
<1>6. \A x \in news : \E i \in DOMAIN box : box[i].to = x /\ box[i].about = p
  <2> HIDE DEF news
  <2> QED
    BY <1>0a DEF Says
<1>7. \A d \in Conn : /\ key'[d] = IF d = c THEN Nobody ELSE key[d]
                      /\ sock'[d] = IF d = c THEN "closing" ELSE sock[d]
  BY <1>0, <1>1 DEF TypeOK
<1>8. PlacesOK'
  <2>1. unsure \subseteq unsure' /\ look[c] = <<>>
    BY <1>1, <1>2 DEF Ready
  <2>2. \A d \in Conn \ {c} : outbox'[d] = outbox[d]
    BY <1>0, <1>2 DEF TypeOK
  <2> QED
    BY <1>1, <1>7, <2>1, <2>2 DEF ToldInv, PlacesOK
<1>9. ASSUME NEW q \in Persona
      PROVE  (Online(q)' <=> Online(q)) \/ Conn \X {q} \subseteq unsure' \/ ToldOf(box, q)
  <2>0. handlers'[q] = handlers[q] \ {c}
    BY <1>1 DEF Dropped
  <2>1. CASE q = p /\ last
    <3>1. ASSUME NEW d \in Conn, key'[d] # Nobody, <<d, p>> \notin unsure'
          PROVE  d \in news
      <4>1. d # c /\ key[d] # Nobody /\ <<d, p>> \notin unsure
        BY <1>2, <1>7, <3>1
      <4>2. key[d] \in Persona /\ key[d] # p /\ ~Hidden(key[d], p)
        BY <1>0, <2>1, <4>1, SureOpen
      <4>3. d \in handlers[key[d]]
        BY <1>0, <4>2 DEF Agree
      <4> QED
        BY <1>0, <1>3, <2>1, <4>2, <4>3, AudienceHas
    <3>2. Read(p) \subseteq unsure'
      BY <1>2
    <3> QED
      BY <1>6, <2>1, <3>1, <3>2 DEF ToldOf
  <2>2. CASE q = p /\ ~last
    <3>1. c \in handlers[q] /\ handlers[q] # {c}
      BY <1>0, <2>2, MessengerAssumption DEF Agree
    <3> QED
      BY <2>0, <3>1 DEF Online
  <2>3. CASE q # p
    <3>1. c \notin handlers[q]
      BY <1>0, <2>3 DEF Agree
    <3> QED
      BY <2>0, <3>1 DEF Online
  <2> QED
    BY <2>1, <2>2, <2>3
<1>10. ASSUME NEW i \in DOMAIN box
       PROVE  key'[box[i].to] # Nobody /\ box[i].on = Online(box[i].about)'
  <2>1. last /\ box[i].to \in Audience(handlers, p)
    BY <1>5, <1>10
  <2>2. PICK o \in Persona : o # p /\ box[i].to \in handlers[o] /\ box[i].to \in Conn
    BY <1>3, <2>1 DEF Audience
  <2>3. key[box[i].to] = o /\ box[i].to # c
    BY <1>0, <2>2 DEF Agree
  <2>4. box[i].on = FALSE /\ box[i].about = p
    BY <1>5, <1>10
  <2>5. Online(p)' = FALSE
    <3>1. p \in Persona
      BY <1>0, <2>1 DEF TypeOK
    <3>2. handlers'[p] = {}
      BY <1>1, <2>1, <3>1 DEF Dropped
    <3>3. ~Online(p)'
      BY <3>2 DEF Online
    <3> QED
      BY <3>3 DEF Online
  <2> QED
    <3>1. key'[box[i].to] = o /\ o # Nobody
      BY <1>7, <2>2, <2>3, MessengerAssumption
    <3> QED
      BY <2>4, <2>5, <3>1
<1>11. outbox[c] = <<>> /\ unsure \subseteq unsure' /\ Crossing(c, box) \subseteq unsure'
  BY <1>1, <1>2 DEF Ready
<1>12. KeysMove
  BY <1>7 DEF KeysMove
<1>13. Announces(box) /\ Truthful(box)
  BY <1>9, <1>10 DEF Announces, Truthful
<1> HIDE DEF last, news
<1> QED
  BY <1>0, <1>1, <1>2, <1>8, <1>11, <1>12, <1>13, PutTold

-----------------------------------------------------------------------------
(* Notices about who is online, while nobody comes or goes.                *)
LEMMA RepeatTold ==
    ASSUME TypeOK, ToldInv, NEW c \in Conn, NEW box, outbox[c] = <<>>,
           outbox' = [outbox EXCEPT ![c] = box],
           UNCHANGED <<sock, key, handlers, blocks, told>>,
           \A e \in Conn : look'[e] \in {look[e], <<>>}, look'[c] = <<>>,
           unsure \subseteq unsure', Crossing(c, box) \subseteq unsure',
           \A i \in DOMAIN box : <<box[i].to, box[i].about>> \notin unsure' =>
               key[box[i].to] # Nobody /\ box[i].on = Online(box[i].about)
    PROVE  ToldInv'
<1>1. \A d \in Conn \ {c} : outbox'[d] = outbox[d]
  BY DEF TypeOK
<1>2. PlacesOK'
  BY <1>1 DEF ToldInv, PlacesOK
<1>3. \A q : Online(q)' = Online(q)
  BY DEF Online
<1>4. Announces(box) /\ Truthful(box) /\ KeysMove
  BY <1>3 DEF Announces, Truthful, KeysMove
<1> QED
  BY <1>2, <1>4, PutTold

LEMMA SetPresenceTold ==
    ASSUME IInv, ToldInv, NEW c \in Conn, SetPresence(c)
    PROVE  ToldInv'
<1>0. TypeOK /\ Agree
  BY DEF IInv
<1> DEFINE p == key[c]
<1>1. PICK box \in Notices(Audience(handlers, p), p, TRUE, TRUE) :
         outbox' = [outbox EXCEPT ![c] = box] /\ unsure' = unsure \union Crossing(c, box)
  BY DEF SetPresence
<1>2. handlers \in [Persona -> SUBSET Conn] /\ p \in Persona /\ c \in handlers[p]
  BY <1>0 DEF SetPresence, TypeOK, Agree
<1>3. Audience(handlers, p) \in SUBSET Conn
  BY <1>2, AudienceTyped
<1>4. \A i \in DOMAIN box : /\ box[i].to \in Audience(handlers, p)
                             /\ box[i].about = p /\ box[i].on = TRUE
  <2> HIDE DEF p
  <2>1. Says(box, Audience(handlers, p), p, TRUE)
    BY <1>1, <1>2, <1>3, NoticesSay
  <2> QED
    BY <2>1 DEF Says
<1>5. \A d \in Audience(handlers, p) : key[d] # Nobody
  BY <1>0, <1>2, AudienceOf, MessengerAssumption DEF Agree
<1>6. Online(p) = TRUE
  BY <1>2 DEF Online
<1>7. \A i \in DOMAIN box : key[box[i].to] # Nobody /\ box[i].on = Online(box[i].about)
  BY <1>4, <1>5, <1>6
<1>8. UNCHANGED <<sock, key, handlers, blocks, told, look>> /\ outbox[c] = <<>> /\ look[c] = <<>>
  BY DEF SetPresence, Ready
<1> QED
  BY <1>0, <1>1, <1>7, <1>8, RepeatTold

LEMMA GetRosterTold ==
    ASSUME IInv, ToldInv, NEW c \in Conn, GetRoster(c)
    PROVE  ToldInv'
<1>0. TypeOK /\ Agree
  BY DEF IInv
<1> DEFINE rows == Snapshot(who[c])
           Box(s) == [i \in DOMAIN s |->
                        [to |-> c, about |-> s[i], on |-> TRUE, hush |-> FALSE]]
<1>1. PICK s \in Orders(rows) :
         /\ outbox' = [outbox EXCEPT ![c] = Box(s)]
         /\ unsure' = unsure \union Crossing(c, Box(s))
                          \union IF key[c] = Nobody THEN {c} \X rows ELSE {}
  BY DEF GetRoster
<1>2. \A i \in DOMAIN s : s[i] \in rows
  BY DEF Orders
<1>3. \A p \in rows : Online(p) = TRUE
  BY DEF Snapshot, Online
<1>4. \A i \in DOMAIN Box(s) : <<Box(s)[i].to, Box(s)[i].about>> \notin unsure' =>
         key[Box(s)[i].to] # Nobody /\ Box(s)[i].on = Online(Box(s)[i].about)
  BY <1>1, <1>2, <1>3
<1>5. UNCHANGED <<sock, key, handlers, blocks, told, look>> /\ outbox[c] = <<>> /\ look[c] = <<>>
  BY DEF GetRoster, Ready
<1>6. unsure \subseteq unsure' /\ Crossing(c, Box(s)) \subseteq unsure'
  BY <1>1
<1> HIDE DEF Box
<1> QED
  BY <1>0, <1>1, <1>4, <1>5, <1>6, RepeatTold

LEMMA DeliverTold ==
    ASSUME IInv, ToldInv, NEW c \in Conn, Deliver(c)
    PROVE  ToldInv'
<1>0. TypeOK /\ Agree
  BY DEF IInv
<1> DEFINE p == look[c].about
           S == handlers[look[c].to]
<1>1. PICK box \in Notices(S, p, look[c].on, FALSE) :
         outbox' = [outbox EXCEPT ![c] = box] /\ unsure' = unsure \union Crossing(c, box)
  BY DEF Deliver
<1>2. look[c] # <<>> /\ look[c] \in Row
  BY <1>0 DEF Deliver, TypeOK
<1>3. look[c].to \in Persona /\ p \in Persona /\ S \in SUBSET Conn
  BY <1>0, <1>2 DEF Row, TypeOK
<1>4. \A i \in DOMAIN box : box[i].to \in S /\ box[i].about = p /\ box[i].on = look[c].on
  <2>1. look[c].on \in BOOLEAN
    BY <1>2 DEF Row
  <2> HIDE DEF p, S
  <2>2. Says(box, S, p, look[c].on)
    BY <1>1, <1>3, <2>1, NoticesSay
  <2> QED
    BY <2>2 DEF Says
<1>5. \A d \in S : d \in Conn /\ key[d] # Nobody
  BY <1>0, <1>3, MessengerAssumption DEF Agree
<1>6. look[c].on = Online(p) \/ Conn \X {p} \subseteq unsure'
  BY <1>1, <1>2 DEF ToldInv, RowsOK
<1>7. \A i \in DOMAIN box : <<box[i].to, box[i].about>> \notin unsure' =>
         key[box[i].to] # Nobody /\ box[i].on = Online(box[i].about)
  BY <1>4, <1>5, <1>6
<1>8. /\ UNCHANGED <<sock, key, handlers, blocks, told>>
      /\ outbox[c] = <<>>
      /\ \A e \in Conn : look'[e] = IF e = c THEN <<>> ELSE look[e]
  BY <1>0, <1>2 DEF Deliver, ToldInv, PlacesOK, TypeOK
<1> QED
  BY <1>0, <1>1, <1>7, <1>8, RepeatTold

-----------------------------------------------------------------------------
LEMMA SendTold ==
    ASSUME TypeOK, ToldInv, NEW c \in Conn, Send(c)
    PROVE  ToldInv'
<1> DEFINE n == Head(outbox[c])
<1>1. outbox[c] \in Seq(Notice) /\ outbox[c] # <<>> /\ n \in Notice
  BY DEF Send, TypeOK
<1>2. n.to \in Conn /\ n.about \in Persona /\ n.on \in BOOLEAN
  BY <1>1 DEF Notice
<1>3. \A d \in Conn : outbox'[d] = IF d = c THEN Tail(outbox[c]) ELSE outbox[d]
  BY DEF Send, TypeOK
<1>4. /\ UNCHANGED <<sock, key, handlers, blocks, look>>
      /\ unsure' = IF Suppressed(n) THEN unsure \union {<<n.to, n.about>>} ELSE unsure
      /\ told' = IF Suppressed(n) \/ sock[n.to] = "closed"
                    THEN told
                    ELSE [told EXCEPT ![n.to][n.about] = IF n.on THEN "on" ELSE "off"]
  BY DEF Send
<1>5. look[c] = <<>>
  BY <1>1 DEF ToldInv, PlacesOK
<1>6. PlacesOK'
  BY <1>3, <1>4, <1>5 DEF ToldInv, PlacesOK
<1>7. BlocksOK' /\ RowsOK'
  BY <1>4 DEF ToldInv, BlocksOK, RowsOK, Online
<1>8. ASSUME NEW d \in Conn, NEW p \in Persona, <<d, p>> \notin unsure'
      PROVE  NewsOK(d, p)'
  <2>1. NewsOK(d, p)
    BY <1>4, <1>8 DEF ToldInv
  <2>2. \A e \in Conn : \A i : Tells(e, i, d, p)' =>
           \E j : Tells(e, j, d, p) /\ outbox'[e][i] = outbox[e][j]
    <3> SUFFICES ASSUME NEW e \in Conn, NEW i, Tells(e, i, d, p)'
                 PROVE  \E j : Tells(e, j, d, p) /\ outbox'[e][i] = outbox[e][j]
      OBVIOUS
    <3>1. CASE e # c
      BY <1>3, <3>1 DEF Tells
    <3>2. CASE e = c
      <4>1. i \in DOMAIN Tail(outbox[c])
        BY <1>3, <3>2 DEF Tells
      <4>2. i + 1 \in DOMAIN outbox[c] /\ Tail(outbox[c])[i] = outbox[c][i + 1]
        BY <1>1, <4>1
      <4> QED
        BY <1>3, <3>2, <4>2 DEF Tells
    <3> QED
      BY <3>1, <3>2
  <2>3. \A e \in Conn : \A j : Tells(e, j, d, p) =>
           \/ \E i : Tells(e, i, d, p)'
           \/ n.to = d /\ n.about = p
    <3> SUFFICES ASSUME NEW e \in Conn, NEW j, Tells(e, j, d, p)
                 PROVE  (\E i : Tells(e, i, d, p)') \/ (n.to = d /\ n.about = p)
      OBVIOUS
    <3>1. CASE e # c
      BY <1>3, <3>1 DEF Tells
    <3>2. CASE e = c /\ j = 1
      BY <1>1, <3>2 DEF Tells
    <3>3. CASE e = c /\ j # 1
      <4>1. j \in 2 .. Len(outbox[c])
        BY <1>1, <3>3 DEF Tells
      <4>2. j - 1 \in DOMAIN Tail(outbox[c]) /\ Tail(outbox[c])[j - 1] = outbox[c][j]
        BY <1>1, <4>1
      <4>3. Tells(e, j - 1, d, p)'
        BY <1>3, <3>3, <4>2 DEF Tells
      <4> QED
        BY <4>3
    <3> QED
      BY <3>1, <3>2, <3>3
  <2>4. Pending(d, p)' => Pending(d, p)
    BY <2>2 DEF Pending, Tells
  <2>5. Pending(d, p) => Pending(d, p)' \/ (n.to = d /\ n.about = p)
    BY <2>3 DEF Pending, Tells
  <2>6. Online(p)' = Online(p)
    BY <1>4 DEF Online
  <2>7. CASE key[d] # Nobody
    <3>1. \A e \in Conn : \A i \in DOMAIN outbox'[e] :
             Tells(e, i, d, p)' => outbox'[e][i].on = Online(p)
      BY <2>1, <2>2, <2>7 DEF NewsOK, Tells
    <3>2. CASE n.to = d /\ n.about = p
      <4>1. Tells(c, 1, d, p)
        BY <1>1, <3>2 DEF Tells
      <4>2. n.on = Online(p)
        BY <1>1, <2>1, <2>7, <4>1 DEF NewsOK, Tells
      <4>3. ~Suppressed(n) /\ sock[d] # "closed"
        BY <1>4, <1>8, <2>7, <3>2 DEF ToldInv, PlacesOK
      <4>4. told'[d][p] = IF n.on THEN "on" ELSE "off"
        BY <1>4, <3>2, <4>3 DEF TypeOK
      <4>5. Right(d, p)'
        BY <1>2, <2>6, <4>2, <4>4 DEF Right
      <4> QED
        BY <1>4, <2>6, <2>7, <3>1, <4>5 DEF NewsOK
    <3>3. CASE ~(n.to = d /\ n.about = p)
      <4>1. told'[d][p] = told[d][p]
        BY <1>2, <1>4, <3>3 DEF TypeOK
      <4>2. Pending(d, p)' \/ Right(d, p)'
        BY <2>1, <2>5, <2>6, <2>7, <3>3, <4>1 DEF NewsOK, Right
      <4> QED
        BY <1>4, <2>6, <2>7, <3>1, <4>2 DEF NewsOK
    <3> QED
      BY <3>2, <3>3
  <2>8. CASE key[d] = Nobody /\ sock[d] \in {"new", "open"}
    <3>1. ~Pending(d, p) /\ told[d][p] = "nothing"
      BY <2>1, <2>8 DEF NewsOK
    <3>2. ~(n.to = d /\ n.about = p)
      BY <1>1, <3>1 DEF Pending, Tells
    <3>3. told'[d][p] = told[d][p]
      BY <1>2, <1>4, <3>2 DEF TypeOK
    <3> QED
      BY <1>4, <2>4, <2>8, <3>1, <3>3 DEF NewsOK
  <2>9. CASE key[d] = Nobody /\ sock[d] \notin {"new", "open"}
    BY <1>4, <2>9 DEF NewsOK
  <2> QED
    BY <2>7, <2>8, <2>9
<1> QED
  BY <1>6, <1>7, <1>8 DEF ToldInv

-----------------------------------------------------------------------------
LEMMA ToldStep == IInv /\ ToldInv /\ [Next]_vars => ToldInv'
<1> SUFFICES ASSUME IInv, ToldInv, [Next]_vars PROVE ToldInv'
  OBVIOUS
<1>0. TypeOK /\ Agree /\ Agree'
  BY StepOK DEF IInv
<1>1. CASE UNCHANGED vars
  <2>1. PlacesOK' /\ BlocksOK' /\ RowsOK'
    BY <1>1 DEF vars, ToldInv, PlacesOK, BlocksOK, RowsOK, Online
  <2> QED
    BY <1>1, <2>1, StillTold DEF vars
<1>2. ASSUME NEW c \in Conn, NEW p \in Persona, Greets(c, p) PROVE ToldInv'
  <2>1. who[c] \in Persona
    BY <1>0, <1>2 DEF Greets, TypeOK
  <2> QED
    BY <1>0, <1>2, <2>1, ShowsTold DEF Greets
<1>3. ASSUME NEW c \in Conn, NEW o \in Persona, NEW p \in Persona, RosterRow(c, o, p)
      PROVE ToldInv'
  BY <1>0, <1>3, ShowsTold DEF RosterRow
<1> QED
  BY <1>0, <1>1, <1>2, <1>3, SocketTold, BlockTold, RegisterTold, LeaveTold,
     SetPresenceTold, GetRosterTold, DeliverTold, SendTold
     DEF Next, Chat, Invite

(* What a client was told last about a player is so when nothing about the *)
(* player is on its way to it: whichever threads register, leave and send, *)
(* and whenever, a notice that was made earlier never comes last, save     *)
(* where it crossed another or was held back.                              *)
THEOREM ToldRightCorrect == Spec => []ToldRight
<1>1. IInv /\ ToldInv /\ [Next]_vars => ToldInv'
  BY ToldStep
<1>2. ToldInv => ToldRight
  <2> SUFFICES ASSUME ToldInv, NEW c \in Conn, NEW p \in Persona, Sure(c, p),
                      <<c, p>> \notin UnderWay(c), outbox[c] = <<>>
               PROVE  Right(c, p)
    BY DEF ToldRight, Right
  <2>1. \A d \in Conn \ {c} : \A i : ~Tells(d, i, c, p)
    BY TellsUnderWay
  <2>2. ~Pending(c, p)
    BY <2>1 DEF Pending, Tells
  <2> QED
    BY <2>2 DEF Sure, ToldInv, NewsOK
<1> QED
  BY <1>1, <1>2, InitTold, Invariance, PTL DEF Spec
=============================================================================
