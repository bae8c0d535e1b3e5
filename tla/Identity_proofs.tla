--------------------------- MODULE Identity_proofs ---------------------------
(***************************************************************************)
(* What holds of names and personas for any connections, names, addresses, *)
(* bans and number of steps: the registry and its index by name agree, and *)
(* no two players in the lobby have claimed one persona.                   *)
(***************************************************************************)
EXTENDS Identity, FiniteSetTheorems, TLAPS

(***************************************************************************)
(* The registry and its index by name.                                     *)
(***************************************************************************)
RegistryOK ==
    /\ users \subseteq User
    /\ IsFiniteSet(users)
    /\ Cardinality(users) <= MaxUsers
    /\ byName \in [Name -> User \union {None}]
    /\ hidden \subseteq User
    /\ NamesFound

(* There is room for one more.                                             *)
LEMMA OneMore ==
    ASSUME RegistryOK, NEW u \in User, ~Full
    PROVE  /\ IsFiniteSet(users \union {u})
           /\ Cardinality(users \union {u}) <= MaxUsers
<1>1. /\ IsFiniteSet(users \union {u})
      /\ \/ Cardinality(users \union {u}) = Cardinality(users)
         \/ Cardinality(users \union {u}) = Cardinality(users) + 1
  BY FS_AddElement DEF RegistryOK
<1>2. Cardinality(users) \in Nat
  BY FS_CardinalityType DEF RegistryOK
<1>3. Cardinality(users) < MaxUsers
  BY <1>2, IdentityAssumption DEF Full
<1> QED
  BY <1>1, <1>2, <1>3, IdentityAssumption

LEMMA Fewer ==
    ASSUME NEW S, NEW T, T \subseteq S, IsFiniteSet(S), Cardinality(S) <= MaxUsers
    PROVE  IsFiniteSet(T) /\ Cardinality(T) <= MaxUsers
<1>1. IsFiniteSet(T) /\ Cardinality(T) <= Cardinality(S)
  BY FS_Subset
<1>2. Cardinality(T) \in Nat /\ Cardinality(S) \in Nat
  BY <1>1, FS_CardinalityType
<1> QED
  BY <1>1, <1>2, IdentityAssumption

(* A user enters, and takes the entry of a name.                           *)
LEMMA EnterRegistry ==
    ASSUME RegistryOK, NEW u \in User, NEW n \in Name, ~Full,
           users' = users \union {u},
           byName' = [byName EXCEPT ![n] = u],
           hidden' = (hidden \union {byName[n]}) \ {None, u}
    PROVE  RegistryOK'
<1>1. IsFiniteSet(users') /\ Cardinality(users') <= MaxUsers
  BY OneMore
<1>3. \A m \in Name : byName'[m] = IF m = n THEN u ELSE byName[m]
  BY DEF RegistryOK
<1>4. NamesFound'
  <2>1. \A m \in Name : byName'[m] \in users' \union {None}
    BY <1>3 DEF RegistryOK, NamesFound
  <2>2. ASSUME NEW v \in users' \ hidden' PROVE \E m \in Name : byName'[m] = v
    <3>1. CASE v = u
      BY <1>3, <3>1
    <3>2. CASE v # u
      <4>1. v \in users \ hidden /\ v # byName[n]
        BY <3>2, IdentityAssumption DEF RegistryOK
      <4> QED
        BY <1>3, <4>1 DEF RegistryOK, NamesFound
    <3> QED
      BY <3>1, <3>2
  <2> QED
    BY <2>1, <2>2 DEF NamesFound
<1>5. byName' \in [Name -> User \union {None}] /\ users' \subseteq User /\ hidden' \subseteq User
  BY DEF RegistryOK
<1> QED
  BY <1>1, <1>4, <1>5 DEF RegistryOK

LEMMA AddRegistry ==
    ASSUME RegistryOK, NEW u \in User, name[u] \in Name, ~Full, Add(u)
    PROVE  RegistryOK'
  BY EnterRegistry DEF Add

(* Whoever leaves takes all entries along.                                 *)
LEMMA RemovingRegistry ==
    ASSUME RegistryOK, NEW S, Removing(S)
    PROVE  RegistryOK'
<1>1. users' \subseteq users
  BY DEF Removing
<1>2. IsFiniteSet(users') /\ Cardinality(users') <= MaxUsers
  BY <1>1, Fewer DEF RegistryOK
<1>3. \A m \in Name : byName'[m] = IF byName[m] \in S THEN None ELSE byName[m]
  BY DEF Removing
<1>4. byName' \in [Name -> User \union {None}]
  BY DEF Removing, RegistryOK
<1>5. NamesFound'
  BY <1>3, IdentityAssumption DEF Removing, RegistryOK, NamesFound
<1> QED
  BY <1>1, <1>2, <1>4, <1>5 DEF Removing, RegistryOK

(* A user enters in the place of a ghost.                                  *)
LEMMA ReattachRegistry ==
    ASSUME RegistryOK, NEW u \in User, NEW v \in users, u # v,
           name[u] \in Name, ~Full,
           users' = (users \union {u}) \ {v},
           byName' = [n \in Name |-> IF n = name[u] THEN u
                                     ELSE IF byName[n] = v THEN None
                                     ELSE byName[n]],
           hidden' = (hidden \union {byName[name[u]]}) \ {None, u, v}
    PROVE  RegistryOK'
<1>1. IsFiniteSet(users \union {u}) /\ Cardinality(users \union {u}) <= MaxUsers
  BY OneMore
<1>2. users' \subseteq users \union {u}
  OBVIOUS
<1>3. IsFiniteSet(users') /\ Cardinality(users') <= MaxUsers
  BY <1>1, <1>2, Fewer
<1>4. \A m \in Name : byName'[m] \in users' \union {None}
  BY DEF RegistryOK, NamesFound
<1>5. ASSUME NEW w \in users' \ hidden' PROVE \E m \in Name : byName'[m] = w
  <2>1. CASE w = u
    BY <2>1
  <2>2. CASE w # u
    <3>1. w \in users \ hidden /\ w # byName[name[u]] /\ w # v
      BY <2>2, IdentityAssumption DEF RegistryOK
    <3>2. PICK m \in Name : byName[m] = w
      BY <3>1 DEF RegistryOK, NamesFound
    <3> QED
      BY <3>1, <3>2
  <2> QED
    BY <2>1, <2>2
<1>6. byName' \in [Name -> User \union {None}] /\ users' \subseteq User /\ hidden' \subseteq User
  BY DEF RegistryOK
<1> QED
  BY <1>3, <1>4, <1>5, <1>6 DEF RegistryOK, NamesFound

-----------------------------------------------------------------------------
(* The types of what is not the registry.                                  *)
HandlerTypes ==
    /\ up \in [User -> {"new", "up", "gone"}]
    /\ {connected, shut, refused, loose, kicked} \subseteq SUBSET User
    /\ met \subseteq User \X Name
    /\ {name, pers, want} \subseteq [User -> Name]
    /\ at \in [User -> {"idle", "named", "checked", "assigned"}]
    /\ banned \in [names : SUBSET Name, personas : SUBSET Name, ips : SUBSET Ip]
    /\ left \in [{"frames", "admin"} -> Nat]

TypeInv == RegistryOK /\ HandlerTypes

LEMMA InitTypes == Init => TypeInv
<1> SUFFICES ASSUME Init PROVE TypeInv
  OBVIOUS
<1>1. RegistryOK
  BY FS_EmptySet, IdentityAssumption DEF Init, RegistryOK, NamesFound
<1>2. HandlerTypes
  BY IdentityAssumption DEF Init, HandlerTypes
<1> QED
  BY <1>1, <1>2 DEF TypeInv

LEMMA SpendsType ==
    ASSUME left \in [{"frames", "admin"} -> Nat], NEW what \in {"frames", "admin"}, Spends(what)
    PROVE  left' \in [{"frames", "admin"} -> Nat]
  BY DEF Spends

LEMMA EnsureRegistryOK ==
    ASSUME TypeInv, NEW u \in User, EnsureRegistered(u)
    PROVE  RegistryOK'
<1>1. name[u] \in Name
  BY DEF TypeInv, HandlerTypes
<1>2. CASE Add(u) /\ ~Full
  BY <1>1, <1>2, AddRegistry DEF TypeInv
<1>3. CASE UNCHANGED regVars
  BY <1>3 DEF regVars, TypeInv, RegistryOK, NamesFound
<1> QED
  BY <1>2, <1>3 DEF EnsureRegistered, Admissible

LEMMA SameRegistry ==
    ASSUME RegistryOK, UNCHANGED regVars
    PROVE  RegistryOK'
  BY DEF regVars, RegistryOK, NamesFound

-----------------------------------------------------------------------------
(* Frames of a client that name or claim.                                  *)
LEMMA TakesTypes ==
    ASSUME TypeInv, NEW u \in User, NEW n \in Name, Takes(u, n)
    PROVE  /\ {name', pers'} \subseteq [User -> Name]
           /\ loose' \subseteq User
           /\ left' \in [{"frames", "admin"} -> Nat]
  BY SpendsType DEF Takes, TypeInv, HandlerTypes

LEMMA FrameTypes ==
    ASSUME TypeInv, NEW u \in User, NEW n \in Name,
           Ath(u, n) \/ Acct(u, n) \/ Auth(u, n) \/ Claim(u, n)
    PROVE  TypeInv'
<1>1. CASE Ath(u, n)
  <2>1. RegistryOK'
    <3>1. CASE UNCHANGED regVars
      BY <3>1, SameRegistry DEF TypeInv
    <3>2. CASE ~UNCHANGED regVars
      <4>1. /\ ~Full
            /\ users' = users \union {u}
            /\ byName' = [byName EXCEPT ![n] = u]
            /\ hidden' = (hidden \union {byName[n]}) \ {None, u}
        BY <1>1, <3>2 DEF Ath
      <4> QED
        BY <4>1, EnterRegistry DEF TypeInv
    <3> QED
      BY <3>1, <3>2
  <2>2. refused' \subseteq User
    BY <1>1 DEF Ath, Refuse, TypeInv, HandlerTypes
  <2>3. HandlerTypes'
    BY <1>1, <2>2, TakesTypes DEF Ath, TypeInv, HandlerTypes
  <2> QED
    BY <2>1, <2>3 DEF TypeInv
<1>2. CASE Acct(u, n)
  <2>1. HandlerTypes'
    BY <1>2, TakesTypes DEF Acct, tcpVars, TypeInv, HandlerTypes
  <2> QED
    BY <1>2, <2>1, SameRegistry DEF Acct, TypeInv
<1>3. CASE Auth(u, n)
  <2>1. HandlerTypes'
    BY <1>3, TakesTypes DEF Auth, Goes, tcpVars, TypeInv, HandlerTypes
  <2> QED
    BY <1>3, <2>1, SameRegistry DEF Auth, TypeInv
<1>4. CASE Claim(u, n)
  <2>1. met' \subseteq User \X Name
    BY <1>4 DEF Claim, Claiming, TypeInv, HandlerTypes
  <2>2. HandlerTypes'
    BY <1>4, <2>1, SpendsType DEF Claim, Goes, tcpVars, nameVars, TypeInv, HandlerTypes
  <2> QED
    BY <1>4, <2>2, SameRegistry DEF Claim, TypeInv
<1> QED
  BY <1>1, <1>2, <1>3, <1>4

(* What a handler does by itself.                                          *)
LEMMA HandlerStepTypes ==
    ASSUME TypeInv, NEW u \in User,
           Connect(u) \/ AuthEnds(u) \/ Assign(u) \/ Reattach(u) \/ Command(u) \/ Sele(u)
    PROVE  TypeInv'
<1>0. RegistryOK /\ name[u] \in Name /\ want[u] \in Name /\ Own[u] \in Name
  BY IdentityAssumption DEF TypeInv, HandlerTypes
<1>1. CASE Connect(u)
  <2>1. HandlerTypes'
    BY <1>1 DEF Connect, nameVars, TypeInv, HandlerTypes
  <2> QED
    BY <1>0, <1>1, <2>1, SameRegistry DEF Connect, TypeInv
<1>2. CASE AuthEnds(u)
  <2>1. RegistryOK'
    BY <1>0, <1>2, EnsureRegistryOK, SameRegistry DEF AuthEnds
  <2>2. refused' \subseteq User /\ pers' \in [User -> Name]
    BY <1>0, <1>2 DEF AuthEnds, Refuse, TypeInv, HandlerTypes
  <2>3. HandlerTypes'
    BY <1>2, <2>2 DEF AuthEnds, Goes, TypeInv, HandlerTypes
  <2> QED
    BY <2>1, <2>3 DEF TypeInv
<1>3. CASE Assign(u)
  <2>1. HandlerTypes'
    BY <1>0, <1>3 DEF Assign, Goes, tcpVars, TypeInv, HandlerTypes
  <2> QED
    BY <1>0, <1>3, <2>1, SameRegistry DEF Assign, TypeInv
<1>4. CASE Reattach(u)
  <2>1. HandlerTypes'
    BY <1>0, <1>4 DEF Reattach, Goes, tcpVars, nameVars, TypeInv, HandlerTypes
  <2>2. RegistryOK'
    <3>1. CASE UNCHANGED regVars
      BY <1>0, <3>1, SameRegistry
    <3>2. CASE \E v \in Ghosts(u) : Removing({v})
      BY <1>0, <3>2, RemovingRegistry
    <3>3. CASE Admissible(u) /\ Add(u)
      BY <1>0, <3>3, AddRegistry DEF Admissible
    <3>4. CASE /\ Admissible(u)
               /\ \E v \in Ghosts(u) :
                    /\ users' = (users \union {u}) \ {v}
                    /\ byName' = [n \in Name |-> IF n = name[u] THEN u
                                                 ELSE IF byName[n] = v THEN None
                                                 ELSE byName[n]]
                    /\ hidden' = (hidden \union {byName[name[u]]}) \ {None, u, v}
      BY <1>0, <3>4, ReattachRegistry DEF Admissible, Ghosts
    <3> QED
      BY <1>4, <3>1, <3>2, <3>3, <3>4 DEF Reattach
  <2> QED
    BY <2>1, <2>2 DEF TypeInv
<1>5. CASE Command(u)
  <2>1. HandlerTypes'
    BY <1>5 DEF Command, Late, tcpVars, nameVars, TypeInv, HandlerTypes
  <2> QED
    BY <1>5, <2>1, EnsureRegistryOK DEF Command, TypeInv
<1>6. CASE Sele(u)
  <2>1. HandlerTypes'
    BY <1>6 DEF Sele, nameVars, TypeInv, HandlerTypes
  <2> QED
    BY <1>6, <2>1, EnsureRegistryOK DEF Sele, TypeInv
<1> QED
  BY <1>1, <1>2, <1>3, <1>4, <1>5, <1>6

(* The administrator, the maintenance thread, and the end of a connection. *)
LEMMA OutsideTypes ==
    ASSUME TypeInv, NEW u \in User,
           Kick(u) \/ Ban(u) \/ KickInactive(u) \/ Shut(u) \/ Close(u) \/ Detach(u) \/ Release(u)
    PROVE  TypeInv'
<1>1. RegistryOK'
  <2>1. CASE UNCHANGED regVars
    BY <2>1, SameRegistry DEF TypeInv
  <2>2. CASE Removing({u})
    BY <2>2, RemovingRegistry DEF TypeInv
  <2> QED
    BY <2>1, <2>2 DEF Kick, Ban, KickInactive, Shut, Close, Detach, Release
<1>2. CASE Kick(u)
  BY <1>1, <1>2, SpendsType DEF Kick, Flag, tcpVars, nameVars, TypeInv, HandlerTypes
<1>3. CASE Ban(u)
  <2>1. banned' \in [names : SUBSET Name, personas : SUBSET Name, ips : SUBSET Ip]
    BY <1>3, IdentityAssumption DEF Ban, TypeInv, HandlerTypes
  <2> QED
    BY <1>1, <1>3, <2>1, SpendsType DEF Ban, Flag, tcpVars, nameVars, TypeInv, HandlerTypes
<1>4. CASE KickInactive(u)
  BY <1>1, <1>4, SpendsType DEF KickInactive, nameVars, TypeInv, HandlerTypes
<1>5. CASE Shut(u)
  BY <1>1, <1>5 DEF Shut, nameVars, TypeInv, HandlerTypes
<1>6. CASE Ends(u)
  BY <1>1, <1>6 DEF Ends, nameVars, TypeInv, HandlerTypes
<1>7. CASE Release(u)
  BY <1>1, <1>7 DEF Release, tcpVars, nameVars, TypeInv, HandlerTypes
<1> QED
  BY <1>2, <1>3, <1>4, <1>5, <1>6, <1>7 DEF Close, Detach

LEMMA TypeStep == TypeInv /\ [Next]_vars => TypeInv'
<1> SUFFICES ASSUME TypeInv, [Next]_vars PROVE TypeInv'
  OBVIOUS
<1>1. CASE UNCHANGED vars
  BY <1>1, SameRegistry DEF vars, regVars, TypeInv, HandlerTypes
<1>2. ASSUME NEW n \in Name, KickName(n) PROVE TypeInv'
  <2>1. byName[n] \in User
    BY <1>2 DEF KickName, TypeInv, RegistryOK
  <2> QED
    BY <1>2, <2>1, OutsideTypes DEF KickName
<1>3. CASE Unban
  <2>1. banned' \in [names : SUBSET Name, personas : SUBSET Name, ips : SUBSET Ip]
    <3>1. CASE \E n \in banned.names \union banned.personas :
                 banned' = [banned EXCEPT !.names = @ \ {n}, !.personas = @ \ {n}]
      <4>1. PICK n : banned' = [banned EXCEPT !.names = @ \ {n}, !.personas = @ \ {n}]
        BY <3>1
      <4> DEFINE fewer == [banned EXCEPT !.names = @ \ {n}]
      <4>2. fewer \in [names : SUBSET Name, personas : SUBSET Name, ips : SUBSET Ip]
        BY DEF TypeInv, HandlerTypes
      <4>3. banned' = [fewer EXCEPT !.personas = @ \ {n}]
        BY <4>1 DEF TypeInv, HandlerTypes
      <4> QED
        BY <4>2, <4>3
    <3>2. CASE \E i \in banned.ips : banned' = [banned EXCEPT !.ips = @ \ {i}]
      BY <3>2 DEF TypeInv, HandlerTypes
    <3> QED
      BY <1>3, <3>1, <3>2 DEF Unban
  <2>2. HandlerTypes'
    BY <1>3, <2>1, SpendsType DEF Unban, tcpVars, nameVars, TypeInv, HandlerTypes
  <2> QED
    BY <1>3, <2>2, SameRegistry DEF Unban, TypeInv
<1> QED
  BY <1>1, <1>2, <1>3, FrameTypes, HandlerStepTypes, OutsideTypes DEF Next

LEMMA Types == Spec => []TypeInv
  BY InitTypes, TypeStep, PTL DEF Spec

(* Every variable keeps its type, and the registry never holds more users  *)
(* than SERVER_MAX_PLAYERS, by whatever frames they come in.               *)
THEOREM TypeCorrect == Spec => []TypeOK
<1>1. TypeInv => TypeOK
  BY DEF TypeInv, RegistryOK, HandlerTypes, TypeOK
<1> QED
  BY <1>1, Types, PTL

(* An entry of the index by name is that of a registered user, and every   *)
(* registered user has one, unless a later one of the same name took it,   *)
(* although names and personas change after the entry is made.             *)
THEOREM NamesFoundCorrect == Spec => []NamesFound
<1>1. TypeInv => NamesFound
  BY DEF TypeInv, RegistryOK
<1> QED
  BY <1>1, Types, PTL

(***************************************************************************)
(* Claims.                                                                 *)
(***************************************************************************)
Claims(u) == at[u] \in {"checked", "assigned"}

Present == users \intersect connected

Met(u, p) == <<u, p>> \in met

(* Nobody has compared the persona of a newcomer or of a login frame; only *)
(* a handler that runs is in a frame; what was claimed is assigned.        *)
HandlersOK ==
    \A u \in User :
        /\ up[u] = "new" \/ at[u] = "named" => u \in loose
        /\ at[u] # "idle" => up[u] = "up"
        /\ at[u] = "assigned" => pers[u] = want[u]

(* What a claim can rely on from its comparison to its end: two claims of  *)
(* one persona know of each other, and who has the persona without a claim *)
(* that still counts is loose.                                             *)
ClaimsOK ==
    \A u \in User : \A v \in User \ {u} :
        (Claims(u) /\ ~Met(u, want[u]))
            => /\ ~(Claims(v) /\ want[v] = want[u])
               /\ (v \in Present /\ pers[v] = want[u]) => v \in loose

Distinct ==
    \A u, v \in Present :
        (u # v /\ pers[u] = pers[v])
            => u \in loose \/ v \in loose \/ Met(u, pers[u]) \/ Met(v, pers[v])

ClaimInv == HandlersOK /\ ClaimsOK /\ Distinct

LEMMA InitClaims == Init => ClaimInv
  BY IdentityAssumption DEF Init, ClaimInv, HandlersOK, ClaimsOK, Distinct, Claims, Present

(* Steps after which nobody is in the lobby, in a claim or under a persona *)
(* who was not, and no more comparisons count.                             *)
LEMMA QuietClaims ==
    ASSUME ClaimInv,
           Present' \subseteq Present,
           UNCHANGED <<at, want, pers>>,
           \A u \in User : up'[u] = up[u] \/ (at[u] = "idle" /\ up'[u] = "gone"),
           \A u \in User : \/ u \in loose => u \in loose'
                           \/ up'[u] = "gone" /\ u \notin Present' /\ at[u] = "idle",
           \A u \in User : \A p : Met(u, p) => Met(u, p)' \/ (u \notin Present' /\ at[u] = "idle"),
           users \subseteq User
    PROVE  ClaimInv'
<1>1. HandlersOK'
  BY DEF ClaimInv, HandlersOK
<1>2. ClaimsOK'
  BY DEF ClaimInv, ClaimsOK, Claims, Present
<1>3. Distinct'
  BY DEF ClaimInv, Distinct, Present
<1> QED
  BY <1>1, <1>2, <1>3 DEF ClaimInv

(* Steps of a user who is loose after it.                                  *)
LEMMA LooseClaims ==
    ASSUME TypeInv, ClaimInv, NEW u \in User, u \in loose', at'[u] \in {"idle", "named"},
           \A v \in User \ {u} : /\ up'[v] = up[v] /\ at'[v] = at[v] /\ pers'[v] = pers[v]
                                 /\ want'[v] = want[v] /\ (v \in loose' <=> v \in loose),
           Present' \subseteq Present \union {u},
           up'[u] = "up",
           met' = met
    PROVE  ClaimInv'
<1>1. HandlersOK'
  BY DEF ClaimInv, HandlersOK
<1>2. ClaimsOK'
  BY DEF ClaimInv, ClaimsOK, Claims, Met
<1>3. Distinct'
  <2>1. Present' \subseteq User
    BY DEF Present, TypeInv, RegistryOK
  <2> QED
    BY <2>1 DEF ClaimInv, Distinct, Met
<1> QED
  BY <1>1, <1>2, <1>3 DEF ClaimInv

LEMMA FrameClaims ==
    ASSUME TypeInv, ClaimInv, NEW u \in User, NEW n \in Name,
           Ath(u, n) \/ Acct(u, n) \/ Auth(u, n)
    PROVE  ClaimInv'
<1>1. /\ u \in loose' /\ up'[u] = "up" /\ at'[u] \in {"idle", "named"} /\ met' = met
      /\ Present' \subseteq Present \union {u}
      /\ up' = up /\ want' = want
  BY DEF Ath, Acct, Auth, Takes, Ready, Goes, Present, Refuse, regVars, tcpVars, TypeInv, HandlerTypes
<1>2. \A v \in User \ {u} : /\ at'[v] = at[v] /\ pers'[v] = pers[v]
                            /\ (v \in loose' <=> v \in loose)
  BY DEF Ath, Acct, Auth, Takes, Goes, TypeInv, HandlerTypes
<1> QED
  BY <1>1, <1>2, LooseClaims

LEMMA ClaimClaims ==
    ASSUME TypeInv, ClaimInv, NEW u \in User, NEW p \in Name, Claim(u, p)
    PROVE  ClaimInv'
<1>1. /\ at' = [at EXCEPT ![u] = "checked"] /\ want' = [want EXCEPT ![u] = p]
      /\ up[u] = "up" /\ at[u] = "idle" /\ ~PersonaConflict(u, p)
      /\ UNCHANGED <<up, pers, loose, users, connected>>
  BY DEF Claim, Ready, Goes, tcpVars, regVars, nameVars
<1>2. \A v \in User : /\ at'[v] = IF v = u THEN "checked" ELSE at[v]
                      /\ want'[v] = IF v = u THEN p ELSE want[v]
  BY <1>1 DEF TypeInv, HandlerTypes
<1>3. \A v \in User \ {u} : (at[v] \in {"checked", "assigned"} /\ want[v] = p)
                               => Met(u, p)' /\ Met(v, p)'
  BY DEF Claim, Claiming, Met
<1>4. \A v \in User : \A q : Met(v, q) => Met(v, q)' \/ (v = u /\ q = p)
  BY DEF Claim, Met
<1>5. \A v \in Present \ {u} : pers[v] # p
  BY <1>1 DEF PersonaConflict, Others, Present
<1>6. HandlersOK'
  BY <1>1, <1>2 DEF ClaimInv, HandlersOK
<1>7. ClaimsOK'
  <2> SUFFICES ASSUME NEW v \in User, NEW w \in User \ {v},
                      Claims(v)', ~Met(v, want[v])'
               PROVE  /\ ~(Claims(w)' /\ want'[w] = want'[v])
                      /\ (w \in Present' /\ pers'[w] = want'[v]) => w \in loose'
    BY DEF ClaimsOK
  <2>1. CASE v = u
    BY <1>1, <1>2, <1>3, <1>5, <2>1 DEF Claims, Present
  <2>2. CASE v # u
    <3>1. Claims(v) /\ ~Met(v, want[v]) /\ want'[v] = want[v]
      BY <1>2, <1>4, <2>2 DEF Claims
    <3> QED
      BY <1>1, <1>2, <1>3, <2>2, <3>1 DEF Claims, Present, ClaimInv, ClaimsOK
  <2> QED
    BY <2>1, <2>2
<1>8. Distinct'
  <2>1. Present' = Present /\ Present \subseteq User
    BY <1>1 DEF Present, TypeInv, RegistryOK
  <2> QED
    BY <1>1, <1>4, <1>5, <2>1 DEF ClaimInv, Distinct
<1> QED
  BY <1>6, <1>7, <1>8 DEF ClaimInv

LEMMA AssignClaims ==
    ASSUME TypeInv, ClaimInv, NEW u \in User, Assign(u)
    PROVE  ClaimInv'
<1>1. /\ at[u] = "checked" /\ loose' = loose \ {u}
      /\ UNCHANGED <<up, want, users, connected>>
  BY DEF Assign, tcpVars, regVars
<1>2. \A v \in User : /\ at'[v] = IF v = u THEN "assigned" ELSE at[v]
                      /\ pers'[v] = IF v = u THEN want[u] ELSE pers[v]
  BY DEF Assign, Goes, TypeInv, HandlerTypes
<1>3. \A v \in User : \A q : Met(v, q) => Met(v, q)' \/ (v = u /\ q # want[u])
  BY DEF Assign, Met, TypeInv, HandlerTypes
<1>4. HandlersOK'
  BY <1>1, <1>2 DEF ClaimInv, HandlersOK
<1>5. \A v \in User \ {u} :
         /\ (v \in Present /\ pers[v] = want[u]) => v \in loose \/ Met(u, want[u])
         /\ (Claims(v) /\ want[v] = want[u]) => Met(v, want[v])
  BY <1>1 DEF ClaimInv, ClaimsOK, Claims
<1>6. ClaimsOK'
  <2> SUFFICES ASSUME NEW v \in User, NEW w \in User \ {v},
                      Claims(v)', ~Met(v, want[v])'
               PROVE  /\ ~(Claims(w)' /\ want'[w] = want'[v])
                      /\ (w \in Present' /\ pers'[w] = want'[v]) => w \in loose'
    BY DEF ClaimsOK
  <2>1. Claims(v) /\ ~Met(v, want[v]) /\ want' = want
    BY <1>1, <1>2, <1>3 DEF Claims
  <2>2. ~(Claims(w)' /\ want'[w] = want'[v])
    BY <1>1, <1>2, <2>1 DEF ClaimInv, ClaimsOK, Claims
  <2>3. (w \in Present' /\ pers'[w] = want'[v]) => w \in loose'
    <3>1. CASE w = u
      BY <1>2, <1>5, <2>1, <3>1
    <3>2. CASE w # u
      BY <1>1, <1>2, <2>1, <3>2 DEF ClaimInv, ClaimsOK, Present
    <3> QED
      BY <3>1, <3>2
  <2> QED
    BY <2>2, <2>3
<1>7. Distinct'
  <2> SUFFICES ASSUME NEW v \in Present', NEW w \in Present', v # w, pers'[v] = pers'[w]
               PROVE  v \in loose' \/ w \in loose' \/ Met(v, pers[v])' \/ Met(w, pers[w])'
    BY DEF Distinct
  <2>1. v \in Present /\ w \in Present /\ v \in User /\ w \in User
    BY <1>1 DEF Present, TypeInv, RegistryOK
  <2>2. CASE v = u
    BY <1>1, <1>2, <1>3, <1>5, <2>1, <2>2
  <2>3. CASE w = u
    BY <1>1, <1>2, <1>3, <1>5, <2>1, <2>3
  <2>4. CASE v # u /\ w # u
    BY <1>1, <1>2, <1>3, <2>1, <2>4 DEF ClaimInv, Distinct
  <2> QED
    BY <2>2, <2>3, <2>4
<1> QED
  BY <1>4, <1>6, <1>7 DEF ClaimInv

LEMMA ReattachClaims ==
    ASSUME TypeInv, ClaimInv, NEW u \in User, Reattach(u)
    PROVE  ClaimInv'
<1>1. /\ at[u] = "assigned" /\ loose \subseteq loose'
      /\ UNCHANGED <<up, connected, pers, met>>
  BY DEF Reattach, tcpVars, nameVars
<1>2. \A v \in User : /\ at'[v] = IF v = u THEN "idle" ELSE at[v]
                      /\ v # u => want'[v] = want[v] /\ (v \in loose' => v \in loose)
  BY DEF Reattach, Goes, TypeInv, HandlerTypes
<1>3. Present' \subseteq Present \union {u} /\ Present' \subseteq User
  BY DEF Reattach, Removing, Add, regVars, tcpVars, Present, TypeInv, RegistryOK
<1>4. pers[u] = want[u]
  BY <1>1 DEF ClaimInv, HandlersOK
<1>5. \A v \in User \ {u} :
         /\ (v \in Present /\ pers[v] = want[u]) => v \in loose \/ Met(u, want[u])
         /\ (Claims(v) /\ want[v] = want[u]) => Met(v, want[v])
  BY <1>1 DEF ClaimInv, ClaimsOK, Claims
<1>6. HandlersOK'
  BY <1>1, <1>2 DEF ClaimInv, HandlersOK
<1>7. ClaimsOK'
  <2> SUFFICES ASSUME NEW v \in User, NEW w \in User \ {v},
                      Claims(v)', ~Met(v, want[v])'
               PROVE  /\ ~(Claims(w)' /\ want'[w] = want'[v])
                      /\ (w \in Present' /\ pers'[w] = want'[v]) => w \in loose'
    BY DEF ClaimsOK
  <2>1. v # u /\ Claims(v) /\ ~Met(v, want[v]) /\ want'[v] = want[v]
    BY <1>1, <1>2 DEF Claims, Met
  <2> QED
    BY <1>1, <1>2, <1>3, <1>4, <1>5, <2>1 DEF ClaimInv, ClaimsOK, Claims
<1>8. Distinct'
  BY <1>1, <1>3, <1>4, <1>5 DEF ClaimInv, Distinct, Met
<1> QED
  BY <1>6, <1>7, <1>8 DEF ClaimInv

(* Whoever comes back, or enters the registry late.                        *)
LEMMA ReturnClaims ==
    ASSUME TypeInv, ClaimInv, NEW u \in User,
           Connect(u) \/ AuthEnds(u) \/ Command(u) \/ Sele(u)
    PROVE  ClaimInv'
<1>1. CASE Command(u) /\ UNCHANGED <<users, loose>>
  <2>1. UNCHANGED <<up, connected, at, want, pers, met, users, loose>>
    BY <1>1 DEF Command, tcpVars, nameVars
  <2> QED
    BY <2>1, QuietClaims DEF Present, Met, TypeInv, RegistryOK
<1>2. CASE ~(Command(u) /\ UNCHANGED <<users, loose>>)
  <2>1. /\ u \in loose' /\ up'[u] = "up" /\ at'[u] = "idle" /\ met' = met
        /\ want' = want
    BY <1>2 DEF Connect, AuthEnds, Command, Sele, Late, EnsureRegistered, Goes, Ready,
                tcpVars, nameVars, regVars, TypeInv, HandlerTypes, ClaimInv, HandlersOK
  <2>2. \A v \in User \ {u} : /\ at'[v] = at[v] /\ pers'[v] = pers[v] /\ up'[v] = up[v]
                              /\ want'[v] = want[v]
                              /\ (v \in loose' <=> v \in loose)
    BY DEF Connect, AuthEnds, Command, Sele, Late, Goes, Ready, tcpVars, nameVars, TypeInv, HandlerTypes
  <2>3. Present' \subseteq Present \union {u}
    BY DEF Connect, AuthEnds, Command, Sele, EnsureRegistered, Add, Ready, tcpVars, regVars, Present
  <2> QED
    BY <2>1, <2>2, <2>3, LooseClaims
<1> QED
  BY <1>1, <1>2

LEMMA OutsideClaims ==
    ASSUME TypeInv, ClaimInv, NEW u \in User,
           Kick(u) \/ Ban(u) \/ KickInactive(u) \/ Shut(u) \/ Close(u) \/ Detach(u) \/ Release(u)
    PROVE  ClaimInv'
<1>1. /\ users' \subseteq users /\ connected' \subseteq connected /\ UNCHANGED <<at, want, pers>>
      /\ users \subseteq User
  BY DEF Kick, Ban, KickInactive, Shut, Close, Detach, Release, Ends, Removing, Flag,
         tcpVars, regVars, nameVars, TypeInv, RegistryOK
<1>2. CASE Ends(u)
  <2>1. /\ at[u] = "idle" /\ up'[u] = "gone" /\ u \notin connected'
        /\ \A v \in User \ {u} : up'[v] = up[v]
    BY <1>2 DEF Ends, TypeInv, HandlerTypes
  <2>2. loose' = loose \ {u} /\ met' = met \ {u} \X Name
    BY <1>2 DEF Ends
  <2> QED
    BY <1>1, <2>1, <2>2, QuietClaims DEF Present, Met
<1>3. CASE UNCHANGED <<up, loose, met>>
  BY <1>1, <1>3, QuietClaims DEF Present, Met
<1> QED
  BY <1>2, <1>3 DEF Kick, Ban, KickInactive, Shut, Close, Detach, Release, Flag, tcpVars

LEMMA ClaimStep == TypeInv /\ ClaimInv /\ [Next]_vars => ClaimInv'
<1> SUFFICES ASSUME TypeInv, ClaimInv, [Next]_vars PROVE ClaimInv'
  OBVIOUS
<1>1. CASE UNCHANGED <<up, at, want, pers, users, connected, loose, met>>
  BY <1>1, QuietClaims DEF Present, Met, TypeInv, RegistryOK
<1>2. ASSUME NEW n \in Name, KickName(n) PROVE ClaimInv'
  <2>1. byName[n] \in User
    BY <1>2 DEF KickName, TypeInv, RegistryOK
  <2> QED
    BY <1>2, <2>1, OutsideClaims DEF KickName
<1> QED
  BY <1>1, <1>2, FrameClaims, ClaimClaims, AssignClaims, ReattachClaims, ReturnClaims, OutsideClaims
     DEF Next, Unban, vars, tcpVars, regVars, nameVars

(* No two players in the lobby have claimed one persona: a claim compares  *)
(* and assigns in two steps without a lock, among threads that come, go,   *)
(* are kicked and return, and still only overlapping claims, and users the *)
(* comparison could not see, have a persona in common.                     *)
THEOREM PersonasDistinctCorrect == Spec => []PersonasDistinct
<1>1. TypeInv /\ ClaimInv /\ [Next]_vars => ClaimInv'
  BY ClaimStep
<1>2. ClaimInv => PersonasDistinct
  BY DEF ClaimInv, Distinct, PersonasDistinct, Present, Met
<1> QED
  BY <1>1, <1>2, InitClaims, Types, PTL DEF Spec
=============================================================================
