-------------------------- MODULE Relations_proofs --------------------------
(***************************************************************************)
(* What holds of the social relations for any players, threads, files and  *)
(* number of steps: the code implements Consent, friendship is mutual, and *)
(* the file has what memory has when the calls have returned.              *)
(***************************************************************************)
EXTENDS Relations, TLAPS

(***************************************************************************)
(* Keys and loads.                                                         *)
(***************************************************************************)
(* A key belongs to the account of the persona it is computed for.         *)
LEMMA KeyAccount ==
    ASSUME NEW lobby, NEW p \in Persona
    PROVE  KeyIn(lobby, p) \in Persona /\ AccountOf[KeyIn(lobby, p)] = AccountOf[p]
  BY RelationsAssumption DEF KeyIn

(* A set of links with the keys of one moment.                             *)
Rekeyed(lobby, S) ==
    {l \in {<<KeyIn(lobby, l[1]), KeyIn(lobby, l[2])>> : l \in S} : l[1] # l[2]}

(* Keys computed anew: still links.                                        *)
LEMMA RekeyedLinks ==
    ASSUME NEW lobby, NEW S \in SUBSET Link
    PROVE  Rekeyed(lobby, S) \subseteq Link
  BY KeyAccount DEF Rekeyed, Link

(* Both ways before, both ways after.                                      *)
Sym(S) == \A l \in S : <<l[2], l[1]>> \in S

LEMMA RekeyedSym ==
    ASSUME NEW lobby, NEW S \in SUBSET Link, Sym(S)
    PROVE  Sym(Rekeyed(lobby, S))
<1> SUFFICES ASSUME NEW l \in Rekeyed(lobby, S)
             PROVE  <<l[2], l[1]>> \in Rekeyed(lobby, S)
  BY DEF Sym
<1>1. PICK m \in S : l = <<KeyIn(lobby, m[1]), KeyIn(lobby, m[2])>>
  BY DEF Rekeyed
<1>2. <<m[2], m[1]>> \in S
  BY <1>1 DEF Sym
<1>3. l[1] # l[2]
  BY DEF Rekeyed
<1> DEFINE n == <<m[2], m[1]>>
           r == <<KeyIn(lobby, n[1]), KeyIn(lobby, n[2])>>
<1>4. r = <<l[2], l[1]>> /\ r[1] # r[2]
  BY <1>1, <1>3
<1>5. r \in {<<KeyIn(lobby, k[1]), KeyIn(lobby, k[2])>> : k \in S}
  BY <1>2
<1> HIDE DEF r
<1> QED
  BY <1>4, <1>5 DEF Rekeyed

(* What a load makes of a link, with the keys of some moments.             *)
Image(s, S, x) ==
    \E l \in S : \E i, k \in DOMAIN s :
        x = <<KeyIn(s[i], l[1]), KeyIn(s[k], l[2])>>

LEMMA ImageAccounts ==
    ASSUME NEW s, NEW S \in SUBSET Link, NEW x, Image(s, S, x)
    PROVE  /\ x \in Persona \X Persona
           /\ \E l \in S : AccountOf[x[1]] = AccountOf[l[1]] /\ AccountOf[x[2]] = AccountOf[l[2]]
<1>1. PICK l \in S, i \in DOMAIN s, k \in DOMAIN s :
         x = <<KeyIn(s[i], l[1]), KeyIn(s[k], l[2])>>
  BY DEF Image
<1>2. l[1] \in Persona /\ l[2] \in Persona
  BY DEF Link
<1> QED
  BY <1>1, <1>2, KeyAccount

(* The row of an owner has a key of the owner with keys of the targets ... *)
LEMMA RowSome ==
    ASSUME NEW s, NEW S \in SUBSET Link, NEW o \in Owners(S),
           NEW R \in Rows(s, S, o), NEW x \in R
    PROVE  /\ Image(s, S, x)
           /\ \E i \in DOMAIN s : x[1] = KeyIn(s[i], o)
<1> DEFINE targets == {l[2] : l \in {n \in S : n[1] = o}}
           moments == (DOMAIN s) \X [targets -> DOMAIN s] \X [targets -> DOMAIN s]
<1>1. PICK m \in moments :
         R = {<<KeyIn(s[m[1]], o), KeyIn(s[m[3][p]], p)>> :
                 p \in {u \in targets : KeyIn(s[m[2][u]], u) # KeyIn(s[m[1]], o)}}
  BY DEF Rows
<1>2. PICK p \in targets : x = <<KeyIn(s[m[1]], o), KeyIn(s[m[3][p]], p)>>
  BY <1>1
<1>3. PICK l \in S : l[1] = o /\ l[2] = p
  BY <1>2
<1>4. m[1] \in DOMAIN s /\ m[3] \in [targets -> DOMAIN s]
  BY <1>1
<1>5. m[3][p] \in DOMAIN s
  BY <1>2, <1>4
<1> QED
  BY <1>2, <1>3, <1>4, <1>5 DEF Image

(* ... and for each target of another account one.                         *)
LEMMA RowAll ==
    ASSUME NEW s, NEW S \in SUBSET Link, NEW l \in S,
           AccountOf[l[1]] # AccountOf[l[2]], NEW R \in Rows(s, S, l[1])
    PROVE  \E x \in R : x[1] \in Persona /\ x[2] \in Persona
                        /\ AccountOf[x[1]] = AccountOf[l[1]]
                        /\ AccountOf[x[2]] = AccountOf[l[2]]
<1> DEFINE o == l[1]
           targets == {n[2] : n \in {n \in S : n[1] = o}}
           moments == (DOMAIN s) \X [targets -> DOMAIN s] \X [targets -> DOMAIN s]
<1>1. PICK m \in moments :
         R = {<<KeyIn(s[m[1]], o), KeyIn(s[m[3][p]], p)>> :
                 p \in {u \in targets : KeyIn(s[m[2][u]], u) # KeyIn(s[m[1]], o)}}
  BY DEF Rows
<1>2. o \in Persona /\ l[2] \in Persona /\ l[2] \in targets
  BY DEF Link
<1> DEFINE x == <<KeyIn(s[m[1]], o), KeyIn(s[m[3][l[2]]], l[2])>>
<1>3. KeyIn(s[m[2][l[2]]], l[2]) # KeyIn(s[m[1]], o)
  BY <1>2, KeyAccount
<1>4. x \in R
  BY <1>1, <1>2, <1>3
<1>5. /\ KeyIn(s[m[1]], o) \in Persona /\ KeyIn(s[m[3][l[2]]], l[2]) \in Persona
      /\ AccountOf[KeyIn(s[m[1]], o)] = AccountOf[o]
      /\ AccountOf[KeyIn(s[m[3][l[2]]], l[2])] = AccountOf[l[2]]
  BY <1>2, KeyAccount
<1>6. x[1] = KeyIn(s[m[1]], o) /\ x[2] = KeyIn(s[m[3][l[2]]], l[2])
  OBVIOUS
<1> HIDE DEF x
<1> QED
  BY <1>4, <1>5, <1>6

(* No name of S changes its key while the lobby goes through s.            *)
Steady(s, S) ==
    /\ 1 \in DOMAIN s
    /\ \A p \in Names(S) : \A i, j \in DOMAIN s : KeyIn(s[i], p) = KeyIn(s[j], p)

Row(lobby, S, o) == Rekeyed(lobby, {l \in S : l[1] = o})

LEMMA RowSteady ==
    ASSUME NEW s, NEW S \in SUBSET Link, NEW o \in Owners(S),
           NEW R \in Rows(s, S, o), Steady(s, S)
    PROVE  R = Row(s[1], S, o)
<1> DEFINE targets == {l[2] : l \in {n \in S : n[1] = o}}
           moments == (DOMAIN s) \X [targets -> DOMAIN s] \X [targets -> DOMAIN s]
<1>1. PICK m \in moments :
         R = {<<KeyIn(s[m[1]], o), KeyIn(s[m[3][p]], p)>> :
                 p \in {u \in targets : KeyIn(s[m[2][u]], u) # KeyIn(s[m[1]], o)}}
  BY DEF Rows
<1>2. m[1] \in DOMAIN s /\ \A p \in targets : m[2][p] \in DOMAIN s /\ m[3][p] \in DOMAIN s
  BY <1>1
<1>3. o \in Names(S) /\ \A p \in targets : p \in Names(S)
  BY DEF Names
<1>4. /\ KeyIn(s[m[1]], o) = KeyIn(s[1], o)
      /\ \A p \in targets : /\ KeyIn(s[m[2][p]], p) = KeyIn(s[1], p)
                            /\ KeyIn(s[m[3][p]], p) = KeyIn(s[1], p)
  BY <1>2, <1>3 DEF Steady
<1>5. R = {<<KeyIn(s[1], o), KeyIn(s[1], p)>> :
              p \in {u \in targets : KeyIn(s[1], u) # KeyIn(s[1], o)}}
  BY <1>1, <1>4
<1>6. ASSUME NEW x \in R PROVE x \in Row(s[1], S, o)
  <2>1. PICK p \in targets : x = <<KeyIn(s[1], o), KeyIn(s[1], p)>> /\ x[1] # x[2]
    BY <1>5
  <2>2. PICK l \in {n \in S : n[1] = o} : l[2] = p
    BY <2>1
  <2>3. x \in {<<KeyIn(s[1], n[1]), KeyIn(s[1], n[2])>> : n \in {n \in S : n[1] = o}}
    BY <2>1, <2>2
  <2> QED
    BY <2>1, <2>3 DEF Row, Rekeyed
<1>7. ASSUME NEW x \in Row(s[1], S, o) PROVE x \in R
  <2>1. x[1] # x[2] /\ \E l \in {n \in S : n[1] = o} : x = <<KeyIn(s[1], l[1]), KeyIn(s[1], l[2])>>
    BY DEF Row, Rekeyed
  <2>2. PICK l \in {n \in S : n[1] = o} : x = <<KeyIn(s[1], o), KeyIn(s[1], l[2])>>
    BY <2>1
  <2>3. l[2] \in targets /\ KeyIn(s[1], l[2]) # KeyIn(s[1], o)
    BY <2>1, <2>2
  <2> QED
    BY <1>5, <2>2, <2>3
<1> QED
  BY <1>6, <1>7

(* A load has rows of owners ...                                           *)
LEMMA LoadsRows ==
    ASSUME NEW s, NEW S \in SUBSET Link, NEW R \in Loads(s, S)
    PROVE  \E f : /\ DOMAIN f = Owners(S)
                  /\ \A o \in Owners(S) : f[o] \in Rows(s, S, o)
                  /\ R \in Lasts(f)
<1> DEFINE rows == UNION {{o} \X Rows(s, S, o) : o \in Owners(S)}
<1>1. PICK f \in [Owners(S) -> {r[2] : r \in rows}] :
         (\A o \in Owners(S) : <<o, f[o]>> \in rows) /\ R \in Lasts(f)
  BY DEF Loads
<1>2. ASSUME NEW o \in Owners(S), NEW x, <<o, x>> \in rows PROVE x \in Rows(s, S, o)
  <2>1. PICK p \in Owners(S) : <<o, x>> \in {p} \X Rows(s, S, p)
    BY <1>2
  <2> QED
    BY <2>1
<1> HIDE DEF rows
<1>3. \A o \in Owners(S) : f[o] \in Rows(s, S, o)
  BY <1>1, <1>2
<1>4. DOMAIN f = Owners(S)
  BY <1>1
<1> QED
  BY <1>1, <1>3, <1>4

LEMMA LoadsSome ==
    ASSUME NEW s, NEW S \in SUBSET Link, NEW R \in Loads(s, S), NEW x \in R
    PROVE  /\ Image(s, S, x)
           /\ Steady(s, S) => x \in Rekeyed(s[1], S)
<1>1. PICK f : /\ DOMAIN f = Owners(S)
               /\ \A o \in Owners(S) : f[o] \in Rows(s, S, o)
               /\ R \in Lasts(f)
  BY LoadsRows
<1>2. PICK o \in Owners(S) : x \in f[o]
  BY <1>1 DEF Lasts
<1>3. Image(s, S, x)
  BY <1>1, <1>2, RowSome
<1>4. ASSUME Steady(s, S) PROVE x \in Rekeyed(s[1], S)
  <2>1. x \in Row(s[1], S, o)
    BY <1>1, <1>2, <1>4, RowSteady
  <2> QED
    BY <2>1 DEF Row, Rekeyed
<1> QED
  BY <1>3, <1>4

(* ... and those of all owners if no two have come to have one key.        *)
Apart(s, S) ==
    \A o, q \in Owners(S) : \A i, j \in DOMAIN s : KeyIn(s[i], o) = KeyIn(s[j], q) => o = q

LEMMA LoadsAll ==
    ASSUME NEW s, NEW S \in SUBSET Link, NEW R \in Loads(s, S), Apart(s, S)
    PROVE  \E f : /\ \A o \in Owners(S) : f[o] \in Rows(s, S, o)
                  /\ R = UNION {f[o] : o \in Owners(S)}
<1>1. PICK f : /\ DOMAIN f = Owners(S)
               /\ \A o \in Owners(S) : f[o] \in Rows(s, S, o)
               /\ R \in Lasts(f)
  BY LoadsRows
<1> DEFINE heard == {o \in Owners(S) : f[o] # {}}
<1>2. PICK O \in SUBSET heard :
         /\ \A o \in heard : \E q \in O : {w \in O : Owners(f[w]) = Owners(f[o])} = {q}
         /\ R = UNION {f[o] : o \in O}
  BY <1>1 DEF Lasts
<1>3. ASSUME NEW o \in heard PROVE o \in O
  <2>1. PICK q \in O : Owners(f[q]) = Owners(f[o])
    BY <1>2, <1>3
  <2>2. PICK x \in f[o] : TRUE
    BY <1>3
  <2>3. x[1] \in Owners(f[q])
    BY <2>1, <2>2 DEF Owners
  <2>4. PICK y \in f[q] : y[1] = x[1]
    BY <2>3 DEF Owners
  <2>5. o \in Owners(S) /\ q \in Owners(S)
    BY <1>2, <1>3, <2>1
  <2>6. \E i \in DOMAIN s : x[1] = KeyIn(s[i], o)
    BY <1>1, <2>2, <2>5, RowSome
  <2>7. \E j \in DOMAIN s : y[1] = KeyIn(s[j], q)
    BY <1>1, <2>4, <2>5, RowSome
  <2>8. o = q
    BY <2>4, <2>5, <2>6, <2>7 DEF Apart
  <2> QED
    BY <2>1, <2>8
<1>4. R = UNION {f[o] : o \in Owners(S)}
  <2>1. ASSUME NEW x, NEW o \in Owners(S), x \in f[o] PROVE x \in R
    BY <1>2, <1>3, <2>1
  <2>2. ASSUME NEW x \in R PROVE \E o \in Owners(S) : x \in f[o]
    BY <1>2
  <2> QED
    BY <2>1, <2>2
<1> QED
  BY <1>1, <1>4

(* So it loses no relation between accounts then, and is the file with new *)
(* keys if they are steady.                                                *)
LEMMA LoadsAccounts ==
    ASSUME NEW s, NEW S \in SUBSET Link, NEW R \in Loads(s, S)
    PROVE  /\ R \subseteq Persona \X Persona
           /\ Accounts(R) \subseteq Accounts(S)
           /\ Apart(s, S) => Accounts(R) = Accounts(S)
<1>1. \A x \in R : Image(s, S, x)
  BY LoadsSome
<1>2. R \subseteq Persona \X Persona
  BY <1>1, ImageAccounts
<1>3. ASSUME NEW a \in Accounts(R) PROVE a \in Accounts(S)
  <2>1. PICK x \in R : a = <<AccountOf[x[1]], AccountOf[x[2]]>>
    BY <1>3 DEF Accounts
  <2>2. PICK l \in S : AccountOf[x[1]] = AccountOf[l[1]] /\ AccountOf[x[2]] = AccountOf[l[2]]
    BY <1>1, ImageAccounts
  <2> QED
    BY <1>3, <2>1, <2>2 DEF Accounts
<1>4. ASSUME Apart(s, S), NEW a \in Accounts(S) PROVE a \in Accounts(R)
  <2>1. PICK l \in S : a = <<AccountOf[l[1]], AccountOf[l[2]]>>
    BY <1>4 DEF Accounts
  <2>2. AccountOf[l[1]] # AccountOf[l[2]] /\ l[1] \in Owners(S)
    BY <1>4, <2>1 DEF Accounts, Owners
  <2>3. PICK f : /\ \A o \in Owners(S) : f[o] \in Rows(s, S, o)
                 /\ R = UNION {f[o] : o \in Owners(S)}
    BY <1>4, LoadsAll
  <2>4. f[l[1]] \in Rows(s, S, l[1])
    BY <2>2, <2>3
  <2>5. PICK x \in f[l[1]] : AccountOf[x[1]] = AccountOf[l[1]] /\ AccountOf[x[2]] = AccountOf[l[2]]
    BY <2>2, <2>4, RowAll
  <2>6. x \in R /\ a = <<AccountOf[x[1]], AccountOf[x[2]]>>
    BY <2>1, <2>2, <2>3, <2>5
  <2> QED
    BY <1>4, <2>6 DEF Accounts
<1> QED
  BY <1>2, <1>3, <1>4

LEMMA LoadsSteady ==
    ASSUME NEW s, NEW S \in SUBSET Link, NEW R \in Loads(s, S),
           Apart(s, S), Steady(s, S)
    PROVE  R = Rekeyed(s[1], S)
<1>1. PICK f : /\ \A o \in Owners(S) : f[o] \in Rows(s, S, o)
               /\ R = UNION {f[o] : o \in Owners(S)}
  BY LoadsAll
<1>2. ASSUME NEW x \in Rekeyed(s[1], S) PROVE x \in R
  <2>1. PICK l \in S : x = <<KeyIn(s[1], l[1]), KeyIn(s[1], l[2])>> /\ x[1] # x[2]
    BY <1>2 DEF Rekeyed
  <2>2. l \in {n \in S : n[1] = l[1]} /\ l[1] \in Owners(S)
    BY DEF Owners
  <2>3. x \in Row(s[1], S, l[1])
    BY <2>1, <2>2 DEF Row, Rekeyed
  <2>4. f[l[1]] = Row(s[1], S, l[1])
    BY <1>1, <2>2, RowSteady
  <2> QED
    BY <1>1, <2>2, <2>3, <2>4
<1> QED
  BY <1>2, LoadsSome

(* All relations of a file.                                                *)
File == [state : {"none", "empty", "torn", "whole"}, links : Links]

Memory == [Kind -> SUBSET (Persona \X Persona)]

LEMMA LoadedEach ==
    ASSUME NEW s, NEW links \in Links, NEW r \in Loaded(s, links)
    PROVE  /\ \A k \in Kind : links[k] \in SUBSET Link /\ r[k] \in Loads(s, links[k])
           /\ r \in Memory
<1>1. \A k \in Kind : links[k] \in SUBSET Link
  BY DEF Links
<1> DEFINE loads == UNION {{k} \X Loads(s, links[k]) : k \in Kind}
<1>0. r \in [Kind -> {l[2] : l \in loads}] /\ \A k \in Kind : <<k, r[k]>> \in loads
  BY DEF Loaded
<1>a. ASSUME NEW k \in Kind, NEW x, <<k, x>> \in loads PROVE x \in Loads(s, links[k])
  <2>1. PICK q \in Kind : <<k, x>> \in {q} \X Loads(s, links[q])
    BY <1>a
  <2> QED
    BY <2>1
<1> HIDE DEF loads
<1>2. \A k \in Kind : r[k] \in Loads(s, links[k])
  BY <1>0, <1>a
<1>3. r = [k \in Kind |-> r[k]]
  BY <1>0
<1>4. \A k \in Kind : r[k] \subseteq Persona \X Persona
  BY <1>1, <1>2, LoadsAccounts
<1> QED
  BY <1>1, <1>2, <1>3, <1>4 DEF Memory

LEMMA LoadedSome ==
    ASSUME NEW s, NEW links \in Links, NEW r \in Loaded(s, links)
    PROVE  /\ r \in Memory
           /\ \A k \in Kind : Accounts(r[k]) \subseteq Accounts(links[k])
           /\ ~Merges(s, links) => ByAccount(r) = ByAccount(links)
<1>1. ASSUME ~Merges(s, links), NEW k \in Kind PROVE Apart(s, links[k])
  BY <1>1 DEF Merges, Apart
<1>2. ASSUME ~Merges(s, links), NEW k \in Kind PROVE Accounts(r[k]) = Accounts(links[k])
  BY <1>1, <1>2, LoadedEach, LoadsAccounts
<1>3. ~Merges(s, links) => ByAccount(r) = ByAccount(links)
  BY <1>2 DEF ByAccount
<1> QED
  BY <1>3, LoadedEach, LoadsAccounts

LEMMA LoadedSteady ==
    ASSUME NEW s, NEW links \in Links, NEW r \in Loaded(s, links),
           ~Moves(s, links), 1 \in DOMAIN s
    PROVE  /\ r \in Links
           /\ ~Merges(s, links) => \A k \in Kind : r[k] = Rekeyed(s[1], links[k])
<1>1. \A k \in Kind : Steady(s, links[k])
  BY DEF Moves, Steady
<1>2. \A k \in Kind : r[k] \subseteq Rekeyed(s[1], links[k])
  BY <1>1, LoadedEach, LoadsSome
<1>3. \A k \in Kind : r[k] \subseteq Link
  BY <1>2, LoadedEach, RekeyedLinks
<1>4. r \in Links
  BY <1>3, LoadedEach DEF Memory, Links
<1>5. ASSUME ~Merges(s, links), NEW k \in Kind PROVE r[k] = Rekeyed(s[1], links[k])
  <2>1. Apart(s, links[k])
    BY <1>5 DEF Merges, Apart
  <2> QED
    BY <1>1, <2>1, LoadedEach, LoadsSteady
<1> QED
  BY <1>4, <1>5

(***************************************************************************)
(* Types.                                                                  *)
(***************************************************************************)
Calling == {"add", "block", "remove", "unblock"}

(* A call is about two keys that differ, and a load has seen the lobby.    *)
TypeInv ==
    /\ TypeOK
    /\ \A t \in Thread : at[t] \in Calling => arg[t] \in Link
    /\ \A t \in Thread : at[t] = "read" => 1 \in DOMAIN seen[t]

(* What memory may hold.                                                   *)
Legal(r) == r \in Memory /\ (moved \/ r \in Links)

LEMMA PairLinks ==
    ASSUME TypeInv, NEW t \in Thread, at[t] \in Calling
    PROVE  arg[t] \in Link /\ Pair(t) \subseteq Link /\ arg[t] \in Pair(t)
  BY DEF TypeInv, TypeOK, Link, Pair, Owner, Target, Both

LEMMA WithoutLegal ==
    ASSUME TypeInv, NEW kinds, NEW S
    PROVE  Legal(Without(kinds, S))
  BY DEF Without, Links, Memory, Legal, TypeInv, TypeOK

LEMMA RecalledType ==
    ASSUME TypeOK, NEW new
    PROVE  Recalled(new) \in [Kind -> SUBSET (Account \X Account)]
  BY DEF Recalled, Accounts, TypeOK

LEMMA BecomesType ==
    ASSUME TypeInv, NEW t \in Thread, NEW new, Legal(new), Becomes(t, new)
    PROVE  TypeInv'
<1>1. past' \in [Kind -> SUBSET (Account \X Account)]
  BY RecalledType DEF Becomes, TypeInv
<1>2. overlaps' \subseteq Thread /\ raced' \in BOOLEAN
  BY DEF Becomes, Begins, Working, TypeInv, TypeOK
<1>3. at' \in [Thread -> Places] /\ at' = [at EXCEPT ![t] = "changed"]
  BY DEF Becomes, Goes, Places, TypeInv, TypeOK
<1>4. TypeOK'
  BY <1>1, <1>2, <1>3 DEF Becomes, TypeInv, TypeOK, Legal, Memory
<1>5. /\ \A u \in Thread : at'[u] \in Calling => arg'[u] \in Link
      /\ \A u \in Thread : at'[u] = "read" => 1 \in DOMAIN seen'[u]
  BY <1>3 DEF Becomes, TypeInv, TypeOK, Calling
<1> QED
  BY <1>4, <1>5 DEF TypeInv

(* A call of any kind leaves memory legal.                                 *)
LEMMA BlockLegal ==
    ASSUME TypeInv, NEW t \in Thread, at[t] = "block"
    PROVE  Legal([Without({"buddies", "pending"}, Pair(t)) EXCEPT
                      !["blocks"] = @ \union {arg[t]}])
<1>1. arg[t] \in Link
  BY PairLinks DEF Calling
<1>2. Legal(Without({"buddies", "pending"}, Pair(t)))
  BY WithoutLegal
<1> QED
  BY <1>1, <1>2 DEF Legal, Memory, Links, Link

LEMMA AcceptLegal ==
    ASSUME TypeInv, NEW t \in Thread, at[t] = "add"
    PROVE  Legal([Without({"pending"}, Pair(t)) EXCEPT
                      !["buddies"] = @ \union Pair(t)])
<1>1. Pair(t) \subseteq Link
  BY PairLinks DEF Calling
<1>2. Legal(Without({"pending"}, Pair(t)))
  BY WithoutLegal
<1> QED
  BY <1>1, <1>2 DEF Legal, Memory, Links, Link

LEMMA AskLegal ==
    ASSUME TypeInv, NEW t \in Thread, at[t] = "add"
    PROVE  Legal([rel EXCEPT !["pending"] = @ \union {arg[t]}])
<1>1. arg[t] \in Link
  BY PairLinks DEF Calling
<1>2. Legal(rel)
  BY DEF TypeInv, TypeOK, Legal, Memory
<1> QED
  BY <1>1, <1>2 DEF Legal, Memory, Links, Link

LEMMA UpdatedLegal ==
    ASSUME NEW r \in Memory, NEW c \in Memory
    PROVE  /\ [k \in Kind |-> Updated(r[k], c[k])] \in Memory
           /\ (r \in Links /\ c \in Links)
                 => [k \in Kind |-> Updated(r[k], c[k])] \in Links
  BY DEF Memory, Links, Updated

(* A start or a restart: nobody is in the lobby, and no key moves.         *)
LEMMA StartSteady ==
    ASSUME NEW lobby, NEW links
    PROVE  1 \in DOMAIN <<lobby>> /\ ~Moves(<<lobby>>, links)
<1>1. \A i \in DOMAIN <<lobby>> : i = 1
  OBVIOUS
<1> QED
  BY <1>1 DEF Moves

(* Init and every step.                                                    *)
LEMMA InitType == Init => TypeInv
<1> SUFFICES ASSUME Init PROVE TypeInv
  OBVIOUS
<1>1. None \in Links
  BY DEF None, Links
<1>2. file \in File
  BY <1>1, RelationsAssumption DEF Init, File
<1>3. rel \in Memory /\ rel \in Links
  <2>1. file.links \in Links /\ rel \in Loaded(<<online>>, file.links)
    BY <1>2 DEF Init, File
  <2> QED
    BY <2>1, StartSteady, LoadedSome, LoadedSteady
<1>4. arg \in [Thread -> Persona \X Persona]
  <2>1. (CHOOSE p \in Persona : TRUE) \in Persona
    BY RelationsAssumption
  <2> QED
    BY <2>1 DEF Init, NoKeys
<1>5. past \in [Kind -> SUBSET (Account \X Account)]
  BY DEF Init, ByAccount, Accounts
<1>6. mixed \in BOOLEAN /\ moved \in BOOLEAN
  BY DEF Init, Merges
<1>7. TypeOK
  <2>1. left \in [{"calls", "steps"} -> Nat]
    BY RelationsAssumption DEF Init
  <2>2. /\ at \in [Thread -> Places] /\ copy \in [Thread -> Links]
        /\ online \subseteq Persona /\ overlaps \subseteq Thread /\ raced \in BOOLEAN
    BY <1>1 DEF Init, Places
  <2>3. <<>> \in Seq(SUBSET Persona)
    OBVIOUS
  <2>4. seen \in [Thread -> Seq(SUBSET Persona)]
    BY <2>3 DEF Init
  <2> QED
    BY <1>2, <1>3, <1>4, <1>5, <1>6, <2>1, <2>2, <2>4 DEF TypeOK, File, Memory
<1>8. \A t \in Thread : at[t] = "idle"
  BY DEF Init
<1> QED
  BY <1>7, <1>8 DEF TypeInv, Calling

LEMMA CallType ==
    ASSUME TypeInv, NEW t \in Thread, NEW p \in Persona, Call(t, p)
    PROVE  TypeInv'
<1>1. <<Key(p), Key(p)>> \in Persona \X Persona
  BY KeyAccount DEF Key
<1>2. /\ arg' = [arg EXCEPT ![t] = <<Key(p), Key(p)>>]
      /\ at' = [at EXCEPT ![t] = "called"]
      /\ left' \in [{"calls", "steps"} -> Nat]
  BY DEF Call, Goes, Spends, TypeInv, TypeOK
<1> QED
  BY <1>1, <1>2 DEF Call, TypeInv, TypeOK, Places, Calling, History

LEMMA FindType ==
    ASSUME TypeInv, NEW t \in Thread, NEW place \in Calling,
           NEW p \in Persona, Find(t, place, p)
    PROVE  TypeInv'
<1> DEFINE new == <<arg[t][1], Key(p)>>
           goal == IF arg[t][1] = Key(p) THEN "idle" ELSE place
<1>1. new \in Persona \X Persona
  BY KeyAccount DEF Key, TypeInv, TypeOK
<1>2. arg' = [arg EXCEPT ![t] = new] /\ at' = [at EXCEPT ![t] = goal]
  BY DEF Find, Goes, TypeInv, TypeOK
<1>3. goal \in Places /\ goal # "read" /\ (goal \in Calling => new \in Link)
  BY <1>1 DEF Places, Calling, Link
<1> HIDE DEF new, goal
<1>4. UNCHANGED <<rel, file, online, copy, seen, left, overlaps, raced, mixed, moved, past>>
  BY DEF Find, History
<1>5. arg' \in [Thread -> Persona \X Persona] /\ at' \in [Thread -> Places]
  BY <1>1, <1>2, <1>3 DEF TypeInv, TypeOK
<1>6. TypeOK'
  BY <1>4, <1>5 DEF TypeInv, TypeOK
<1>7. /\ \A u \in Thread : at'[u] \in Calling => arg'[u] \in Link
      /\ \A u \in Thread : at'[u] = "read" => 1 \in DOMAIN seen'[u]
  BY <1>2, <1>3, <1>4 DEF TypeInv, TypeOK
<1> QED
  BY <1>6, <1>7 DEF TypeInv

(* A thread that goes anywhere but into a call.                            *)
LEMMA GoesType ==
    ASSUME TypeInv, NEW t \in Thread, NEW place \in Places \ Calling,
           Goes(t, place), UNCHANGED <<arg, seen>>, place # "read"
    PROVE  /\ at' \in [Thread -> Places]
           /\ \A u \in Thread : at'[u] \in Calling => arg'[u] \in Link
           /\ \A u \in Thread : at'[u] = "read" => 1 \in DOMAIN seen'[u]
  BY DEF TypeInv, TypeOK, Goes

LEMMA BeginsType ==
    ASSUME TypeInv, NEW t \in Thread, Begins(t)
    PROVE  overlaps' \subseteq Thread /\ raced' \in BOOLEAN
  BY DEF TypeInv, TypeOK, Begins, Working

LEMMA EndsType ==
    ASSUME TypeInv, NEW t \in Thread, NEW good, Ends(t, good)
    PROVE  overlaps' \subseteq Thread /\ raced' \in BOOLEAN
  BY DEF TypeInv, TypeOK, Ends

LEMMA SpendsType ==
    ASSUME TypeInv, NEW bounds \in SUBSET {"calls", "steps"}, Spends(bounds)
    PROVE  left' \in [{"calls", "steps"} -> Nat]
  BY DEF TypeInv, TypeOK, Spends

(* Logins and logouts.                                                     *)
LEMMA WitnessedType ==
    ASSUME TypeInv, Witnessed, online' \in SUBSET Persona
    PROVE  /\ seen' \in [Thread -> Seq(SUBSET Persona)]
           /\ \A t \in Thread : at[t] = "read" => 1 \in DOMAIN seen'[t]
<1>1. ASSUME NEW t \in Thread
      PROVE  /\ seen'[t] \in Seq(SUBSET Persona)
             /\ at[t] = "read" => 1 \in DOMAIN seen'[t]
  <2>1. seen[t] \in Seq(SUBSET Persona)
    BY DEF TypeInv, TypeOK
  <2>2. seen'[t] = IF at[t] = "read" THEN Append(seen[t], online') ELSE seen[t]
    BY DEF Witnessed
  <2>3. Append(seen[t], online') \in Seq(SUBSET Persona)
    BY <2>1
  <2>4. 1 \in DOMAIN Append(seen[t], online')
    BY <2>1
  <2> QED
    BY <2>1, <2>2, <2>3, <2>4
<1> QED
  BY <1>1 DEF Witnessed

LEMMA StepType ==
    ASSUME TypeInv, NEW t \in Thread, Step(t)
    PROVE  TypeInv'
<1>0. TypeOK
  BY DEF TypeInv
<1> USE DEF Places, Calling, History
<1>1. ASSUME NEW p \in Persona, Call(t, p) \/ \E place \in Calling : Find(t, place, p)
      PROVE  TypeInv'
  BY <1>1, CallType, FindType
<1>2. CASE Block(t)
  BY <1>2, BlockLegal, BecomesType DEF Block
<1>3. CASE Accept(t)
  BY <1>3, AcceptLegal, BecomesType DEF Accept
<1>4. CASE Keep(t)
  BY <1>0, <1>4, BecomesType DEF Keep, TypeOK, Legal, Memory
<1>5. CASE Ask(t)
  BY <1>5, AskLegal, BecomesType DEF Ask
<1>6. CASE Remove(t)
  BY <1>6, WithoutLegal, BecomesType DEF Remove
<1>7. CASE Unblock(t)
  BY <1>7, WithoutLegal, BecomesType DEF Unblock
<1>8. CASE Nothing(t)
  <2>1. Goes(t, "idle") /\ UNCHANGED <<arg, seen>>
    BY <1>8 DEF Nothing
  <2> QED
    BY <1>0, <1>8, <2>1, GoesType DEF Nothing, TypeInv, TypeOK
<1>9. CASE AdminSave(t)
  <2>1. Goes(t, "changed") /\ UNCHANGED <<arg, seen>> /\ Begins(t) /\ Spends({"steps"})
    BY <1>9 DEF AdminSave
  <2> QED
    BY <1>0, <1>9, <2>1, GoesType, BeginsType, SpendsType DEF AdminSave, TypeInv, TypeOK
<1>10. CASE Copy(t)
  <2>1. Goes(t, "copied") /\ UNCHANGED <<arg, seen>>
    BY <1>10 DEF Copy
  <2>2. [k \in Kind |-> rel[k] \intersect Link] \in Links
    BY DEF Links
  <2> QED
    BY <1>0, <1>10, <2>1, <2>2, GoesType DEF Copy, TypeInv, TypeOK
<1>11. CASE Open(t)
  <2>1. Goes(t, "opened") /\ UNCHANGED <<arg, seen>>
    BY <1>11 DEF Open
  <2>2. file' \in File
    BY <1>11 DEF Open, File, None, Links
  <2> QED
    BY <1>0, <1>11, <2>1, <2>2, GoesType DEF Open, TypeInv, TypeOK, File
<1>12. CASE Write(t)
  <2>1. Goes(t, "idle") /\ UNCHANGED <<arg, seen>> /\ Ends(t, TRUE)
    BY <1>12 DEF Write
  <2>2. file' \in File
    BY <1>0, <1>12 DEF Write, File, None, Links, TypeOK
  <2> QED
    BY <1>0, <1>12, <2>1, <2>2, GoesType, EndsType DEF Write, TypeInv, TypeOK, File
<1>13. CASE WriteFails(t)
  <2>1. Goes(t, "idle") /\ UNCHANGED <<arg, seen>> /\ Ends(t, FALSE)
    BY <1>13 DEF WriteFails
  <2> QED
    BY <1>0, <1>13, <2>1, GoesType, EndsType DEF WriteFails, TypeInv, TypeOK
<1>14. CASE Clear(t)
  <2>1. Goes(t, "cleared") /\ UNCHANGED <<arg, seen>> /\ Begins(t) /\ Spends({"steps"})
    BY <1>14 DEF Clear
  <2>2. rel' \in Links /\ rel' \in Memory
    BY <1>14 DEF Clear, None, Links, Memory
  <2> QED
    BY <1>0, <1>14, <2>1, <2>2, GoesType, BeginsType, SpendsType
       DEF Clear, TypeInv, TypeOK, Memory
<1>15. CASE Read(t)
  <2>1. at' = [at EXCEPT ![t] = "read"]
    BY <1>15 DEF Read, Goes
  <2>2. file.links \in Links
    BY <1>0 DEF TypeOK
  <2>3. /\ seen' = [seen EXCEPT ![t] = <<online>>]
        /\ <<online>> \in Seq(SUBSET Persona)
        /\ 1 \in DOMAIN <<online>>
    BY <1>0, <1>15 DEF Read, TypeOK
  <2> QED
    BY <1>0, <1>15, <2>1, <2>2, <2>3 DEF Read, TypeInv, TypeOK
<1>16. CASE ReadFails(t)
  <2>1. Goes(t, "idle") /\ UNCHANGED <<arg, seen>> /\ Ends(t, file.state = "none")
    BY <1>16 DEF ReadFails
  <2> QED
    BY <1>0, <1>16, <2>1, GoesType, EndsType DEF ReadFails, TypeInv, TypeOK
<1>17. CASE Install(t)
  <2>1. at' = [at EXCEPT ![t] = "idle"] /\ Ends(t, TRUE)
    BY <1>17 DEF Install, Goes
  <2>2. /\ mixed' \in BOOLEAN /\ moved' \in BOOLEAN
        /\ moved' = (moved \/ Moves(seen[t], copy[t]))
    BY <1>0, <1>17 DEF Install, TypeOK, Merges, Moves
  <2>3. PICK r \in Loaded(seen[t], copy[t]) :
           rel' = [k \in Kind |-> Updated(rel[k], r[k])]
    BY <1>17 DEF Install
  <2>4. copy[t] \in Links /\ 1 \in DOMAIN seen[t]
    BY <1>0, <1>17 DEF Install, TypeInv, TypeOK
  <2>5. r \in Memory /\ (~moved' => r \in Links)
    BY <2>2, <2>3, <2>4, LoadedSome, LoadedSteady
  <2>6. rel' \in Memory /\ (~moved' => rel' \in Links)
    <3>1. rel \in Memory /\ (~moved' => rel \in Links)
      BY <1>0, <2>2 DEF TypeOK, Memory
    <3> QED
      BY <2>3, <2>5, <3>1, UpdatedLegal
  <2>7. seen' = [seen EXCEPT ![t] = <<>>] /\ <<>> \in Seq(SUBSET Persona)
    BY <1>17 DEF Install
  <2> QED
    BY <1>0, <1>17, <2>1, <2>2, <2>6, <2>7, EndsType DEF Install, TypeInv, TypeOK, Memory
<1> QED
  BY <1>1, <1>2, <1>3, <1>4, <1>5, <1>6, <1>7, <1>8, <1>9, <1>10, <1>11, <1>12,
     <1>13, <1>14, <1>15, <1>16, <1>17 DEF Step

LEMMA RestartType == TypeInv /\ Restart => TypeInv'
<1> SUFFICES ASSUME TypeInv, Restart PROVE TypeInv'
  OBVIOUS
<1>0. TypeOK
  BY DEF TypeInv
<1>1. rel' \in Memory /\ rel' \in Links
  BY <1>0, StartSteady, LoadedSome, LoadedSteady DEF Restart, TypeOK
<1>2. left' \in [{"calls", "steps"} -> Nat]
  BY SpendsType DEF Restart
<1>3. raced' \in BOOLEAN /\ mixed' \in BOOLEAN
  BY <1>0 DEF Restart, TypeOK, Merges
<1>4. copy' \in [Thread -> Links] /\ seen' \in [Thread -> Seq(SUBSET Persona)]
  BY DEF Restart, None, Links
<1>5. TypeOK'
  BY <1>0, <1>1, <1>2, <1>3, <1>4 DEF Restart, TypeOK, Places, Memory
<1>6. \A t \in Thread : at'[t] = "idle"
  BY DEF Restart
<1> QED
  BY <1>5, <1>6 DEF TypeInv, Calling

LEMMA TypeStep == TypeInv /\ [Next]_vars => TypeInv'
<1> SUFFICES ASSUME TypeInv, [Next]_vars PROVE TypeInv'
  OBVIOUS
<1>1. ASSUME NEW p \in Persona, Login(p) PROVE TypeInv'
  BY <1>1, SpendsType, WitnessedType DEF Login, TypeInv, TypeOK, History
<1>2. ASSUME NEW p \in Persona, Logout(p) PROVE TypeInv'
  BY <1>2, SpendsType, WitnessedType DEF Logout, TypeInv, TypeOK, History
<1>3. ASSUME NEW t \in Thread, Step(t) PROVE TypeInv'
  BY <1>3, StepType
<1>4. CASE Restart
  BY <1>4, RestartType
<1>5. CASE UNCHANGED vars
  BY <1>5 DEF vars, TypeInv, TypeOK
<1> QED
  BY <1>1, <1>2, <1>3, <1>4, <1>5 DEF Next

LEMMA Types == Spec => []TypeInv
  BY InitType, TypeStep, PTL DEF Spec

(* Every variable keeps its type.  The file never relates a name to        *)
(* itself; memory does only after a load that a key changed during.        *)
THEOREM TypeCorrect == Spec => []TypeOK
<1>1. TypeInv => TypeOK
  BY DEF TypeInv
<1> QED
  BY <1>1, Types, PTL

(***************************************************************************)
(* The code implements Consent.                                            *)
(***************************************************************************)
(* Whatever memory, the file or a thread's copy says was so once.          *)
PastInv ==
    \A k \in Kind :
        /\ Accounts(rel[k]) \subseteq past[k]
        /\ Accounts(file.links[k]) \subseteq past[k]
        /\ \A t \in Thread : Accounts(copy[t][k]) \subseteq past[k]

LEMMA AccountsUnion ==
    ASSUME NEW S, NEW T
    PROVE  Accounts(S \union T) = Accounts(S) \union Accounts(T)
  BY DEF Accounts

LEMMA AccountsMonotone ==
    ASSUME NEW S, NEW T, S \subseteq T
    PROVE  Accounts(S) \subseteq Accounts(T)
  BY DEF Accounts

LEMMA AccountsMinus ==
    ASSUME NEW S, NEW T
    PROVE  /\ Accounts(S) \ Accounts(T) \subseteq Accounts(S \ T)
           /\ Accounts(S \ T) \subseteq Accounts(S)
  BY DEF Accounts

LEMMA AccountsNone == \A k \in Kind : Accounts(None[k]) = {}
  BY DEF Accounts, None

(* One link stands for one pair of accounts, if they differ.               *)
LEMMA AccountsOne ==
    ASSUME NEW l \in Link
    PROVE  Accounts({l}) = IF AccountOf[l[1]] = AccountOf[l[2]] THEN {}
                           ELSE {<<AccountOf[l[1]], AccountOf[l[2]]>>}
<1>1. AccountOf[l[1]] \in Account /\ AccountOf[l[2]] \in Account
  BY RelationsAssumption DEF Link
<1> QED
  BY <1>1 DEF Accounts

LEMMA AccountsBoth ==
    ASSUME NEW l \in Link
    PROVE  Accounts(Both(l[1], l[2])) =
               IF AccountOf[l[1]] = AccountOf[l[2]] THEN {}
               ELSE Both(AccountOf[l[1]], AccountOf[l[2]])
<1> DEFINE m == <<l[2], l[1]>>
<1>1. l = <<l[1], l[2]>> /\ m \in Link
  BY DEF Link
<1>2. Both(l[1], l[2]) = {l} \union {m}
  BY <1>1 DEF Both
<1>3. Accounts(Both(l[1], l[2])) = Accounts({l}) \union Accounts({m})
  BY <1>2, AccountsUnion
<1>4. Accounts({m}) = IF AccountOf[l[1]] = AccountOf[l[2]] THEN {}
                      ELSE {<<AccountOf[l[2]], AccountOf[l[1]]>>}
  BY <1>1, AccountsOne
<1> QED
  BY <1>3, <1>4, AccountsOne DEF Both

-----------------------------------------------------------------------------
LEMMA InitPast == Init => PastInv
<1> SUFFICES ASSUME Init, NEW k \in Kind
             PROVE  /\ Accounts(rel[k]) \subseteq past[k]
                    /\ Accounts(file.links[k]) \subseteq past[k]
                    /\ \A t \in Thread : Accounts(copy[t][k]) \subseteq past[k]
  BY DEF PastInv
<1>1. file.links \in Links
  BY InitType DEF TypeInv, TypeOK
<1>2. past[k] = Accounts(file.links[k])
  BY DEF Init, ByAccount
<1>3. Accounts(rel[k]) \subseteq Accounts(file.links[k])
  BY <1>1, LoadedSome DEF Init
<1>4. \A t \in Thread : copy[t] = None
  BY DEF Init
<1> QED
  BY <1>2, <1>3, <1>4, AccountsNone

LEMMA BecomesPast ==
    ASSUME PastInv, NEW t \in Thread, NEW new, Becomes(t, new)
    PROVE  PastInv'
  BY DEF PastInv, Becomes, Recalled

LEMMA StepPast ==
    ASSUME TypeInv, PastInv, NEW t \in Thread, Step(t)
    PROVE  PastInv'
<1>0. TypeOK
  BY DEF TypeInv
<1>1. CASE UNCHANGED <<rel, file, copy, past>>
  BY <1>1 DEF PastInv
<1>2. CASE \E new : Becomes(t, new)
  BY <1>2, BecomesPast
<1>3. CASE Copy(t)
  <2>1. \A k \in Kind : Accounts([q \in Kind |-> rel[q] \intersect Link][k]) \subseteq past[k]
    BY AccountsMonotone DEF PastInv
  <2>2. \A u \in Thread : copy'[u] = IF u = t THEN [k \in Kind |-> rel[k] \intersect Link]
                                    ELSE copy[u]
    BY <1>0, <1>3 DEF Copy, TypeOK
  <2> QED
    BY <1>3, <2>1, <2>2 DEF Copy, PastInv, History
<1>4. CASE Open(t)
  BY <1>4, AccountsNone DEF Open, PastInv, History
<1>5. CASE Write(t)
  BY <1>5, AccountsNone DEF Write, PastInv
<1>6. CASE Clear(t)
  BY <1>6, AccountsNone DEF Clear, PastInv
<1>7. CASE Read(t)
  <2>1. \A u \in Thread : copy'[u] = IF u = t THEN file.links ELSE copy[u]
    BY <1>0, <1>7 DEF Read, TypeOK
  <2> QED
    BY <1>7, <2>1 DEF Read, PastInv, History
<1>8. CASE Install(t)
  <2>1. PICK r \in Loaded(seen[t], copy[t]) :
           rel' = [k \in Kind |-> Updated(rel[k], r[k])]
    BY <1>8 DEF Install
  <2>2. \A k \in Kind : Accounts(r[k]) \subseteq past[k]
    BY <1>0, <2>1, LoadedSome DEF PastInv, TypeOK
  <2>3. \A k \in Kind : rel'[k] \subseteq rel[k] \union r[k]
    BY <2>1 DEF Updated
  <2>4. \A k \in Kind : Accounts(rel'[k]) \subseteq Accounts(rel[k]) \union Accounts(r[k])
    <3> TAKE k \in Kind
    <3>1. Accounts(rel'[k]) \subseteq Accounts(rel[k] \union r[k])
      BY <2>3, AccountsMonotone
    <3> QED
      BY <3>1, AccountsUnion
  <2> QED
    BY <1>8, <2>2, <2>4 DEF Install, PastInv
<1> QED
  BY <1>1, <1>2, <1>3, <1>4, <1>5, <1>6, <1>7, <1>8
     DEF Step, Call, Find, Block, Accept, Keep, Ask, Remove, Unblock, Nothing,
         AdminSave, WriteFails, ReadFails, History

LEMMA PastStep == TypeInv /\ PastInv /\ [Next]_vars => PastInv'
<1> SUFFICES ASSUME TypeInv, PastInv, [Next]_vars PROVE PastInv'
  OBVIOUS
<1>1. CASE Restart
  <2>1. \A k \in Kind : Accounts(rel'[k]) \subseteq Accounts(file.links[k])
    BY <1>1, LoadedSome DEF Restart, TypeInv, TypeOK
  <2>2. \A t \in Thread : copy'[t] = None
    BY <1>1 DEF Restart
  <2> QED
    BY <1>1, <2>1, <2>2, AccountsNone DEF Restart, PastInv
<1>2. CASE UNCHANGED <<rel, file, copy, past>>
  BY <1>2 DEF PastInv
<1> QED
  BY <1>1, <1>2, StepPast DEF Next, Login, Logout, History, vars

-----------------------------------------------------------------------------
(* A step that makes nothing new is a reload, to the players.              *)
LEMMA NothingNew ==
    ASSUME PastInv', UNCHANGED past
    PROVE  Promise!Reload
  BY DEF PastInv, Promise!Reload, Kind

(* Nor does a call if all it leaves was there before.                      *)
LEMMA OldOnly ==
    ASSUME TypeInv, PastInv, NEW t \in Thread, NEW new, Becomes(t, new),
           \A k \in Kind : Accounts(new[k]) \subseteq past[k]
    PROVE  Promise!Reload
<1>1. Recalled(new) = past
  BY DEF Recalled, TypeInv, TypeOK
<1> QED
  BY <1>1, BecomesPast, NothingNew DEF Becomes

(* Members of the accounts of arg[t].                                      *)
Asker(t) == AccountOf[Owner(t)]
Other(t) == AccountOf[Target(t)]

LEMMA CallAccounts ==
    ASSUME TypeInv, NEW t \in Thread, at[t] \in Calling
    PROVE  /\ Asker(t) \in Account
           /\ Other(t) \in Account
           /\ Accounts({arg[t]}) = IF Asker(t) = Other(t) THEN {} ELSE {<<Asker(t), Other(t)>>}
           /\ Accounts(Pair(t)) = IF Asker(t) = Other(t) THEN {} ELSE Both(Asker(t), Other(t))
<1>1. arg[t] \in Link
  BY PairLinks
<1> QED
  BY <1>1, AccountsOne, AccountsBoth, RelationsAssumption
     DEF Asker, Other, Owner, Target, Pair, Link

LEMMA Recalls ==
    ASSUME NEW t \in Thread, NEW new, Becomes(t, new)
    PROVE  Promise!Recall
  BY DEF Becomes, Recalled, Promise!Recall, Kind

LEMMA AskPromised ==
    ASSUME TypeInv, PastInv, NEW t \in Thread, Ask(t)
    PROVE  Promise!Next
<1> DEFINE new == [rel EXCEPT !["pending"] = @ \union {arg[t]}]
<1>1. at[t] \in Calling /\ Becomes(t, new)
  BY DEF Ask, Calling
<1>2. /\ Accounts(new["pending"]) = Accounts(rel["pending"]) \union Accounts({arg[t]})
      /\ new["buddies"] = rel["buddies"]
      /\ new["blocks"] = rel["blocks"]
  BY AccountsUnion DEF TypeInv, TypeOK, Links, Kind
<1>3. CASE Asker(t) = Other(t)
  <2>1. \A k \in Kind : Accounts(new[k]) \subseteq past[k]
    BY <1>1, <1>2, <1>3, CallAccounts DEF PastInv, Kind
  <2> QED
    BY <1>1, <2>1, OldOnly DEF Promise!Next
<1>4. CASE Asker(t) # Other(t)
  <2>1. Accounts(new["pending"]) = Accounts(rel["pending"]) \union {<<Asker(t), Other(t)>>}
    BY <1>1, <1>2, <1>4, CallAccounts
  <2>2. rel' = new
    BY <1>1 DEF Becomes
  <2>3. Promise!Recall
    BY <1>1, Recalls
  <2> HIDE DEF new
  <2>4. Promise!Ask(Asker(t), Other(t))
    BY <1>2, <2>1, <2>2, <2>3 DEF Promise!Ask
  <2>5. <<Asker(t), Other(t)>> \in Promise!Pairs
    BY <1>1, <1>4, CallAccounts DEF Promise!Pairs
  <2> QED
    BY <2>4, <2>5 DEF Promise!Next
<1> QED
  BY <1>3, <1>4

LEMMA AcceptPromised ==
    ASSUME TypeInv, PastInv, NEW t \in Thread, Accept(t)
    PROVE  Promise!Next
<1> DEFINE new == [Without({"pending"}, Pair(t)) EXCEPT !["buddies"] = @ \union Pair(t)]
<1>1. at[t] \in Calling /\ Becomes(t, new)
  BY DEF Accept, Calling
<1>2. /\ new["pending"] = rel["pending"] \ Pair(t)
      /\ new["buddies"] = rel["buddies"] \union Pair(t)
      /\ new["blocks"] = rel["blocks"]
  BY DEF Without, Kind
<1>3. CASE Asker(t) = Other(t)
  <2>1. Accounts(Pair(t)) = {}
    BY <1>1, <1>3, CallAccounts
  <2>2. /\ Accounts(new["pending"]) \subseteq Accounts(rel["pending"])
        /\ Accounts(new["buddies"]) = Accounts(rel["buddies"])
        /\ Accounts(new["blocks"]) = Accounts(rel["blocks"])
    <3> HIDE DEF new
    <3>1. Accounts(new["pending"]) \subseteq Accounts(rel["pending"])
      BY <1>2, AccountsMinus
    <3>2. Accounts(new["buddies"]) = Accounts(rel["buddies"]) \union Accounts(Pair(t))
      BY <1>2, AccountsUnion
    <3> QED
      BY <1>2, <2>1, <3>1, <3>2
  <2>3. \A k \in Kind : Accounts(new[k]) \subseteq past[k]
    <3> HIDE DEF new
    <3> QED
      BY <2>2 DEF PastInv, Kind
  <2> QED
    BY <1>1, <2>3, OldOnly DEF Promise!Next
<1>4. CASE Asker(t) # Other(t)
  <2>1. rel' = new /\ Promise!Recall
    BY <1>1, Recalls DEF Becomes
  <2> HIDE DEF new
  <2>2. Accounts(Pair(t)) = Both(Asker(t), Other(t))
    BY <1>1, <1>4, CallAccounts
  <2>3. Accounts(rel'["buddies"]) = Accounts(rel["buddies"]) \union Both(Asker(t), Other(t))
    BY <1>2, <2>1, <2>2, AccountsUnion
  <2>4. /\ Accounts(rel["pending"]) \ Both(Asker(t), Other(t)) \subseteq Accounts(rel'["pending"])
        /\ Accounts(rel'["pending"]) \subseteq Accounts(rel["pending"])
    BY <1>2, <2>1, <2>2, AccountsMinus
  <2>5. <<Other(t), Asker(t)>> \in Accounts(rel["pending"])
    <3>1. <<Target(t), Owner(t)>> \in rel["pending"]
      BY DEF Accept
    <3> QED
      BY <1>1, <1>4, <3>1, CallAccounts DEF Accounts, Asker, Other
  <2>6. Promise!Accept(Asker(t), Other(t))
    BY <1>2, <2>1, <2>3, <2>4, <2>5 DEF Promise!Accept, Promise!Shrinks, Promise!Both, Both
  <2>7. <<Asker(t), Other(t)>> \in Promise!Pairs
    BY <1>1, <1>4, CallAccounts DEF Promise!Pairs
  <2> QED
    BY <2>6, <2>7 DEF Promise!Next
<1> QED
  BY <1>3, <1>4

LEMMA BlockPromised ==
    ASSUME TypeInv, PastInv, NEW t \in Thread, Block(t)
    PROVE  Promise!Next
<1> DEFINE new == [Without({"buddies", "pending"}, Pair(t)) EXCEPT
                       !["blocks"] = @ \union {arg[t]}]
<1>1. at[t] \in Calling /\ Becomes(t, new)
  BY DEF Block, Calling
<1>2. /\ new["pending"] = rel["pending"] \ Pair(t)
      /\ new["buddies"] = rel["buddies"] \ Pair(t)
      /\ new["blocks"] = rel["blocks"] \union {arg[t]}
  BY DEF Without, Kind
<1>3. CASE Asker(t) = Other(t)
  <2>1. Accounts({arg[t]}) = {}
    BY <1>1, <1>3, CallAccounts
  <2>2. /\ Accounts(new["pending"]) \subseteq Accounts(rel["pending"])
        /\ Accounts(new["buddies"]) \subseteq Accounts(rel["buddies"])
        /\ Accounts(new["blocks"]) = Accounts(rel["blocks"])
    BY <1>2, <2>1, AccountsUnion, AccountsMinus
  <2>3. \A k \in Kind : Accounts(new[k]) \subseteq past[k]
    <3> HIDE DEF new
    <3> QED
      BY <2>2 DEF PastInv, Kind
  <2> QED
    BY <1>1, <2>3, OldOnly DEF Promise!Next
<1>4. CASE Asker(t) # Other(t)
  <2>1. rel' = new /\ Promise!Recall
    BY <1>1, Recalls DEF Becomes
  <2> HIDE DEF new
  <2>2. /\ Accounts(Pair(t)) = Both(Asker(t), Other(t))
        /\ Accounts({arg[t]}) = {<<Asker(t), Other(t)>>}
    BY <1>1, <1>4, CallAccounts
  <2>3. Accounts(rel'["blocks"]) = Accounts(rel["blocks"]) \union {<<Asker(t), Other(t)>>}
    BY <1>2, <2>1, <2>2, AccountsUnion
  <2>4. /\ Accounts(rel["pending"]) \ Both(Asker(t), Other(t)) \subseteq Accounts(rel'["pending"])
        /\ Accounts(rel'["pending"]) \subseteq Accounts(rel["pending"])
        /\ Accounts(rel["buddies"]) \ Both(Asker(t), Other(t)) \subseteq Accounts(rel'["buddies"])
        /\ Accounts(rel'["buddies"]) \subseteq Accounts(rel["buddies"])
    BY <1>2, <2>1, <2>2, AccountsMinus
  <2>5. Promise!Block(Asker(t), Other(t))
    BY <2>1, <2>3, <2>4 DEF Promise!Block, Promise!Shrinks, Promise!Both, Both
  <2>6. <<Asker(t), Other(t)>> \in Promise!Pairs
    BY <1>1, <1>4, CallAccounts DEF Promise!Pairs
  <2> QED
    BY <2>5, <2>6 DEF Promise!Next
<1> QED
  BY <1>3, <1>4

(* Calls that only take away.                                              *)
LEMMA LessPromised ==
    ASSUME TypeInv, PastInv, NEW t \in Thread, Keep(t) \/ Remove(t) \/ Unblock(t)
    PROVE  Promise!Next
<1>1. PICK new : Becomes(t, new) /\ \A k \in Kind : new[k] \subseteq rel[k]
  <2>1. CASE Keep(t)
    BY <2>1 DEF Keep, TypeInv, TypeOK
  <2>2. CASE Remove(t)
    BY <2>2 DEF Remove, Without
  <2>3. CASE Unblock(t)
    BY <2>3 DEF Unblock, Without
  <2> QED
    BY <2>1, <2>2, <2>3
<1>2. \A k \in Kind : Accounts(new[k]) \subseteq past[k]
  BY <1>1, AccountsMonotone DEF PastInv
<1> QED
  BY <1>1, <1>2, OldOnly DEF Promise!Next

LEMMA StepPromised ==
    TypeInv /\ PastInv /\ PastInv' /\ [Next]_vars => [Promise!Next]_(Promise!vars)
<1> SUFFICES ASSUME TypeInv, PastInv, PastInv', [Next]_vars
             PROVE  [Promise!Next]_(Promise!vars)
  OBVIOUS
<1>1. CASE UNCHANGED past
  BY <1>1, NothingNew DEF Promise!Next
<1>2. ASSUME NEW t \in Thread, Step(t) PROVE Promise!Next \/ UNCHANGED past
  BY <1>2, AskPromised, AcceptPromised, BlockPromised, LessPromised
     DEF Step, Call, Find, Nothing, AdminSave, Copy, Open, Write, WriteFails, Clear,
         Read, ReadFails, Install, History
<1> QED
  BY <1>1, <1>2 DEF Next, Login, Logout, Restart, History, vars

LEMMA InitPromised == TypeInv /\ Init => Promise!Init
<1> SUFFICES ASSUME TypeInv, Init PROVE Promise!Init
  OBVIOUS
<1>1. \A k \in Kind : past[k] = Accounts(file.links[k]) /\ Accounts(rel[k]) \subseteq past[k]
  BY InitPast DEF Init, ByAccount, PastInv
<1>2. \A k \in Kind : past[k] \subseteq Promise!Pairs
  BY <1>1 DEF Accounts, Promise!Pairs
<1> QED
  BY <1>1, <1>2 DEF Promise!Init, Kind

(* Two accounts become friends only when one accepts what the other has    *)
(* asked, and no reload, restart, failed or late save brings a friendship, *)
(* a request or a block that nobody made.                                  *)
THEOREM ConsentImplemented == Spec => Consented
<1>1. TypeInv /\ PastInv /\ [Next]_vars => PastInv'
  BY PastStep
<1>2. Spec => []PastInv
  BY <1>1, InitPast, Types, PTL DEF Spec
<1> QED
  BY <1>2, Types, InitType, InitPromised, StepPromised, PTL DEF Spec, Consented, Promise!Spec

(***************************************************************************)
(* Friendship is mutual.                                                   *)
(***************************************************************************)
(* So it is in memory, in the file and in what threads carry between them. *)
MutualInv ==
    (~mixed /\ ~moved) => /\ Sym(rel["buddies"])
                          /\ Sym(file.links["buddies"])
                          /\ \A t \in Thread : Sym(copy[t]["buddies"])

(* A load of a mutual file is mutual, if it joins no two sets and no key   *)
(* moves during it.                                                        *)
LEMMA LoadedMutual ==
    ASSUME NEW s, NEW links \in Links, NEW r \in Loaded(s, links),
           1 \in DOMAIN s, ~Merges(s, links), ~Moves(s, links), Sym(links["buddies"])
    PROVE  Sym(r["buddies"])
<1>1. r["buddies"] = Rekeyed(s[1], links["buddies"])
  BY LoadedSteady DEF Kind
<1>2. links["buddies"] \in SUBSET Link
  BY DEF Links, Kind
<1> QED
  BY <1>1, <1>2, RekeyedSym

LEMMA NoneMutual == Sym(None["buddies"])
  BY DEF None, Kind, Sym

LEMMA InitMutual == Init => MutualInv
<1> SUFFICES ASSUME Init, ~mixed PROVE MutualInv
  BY DEF MutualInv
<1>1. file.links \in Links
  BY InitType DEF TypeInv, TypeOK
<1>2. Sym(file.links["buddies"])
  <2>1. CASE file \in [state : {"whole"}, links : Earlier]
    BY <2>1, EarlierAssumption DEF Sym
  <2>2. CASE file = [state |-> "none", links |-> None]
    BY <2>2, NoneMutual
  <2> QED
    BY <2>1, <2>2 DEF Init
<1>3. Sym(rel["buddies"])
  BY <1>1, <1>2, LoadedMutual, StartSteady DEF Init
<1>4. \A t \in Thread : copy[t] = None
  BY DEF Init
<1> QED
  BY <1>2, <1>3, <1>4, NoneMutual DEF MutualInv

LEMMA BecomesMutual ==
    ASSUME MutualInv, NEW t \in Thread, NEW new, Becomes(t, new),
           Sym(rel["buddies"]) => Sym(new["buddies"])
    PROVE  MutualInv'
  BY DEF MutualInv, Becomes

LEMMA PairSym ==
    ASSUME NEW t, NEW S \in SUBSET (Persona \X Persona), Sym(S)
    PROVE  Sym(S \ Pair(t)) /\ Sym(S \union Pair(t))
<1>1. \A l \in Persona \X Persona : l \in Pair(t) <=> <<l[2], l[1]>> \in Pair(t)
  BY DEF Pair, Both
<1>2. Sym(Pair(t))
  BY DEF Sym, Pair, Both
<1>3. Sym(S \ Pair(t))
  BY <1>1 DEF Sym
<1>4. Sym(S \union Pair(t))
  BY <1>2 DEF Sym
<1> QED
  BY <1>3, <1>4

LEMMA StepMutual ==
    ASSUME TypeInv, MutualInv, NEW t \in Thread, Step(t)
    PROVE  MutualInv'
<1>0. TypeOK
  BY DEF TypeInv
<1>1. CASE UNCHANGED <<rel, file, copy, mixed, moved>>
  BY <1>1 DEF MutualInv
<1>a. rel["buddies"] \in SUBSET (Persona \X Persona)
  BY <1>0 DEF TypeOK, Kind
<1>2. CASE Block(t)
  <2> DEFINE new == [Without({"buddies", "pending"}, Pair(t)) EXCEPT
                        !["blocks"] = @ \union {arg[t]}]
  <2>1. new["buddies"] = rel["buddies"] \ Pair(t)
    BY DEF Without, Kind
  <2>2. Becomes(t, new)
    BY <1>2 DEF Block
  <2> QED
    BY <1>a, <2>1, <2>2, PairSym, BecomesMutual
<1>3. CASE Accept(t)
  <2> DEFINE new == [Without({"pending"}, Pair(t)) EXCEPT
                        !["buddies"] = @ \union Pair(t)]
  <2>1. new["buddies"] = rel["buddies"] \union Pair(t)
    BY DEF Without, Kind
  <2>2. Becomes(t, new)
    BY <1>3 DEF Accept
  <2> QED
    BY <1>a, <2>1, <2>2, PairSym, BecomesMutual
<1>4. CASE Keep(t)
  BY <1>4, BecomesMutual DEF Keep
<1>5. CASE Ask(t)
  BY <1>0, <1>5, BecomesMutual DEF Ask, TypeOK, Kind
<1>6. CASE Remove(t)
  <2> DEFINE new == Without({"buddies", "pending"}, Pair(t))
  <2>1. new["buddies"] = rel["buddies"] \ Pair(t)
    BY DEF Without, Kind
  <2>2. Becomes(t, new)
    BY <1>6 DEF Remove
  <2> QED
    BY <1>a, <2>1, <2>2, PairSym, BecomesMutual
<1>7. CASE Unblock(t)
  BY <1>7, BecomesMutual DEF Unblock, Without, Kind
<1>8. CASE Copy(t)
  <2> DEFINE payload == [k \in Kind |-> rel[k] \intersect Link]
  <2>1. \A u \in Thread : copy'[u] = IF u = t THEN payload ELSE copy[u]
    BY <1>0, <1>8 DEF Copy, TypeOK
  <2>2. payload["buddies"] = rel["buddies"] \intersect Link
    BY DEF Kind
  <2>3. Sym(rel["buddies"]) => Sym(payload["buddies"])
    BY <1>a, <2>2 DEF Sym, Link
  <2> HIDE DEF payload
  <2> QED
    BY <1>8, <2>1, <2>3 DEF Copy, MutualInv, History
<1>9. CASE Open(t)
  BY <1>9, NoneMutual DEF Open, MutualInv, History
<1>10. CASE Write(t)
  BY <1>10, NoneMutual DEF Write, MutualInv
<1>11. CASE Clear(t)
  BY <1>11, NoneMutual DEF Clear, MutualInv
<1>12. CASE Read(t)
  <2>1. \A u \in Thread : copy'[u] = IF u = t THEN file.links ELSE copy[u]
    BY <1>0, <1>12 DEF Read, TypeOK
  <2> QED
    BY <1>12, <2>1 DEF Read, MutualInv, History
<1>13. CASE Install(t)
  <2>1. PICK r \in Loaded(seen[t], copy[t]) :
           rel' = [k \in Kind |-> Updated(rel[k], r[k])]
    BY <1>13 DEF Install
  <2>2. copy[t] \in Links /\ 1 \in DOMAIN seen[t]
    BY <1>0, <1>13 DEF Install, TypeInv, TypeOK
  <2>3. /\ mixed' = (mixed \/ rel # None \/ Merges(seen[t], copy[t]))
        /\ moved' = (moved \/ Moves(seen[t], copy[t]))
        /\ UNCHANGED <<file, copy>>
    BY <1>13 DEF Install
  <2>4. SUFFICES ASSUME ~mixed', ~moved' PROVE MutualInv'
    BY DEF MutualInv
  <2>5. ~mixed /\ ~moved /\ rel = None /\ ~Merges(seen[t], copy[t]) /\ ~Moves(seen[t], copy[t])
    BY <2>3, <2>4
  <2>6. Sym(r["buddies"])
    BY <2>1, <2>2, <2>5, LoadedMutual DEF MutualInv
  <2>7. rel'["buddies"] = r["buddies"]
    BY <2>1, <2>5 DEF Updated, None, Kind
  <2> QED
    BY <2>3, <2>5, <2>6, <2>7 DEF MutualInv
<1> QED
  BY <1>1, <1>2, <1>3, <1>4, <1>5, <1>6, <1>7, <1>8, <1>9, <1>10, <1>11, <1>12, <1>13
     DEF Step, Call, Find, Nothing, AdminSave, WriteFails, ReadFails, History

LEMMA MutualStep == TypeInv /\ MutualInv /\ [Next]_vars => MutualInv'
<1> SUFFICES ASSUME TypeInv, MutualInv, [Next]_vars PROVE MutualInv'
  OBVIOUS
<1>1. CASE Restart
  <2>1. rel' \in Loaded(<<{}>>, file.links) /\ UNCHANGED <<file, moved>>
        /\ mixed' = (mixed \/ Merges(<<{}>>, file.links))
    BY <1>1 DEF Restart
  <2>2. (~mixed' /\ ~moved') => Sym(rel'["buddies"])
    BY <2>1, LoadedMutual, StartSteady DEF MutualInv, TypeInv, TypeOK
  <2>3. \A t \in Thread : copy'[t] = None
    BY <1>1 DEF Restart
  <2> QED
    BY <2>1, <2>2, <2>3, NoneMutual DEF MutualInv
<1>2. CASE UNCHANGED <<rel, file, copy, mixed, moved>>
  BY <1>2 DEF MutualInv
<1> QED
  BY <1>1, <1>2, StepMutual DEF Next, Login, Logout, History, vars

(* Whoever is on a list has the other on his, through calls, keys that     *)
(* move, copies that a crash or an overlap leaves in the file, until a     *)
(* load joins two sets, or meets a change of relations or of a key.        *)
THEOREM MutualCorrect == Spec => []Mutual
<1>1. TypeInv /\ MutualInv /\ [Next]_vars => MutualInv'
  BY MutualStep
<1>2. MutualInv => Mutual
  BY DEF MutualInv, Mutual, Sym
<1> QED
  BY <1>1, <1>2, InitMutual, Types, PTL DEF Spec

(***************************************************************************)
(* The file has what memory has.                                           *)
(***************************************************************************)
(* A thread that has been alone with its call since it began to work.      *)
Lone(t) == t \in Working \ overlaps

Busy == {"changed", "copied", "opened", "cleared", "read"}

(* What such a thread can rely on.                                         *)
LoneOK(t) ==
    /\ Working = {t}
    /\ at[t] \in {"copied", "opened"} => ByAccount(copy[t]) = ByAccount(rel)
    /\ at[t] = "opened" => file.state = "empty"
    /\ at[t] \in {"cleared", "read"} => rel = None
    /\ at[t] = "read" => file.state = "whole" /\ copy[t] = file.links

Saved == file.state \in {"none", "whole"} /\ ByAccount(file.links) = ByAccount(rel)

SaveInv ==
    /\ overlaps \subseteq Working
    /\ ~raced => overlaps = {}
    /\ file.state = "none" => file.links = None
    /\ (~raced /\ ~mixed /\ Working = {}) => Saved
    /\ \A t \in Thread : Lone(t) => LoneOK(t)

LEMMA WorkingBusy == Working = {t \in Thread : at[t] \in Busy}
  BY DEF Working, Busy

(* The payload leaves no relation between accounts out.                    *)
LEMMA PayloadSaved ==
    ASSUME TypeOK
    PROVE  ByAccount([k \in Kind |-> rel[k] \intersect Link]) = ByAccount(rel)
<1>1. ASSUME NEW k \in Kind PROVE Accounts(rel[k] \intersect Link) = Accounts(rel[k])
  <2>1. rel[k] \subseteq Persona \X Persona
    BY <1>1 DEF TypeOK
  <2>2. ASSUME NEW a \in Accounts(rel[k]) PROVE a \in Accounts(rel[k] \intersect Link)
    <3>1. PICK l \in rel[k] : a = <<AccountOf[l[1]], AccountOf[l[2]]>>
      BY <2>2 DEF Accounts
    <3>2. a[1] # a[2]
      BY <2>2 DEF Accounts
    <3>3. l \in Link
      BY <2>1, <3>1, <3>2 DEF Link
    <3> QED
      BY <2>2, <3>1, <3>3 DEF Accounts
  <2> QED
    BY <2>2, AccountsMonotone
<1> QED
  BY <1>1 DEF ByAccount

LEMMA InitSave == Init => SaveInv
<1> SUFFICES ASSUME Init PROVE SaveInv
  OBVIOUS
<1>1. Working = {}
  BY DEF Init, Working
<1>2. file.state \in {"none", "whole"} /\ (file.state = "none" => file.links = None)
  BY DEF Init
<1>3. file.links \in Links
  BY InitType DEF TypeInv, TypeOK
<1>4. ~mixed => Saved
  BY <1>2, <1>3, LoadedSome DEF Init, Saved
<1>5. overlaps = {}
  BY DEF Init
<1> QED
  BY <1>1, <1>2, <1>4, <1>5 DEF SaveInv, Lone

(* Steps of threads that are not working.                                  *)
LEMMA QuietSave ==
    ASSUME SaveInv, UNCHANGED <<rel, file, copy, overlaps, raced, mixed>>,
           \A t \in Thread : at'[t] = at[t] \/ (at[t] \notin Busy /\ at'[t] \notin Busy)
    PROVE  SaveInv'
<1>1. Working' = Working
  BY DEF Working, Busy
<1>2. \A t \in Thread : t \in Working => at'[t] = at[t]
  BY WorkingBusy
<1>3. \A t \in Thread : Lone(t)' => LoneOK(t)'
  <2> SUFFICES ASSUME NEW t \in Thread, Lone(t)' PROVE LoneOK(t)'
    OBVIOUS
  <2>1. Lone(t) /\ at'[t] = at[t]
    BY <1>1, <1>2 DEF Lone
  <2> QED
    BY <1>1, <2>1 DEF SaveInv, LoneOK
<1> QED
  BY <1>1, <1>3 DEF SaveInv, Saved

(* A thread begins to change or to save: it is alone, or nobody is.        *)
LEMMA BeginsSave ==
    ASSUME TypeInv, SaveInv, NEW t \in Thread, at[t] \notin Busy,
           NEW place \in {"changed", "cleared"}, Goes(t, place), Begins(t),
           UNCHANGED file, place = "cleared" => rel' = None
    PROVE  SaveInv'
<1>1. \A u \in Thread : at'[u] = IF u = t THEN place ELSE at[u]
  BY DEF Goes, TypeInv, TypeOK
<1>2. Working' = Working \union {t}
  BY <1>1 DEF Working, Busy
<1>3. CASE Working = {}
  <2>1. Working' = {t} /\ overlaps' = {} /\ raced' = raced
    BY <1>2, <1>3 DEF Begins, SaveInv
  <2>2. LoneOK(t)'
    BY <1>1, <2>1 DEF LoneOK
  <2> QED
    BY <2>1, <2>2 DEF SaveInv, Lone
<1>4. CASE Working # {}
  <2>1. overlaps' = overlaps \union Working \union {t} /\ raced' = TRUE
    BY <1>4 DEF Begins
  <2>2. overlaps' = Working'
    BY <1>2, <2>1 DEF SaveInv
  <2> QED
    BY <2>1, <2>2 DEF SaveInv, Lone
<1> QED
  BY <1>3, <1>4

(* A working thread goes on.                                               *)
LEMMA MovesSave ==
    ASSUME TypeInv, SaveInv, NEW t \in Working, NEW place \in Busy, Goes(t, place),
           UNCHANGED <<overlaps, raced>>, file'.state = "none" => file'.links = None,
           (Lone(t) /\ Working' = {t}) => LoneOK(t)'
    PROVE  SaveInv'
<1>0. t \in Thread
  BY DEF Working
<1>1. \A u \in Thread : at'[u] = IF u = t THEN place ELSE at[u]
  BY <1>0 DEF Goes, TypeInv, TypeOK
<1>2. Working' = Working
  BY <1>1 DEF Working, Busy
<1>3. \A u \in Thread : Lone(u)' => LoneOK(u)'
  <2> SUFFICES ASSUME NEW u \in Thread, Lone(u)' PROVE LoneOK(u)'
    OBVIOUS
  <2>1. Lone(u) /\ Working = {u}
    BY <1>2 DEF Lone, SaveInv, LoneOK
  <2>2. u = t
    BY <2>1
  <2> QED
    BY <1>2, <2>1, <2>2
<1> QED
  BY <1>2, <1>3 DEF SaveInv

(* A working thread ends: if it was alone and all went well, it has left   *)
(* file and memory the same.                                               *)
LEMMA EndsSave ==
    ASSUME TypeInv, SaveInv, NEW t \in Working, NEW good \in BOOLEAN,
           Goes(t, "idle"), Ends(t, good),
           file'.state = "none" => file'.links = None,
           (Lone(t) /\ LoneOK(t) /\ good /\ ~mixed') => Saved'
    PROVE  SaveInv'
<1>0. t \in Thread
  BY DEF Working
<1>1. \A u \in Thread : at'[u] = IF u = t THEN "idle" ELSE at[u]
  BY <1>0 DEF Goes, TypeInv, TypeOK
<1>2. Working' = Working \ {t}
  BY <1>1 DEF Working, Busy
<1>3. overlaps' = overlaps \ {t} /\ raced' = IF good THEN raced /\ t \in overlaps ELSE TRUE
  BY DEF Ends
<1>4. CASE Lone(t)
  <2>1. LoneOK(t) /\ Working = {t} /\ t \notin overlaps
    BY <1>0, <1>4 DEF SaveInv, LoneOK, Lone
  <2>2. Working' = {} /\ overlaps' = {}
    BY <1>2, <1>3, <2>1 DEF SaveInv
  <2> QED
    BY <1>3, <1>4, <2>1, <2>2 DEF SaveInv, Lone
<1>5. CASE ~Lone(t)
  <2>1. t \in overlaps /\ raced
    BY <1>5 DEF Lone, SaveInv
  <2>2. raced'
    BY <1>3, <2>1
  <2>3. \A u \in Thread : ~Lone(u)'
    <3> SUFFICES ASSUME NEW u \in Thread, Lone(u)' PROVE FALSE
      OBVIOUS
    <3>1. Lone(u) /\ u # t
      BY <1>2, <1>3 DEF Lone
    <3>2. Working = {u}
      BY <3>1 DEF SaveInv, LoneOK
    <3> QED
      BY <3>1, <3>2
  <2> QED
    BY <1>2, <1>3, <2>2, <2>3 DEF SaveInv
<1> QED
  BY <1>4, <1>5

LEMMA StepSave ==
    ASSUME TypeInv, SaveInv, NEW t \in Thread, Step(t)
    PROVE  SaveInv'
<1>0. TypeOK /\ file \in File /\ (file.state = "none" => file.links = None)
  BY DEF TypeInv, TypeOK, File, SaveInv
<1>1. ASSUME NEW p \in Persona, Call(t, p) \/ \E place \in Calling : Find(t, place, p)
      PROVE  SaveInv'
  <2>1. PICK place \in Calling \union {"called", "idle"} : Goes(t, place)
    BY <1>1 DEF Call, Find
  <2>2. \A u \in Thread : at'[u] = IF u = t THEN place ELSE at[u]
    BY <1>0, <2>1 DEF Goes, TypeOK
  <2>3. at[t] \notin Busy /\ place \notin Busy
    BY <1>1 DEF Call, Find, Busy, Calling
  <2> QED
    BY <1>1, <2>2, <2>3, QuietSave DEF Call, Find, History
<1>2. CASE \E new : at[t] \in Calling /\ Becomes(t, new)
  <2>1. Goes(t, "changed") /\ Begins(t) /\ UNCHANGED file /\ at[t] \notin Busy
    BY <1>2 DEF Becomes, Calling, Busy
  <2> QED
    BY <2>1, BeginsSave
<1>3. CASE Nothing(t)
  <2>1. \A u \in Thread : at'[u] = IF u = t THEN "idle" ELSE at[u]
    BY <1>0, <1>3 DEF Nothing, Goes, TypeOK
  <2>2. at[t] \notin Busy
    BY <1>3 DEF Nothing, Busy
  <2> QED
    BY <1>3, <2>1, <2>2, QuietSave DEF Nothing, Busy, History
<1>4. CASE AdminSave(t)
  <2>1. Goes(t, "changed") /\ Begins(t) /\ UNCHANGED file /\ at[t] \notin Busy
    BY <1>4 DEF AdminSave, Busy
  <2> QED
    BY <2>1, BeginsSave
<1>5. CASE Copy(t)
  <2>1. t \in Working /\ Goes(t, "copied") /\ at'[t] = "copied" /\ UNCHANGED rel
        /\ copy'[t] = [k \in Kind |-> rel[k] \intersect Link]
    BY <1>0, <1>5 DEF Copy, Working, Goes, TypeOK
  <2>2. ByAccount(copy'[t]) = ByAccount(rel')
    BY <1>0, <2>1, PayloadSaved
  <2>3. Working' = {t} => LoneOK(t)'
    BY <2>1, <2>2 DEF LoneOK
  <2> QED
    BY <1>0, <1>5, <2>1, <2>3, MovesSave DEF Copy, Busy, History
<1>6. CASE Open(t)
  <2>1. t \in Working /\ Goes(t, "opened") /\ at'[t] = "opened" /\ file'.state = "empty"
    BY <1>0, <1>6 DEF Open, Working, Goes, TypeOK
  <2>2. Lone(t) => ByAccount(copy[t]) = ByAccount(rel)
    BY <1>6 DEF Open, SaveInv, LoneOK
  <2>3. UNCHANGED <<rel, copy, overlaps, raced>>
    BY <1>6 DEF Open, History
  <2>4. (Lone(t) /\ Working' = {t}) => LoneOK(t)'
    BY <2>1, <2>2, <2>3 DEF LoneOK, ByAccount
  <2> QED
    BY <2>1, <2>3, <2>4, MovesSave DEF Busy
<1>7. CASE Write(t)
  <2>1. t \in Working /\ Goes(t, "idle") /\ Ends(t, TRUE)
    BY <1>7 DEF Write, Working
  <2>2. file'.state # "none"
    BY <1>7 DEF Write
  <2>3. LoneOK(t) => Saved'
    BY <1>7 DEF Write, LoneOK, Saved
  <2> QED
    BY <2>1, <2>2, <2>3, EndsSave
<1>8. CASE WriteFails(t)
  <2>1. t \in Working /\ Goes(t, "idle") /\ Ends(t, FALSE) /\ UNCHANGED file
    BY <1>8 DEF WriteFails, Working
  <2> QED
    BY <1>0, <2>1, EndsSave
<1>9. CASE Clear(t)
  <2>1. Goes(t, "cleared") /\ Begins(t) /\ UNCHANGED file /\ rel' = None /\ at[t] \notin Busy
    BY <1>9 DEF Clear, Busy
  <2> QED
    BY <2>1, BeginsSave
<1>10. CASE Read(t)
  <2>1. t \in Working /\ Goes(t, "read") /\ at'[t] = "read" /\ copy'[t] = file.links
    BY <1>0, <1>10 DEF Read, Working, Goes, TypeOK
  <2>2. Lone(t) => rel = None
    BY <1>10 DEF Read, SaveInv, LoneOK
  <2>3. (Lone(t) /\ Working' = {t}) => LoneOK(t)'
    BY <1>10, <2>1, <2>2 DEF Read, LoneOK
  <2> QED
    BY <1>0, <1>10, <2>1, <2>3, MovesSave DEF Read, Busy, History
<1>11. CASE ReadFails(t)
  <2>1. t \in Working /\ Goes(t, "idle") /\ Ends(t, file.state = "none") /\ UNCHANGED <<file, rel>>
    BY <1>11 DEF ReadFails, Working
  <2>2. (LoneOK(t) /\ file.state = "none") => Saved'
    BY <1>0, <1>11, <2>1 DEF ReadFails, LoneOK, Saved
  <2> QED
    BY <1>0, <2>1, <2>2, EndsSave
<1>12. CASE Install(t)
  <2>1. t \in Working /\ Goes(t, "idle") /\ Ends(t, TRUE) /\ UNCHANGED file
    BY <1>12 DEF Install, Working
  <2>2. (LoneOK(t) /\ ~mixed') => Saved'
    <3> SUFFICES ASSUME LoneOK(t), ~mixed' PROVE Saved'
      OBVIOUS
    <3>1. PICK r \in Loaded(seen[t], copy[t]) :
             rel' = [k \in Kind |-> Updated(rel[k], r[k])]
      BY <1>12 DEF Install
    <3>2. at[t] = "read" /\ rel = None /\ copy[t] = file.links /\ file.state = "whole"
      BY <1>12 DEF Install, LoneOK
    <3>3. \A k \in Kind : rel'[k] = r[k]
      BY <3>1, <3>2 DEF Updated, None
    <3>4. ~Merges(seen[t], copy[t])
      BY <1>12 DEF Install
    <3>5. ByAccount(r) = ByAccount(file.links)
      BY <1>0, <3>1, <3>2, <3>4, LoadedSome DEF TypeOK
    <3>6. ByAccount(rel') = ByAccount(r)
      BY <3>3 DEF ByAccount
    <3> QED
      BY <2>1, <3>2, <3>5, <3>6 DEF Saved, ByAccount
  <2> QED
    BY <1>0, <2>1, <2>2, EndsSave
<1> QED
  BY <1>1, <1>2, <1>3, <1>4, <1>5, <1>6, <1>7, <1>8, <1>9, <1>10, <1>11, <1>12
     DEF Step, Block, Accept, Keep, Ask, Remove, Unblock, Calling

LEMMA SaveStep == TypeInv /\ SaveInv /\ [Next]_vars => SaveInv'
<1> SUFFICES ASSUME TypeInv, SaveInv, [Next]_vars PROVE SaveInv'
  OBVIOUS
<1>1. CASE Restart
  <2>1. Working' = {} /\ overlaps' = {}
    BY <1>1 DEF Restart, Working
  <2>2. file.links \in Links /\ UNCHANGED file /\ (file.state = "none" => file.links = None)
    BY <1>1 DEF Restart, TypeInv, TypeOK, SaveInv
  <2>3. (~raced' /\ ~mixed') => Saved'
    <3> SUFFICES ASSUME ~raced', ~mixed' PROVE Saved'
      OBVIOUS
    <3>1. /\ file.state \in {"none", "whole"}
          /\ ~Merges(<<{}>>, file.links)
          /\ rel' \in Loaded(<<{}>>, file.links)
      BY <1>1 DEF Restart, SaveInv, Saved
    <3>2. ByAccount(file.links) = ByAccount(rel')
      BY <2>2, <3>1, LoadedSome
    <3> QED
      BY <2>2, <3>1, <3>2 DEF Saved, ByAccount
  <2> QED
    BY <2>1, <2>2, <2>3 DEF SaveInv, Lone
<1>2. CASE UNCHANGED <<rel, file, at, copy, overlaps, raced, mixed>>
  BY <1>2, QuietSave
<1> QED
  BY <1>1, <1>2, StepSave DEF Next, Login, Logout, History, vars

(* When nobody is in a call, the file says what memory says, unless calls  *)
(* have met or the disk has failed since a call last saved alone, or a     *)
(* load has joined two sets.                                               *)
THEOREM OnDiskCorrect == Spec => []OnDisk
<1>1. TypeInv /\ SaveInv /\ [Next]_vars => SaveInv'
  BY SaveStep
<1>2. SaveInv => OnDisk
  BY DEF SaveInv, Saved, OnDisk, Working
<1> QED
  BY <1>1, <1>2, InitSave, Types, PTL DEF Spec
=============================================================================
