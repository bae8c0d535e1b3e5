-------------------------- MODULE Accounts_proofs --------------------------
(***************************************************************************)
(* Proofs about Accounts, for any number of threads, any names, requests   *)
(* and lists written by hand, and any settings: the types, what the file   *)
(* keeps, which accounts may be twins, and how many wrong passwords are    *)
(* tried in the time of a lockout.                                         *)
(***************************************************************************)
EXTENDS Accounts, FiniteSetTheorems, TLAPS

(***************************************************************************)
(* The limiter's lists.                                                    *)
(***************************************************************************)
LEMMA Settings ==
    /\ Limit \in Nat \ {0} /\ Lockout \in Nat /\ Kept \in Nat /\ Kept >= 2 * Limit
    /\ Memory \in Nat /\ Lockout <= Memory
BY AccountsAssumption DEF Memory

LEMMA ListsFinite ==
    ASSUME TypeOK, NEW i \in Id
    PROVE  /\ IsFiniteSet(tries[i])
           /\ \A S \in SUBSET tries[i] : IsFiniteSet(S) /\ Cardinality(S) \in Nat
           /\ failures[i] \in SUBSET tries[i]
           /\ tries[i] \in SUBSET Stamp /\ failures[i] \in SUBSET Stamp
           /\ Cardinality(failures[i]) \in Nat /\ Cardinality(failures[i]) <= Kept
<1>1. /\ IsFiniteSet(tries[i]) /\ failures[i] \in SUBSET tries[i]
      /\ tries[i] \in SUBSET Stamp /\ failures[i] \in SUBSET Stamp
      /\ Cardinality(failures[i]) <= Kept
  BY DEF TypeOK
<1>2. \A S \in SUBSET tries[i] : IsFiniteSet(S) /\ Cardinality(S) \in Nat
  BY <1>1, FS_Subset, FS_CardinalityType
<1> QED
  BY <1>1, <1>2

(* What is recent is some of what is kept. *)
LEMMA RecentOK ==
    ASSUME TypeOK, NEW i \in Id
    PROVE  /\ Recent(i) \in SUBSET Stamp
           /\ Recent(i) \in SUBSET failures[i]
           /\ Recent(i) \in SUBSET tries[i]
           /\ IsFiniteSet(Recent(i))
           /\ Cardinality(Recent(i)) \in Nat /\ Cardinality(Recent(i)) <= Kept
<1>1. Recent(i) \in SUBSET failures[i]
  BY DEF Recent, Within
<1>2. IsFiniteSet(failures[i])
  BY ListsFinite
<1>3. Cardinality(Recent(i)) <= Cardinality(failures[i])
  BY <1>1, <1>2, FS_Subset
<1>4. Recent(i) \in SUBSET tries[i] /\ Recent(i) \in SUBSET Stamp
  BY <1>1, ListsFinite
<1>5. IsFiniteSet(Recent(i)) /\ Cardinality(Recent(i)) \in Nat
  BY <1>4, ListsFinite
<1>6. Cardinality(Recent(i)) <= Kept
  <2>1. Cardinality(failures[i]) \in Nat /\ Cardinality(failures[i]) <= Kept
    BY ListsFinite
  <2>2. Kept \in Nat
    BY Settings
  <2> QED
    BY <1>3, <1>5, <2>1, <2>2
<1> QED
  BY <1>1, <1>4, <1>5, <1>6

LEMMA NewStampOK ==
    ASSUME TypeOK, NEW i \in Id
    PROVE  NewStamp(i) \in Stamp /\ NewStamp(i)[1] = clock
<1>1. Cardinality({s \in tries[i] : s[1] = clock}) \in Nat
  BY ListsFinite
<1> QED
  BY <1>1 DEF NewStamp, Stamp, TypeOK

(* Noting a failure changes one list, which becomes some of what was       *)
(* recent and the new stamp, and no longer than it may be.                 *)
LEMMA NotedOK ==
    ASSUME TypeOK, NEW i \in Id, NotedFailure(i)
    PROVE  /\ failures' \in [Id -> SUBSET Stamp] /\ tries' \in [Id -> SUBSET Stamp]
           /\ \A j \in Id \ {i} : failures'[j] = failures[j] /\ tries'[j] = tries[j]
           /\ tries'[i] = tries[i] \union {NewStamp(i)}
           /\ IsFiniteSet(tries'[i])
           /\ failures'[i] \in Newest(Recent(i) \union {NewStamp(i)})
           /\ failures'[i] \subseteq Recent(i) \union {NewStamp(i)}
           /\ Cardinality(failures'[i]) <= Kept
<1> DEFINE N == Recent(i) \union {NewStamp(i)}
<1>1. PICK S \in Newest(N) : failures' = [failures EXCEPT ![i] = S]
  BY DEF NotedFailure
<1>2. N \in SUBSET Stamp
  BY NewStampOK, RecentOK
<1>3. tries' = [tries EXCEPT ![i] = tries[i] \union {NewStamp(i)}]
  BY DEF NotedFailure
<1>4. IsFiniteSet(tries[i] \union {NewStamp(i)})
  BY ListsFinite, FS_AddElement
<1> HIDE DEF N
<1>5. S \subseteq N /\ Cardinality(S) <= Kept
  BY <1>1, AccountsAssumption DEF Newest
<1>6. S \in SUBSET Stamp /\ tries[i] \union {NewStamp(i)} \in SUBSET Stamp
  BY <1>2, <1>5, NewStampOK, ListsFinite
<1> QED
  BY <1>1, <1>3, <1>4, <1>5, <1>6 DEF TypeOK, N

(* Nor does forgetting make a list longer. *)
LEMMA ForgetOK ==
    ASSUME TypeOK, NEW i \in Id, NEW S \in SUBSET failures[i]
    PROVE  /\ [failures EXCEPT ![i] = S] \in [Id -> SUBSET Stamp]
           /\ \A j \in Id : /\ [failures EXCEPT ![i] = S][j] \subseteq failures[j]
                            /\ Cardinality([failures EXCEPT ![i] = S][j]) <= Kept
<1>1. failures[i] \in SUBSET Stamp /\ Cardinality(failures[i]) <= Kept
  BY DEF TypeOK
<1>2. Cardinality(S) <= Kept
  <2>1. IsFiniteSet(failures[i])
    BY ListsFinite
  <2>2. /\ Cardinality(S) <= Cardinality(failures[i])
        /\ Cardinality(S) \in Nat /\ Cardinality(failures[i]) \in Nat
    BY <2>1, FS_Subset, FS_CardinalityType
  <2> QED
    BY <1>1, <2>2, AccountsAssumption
<1> QED
  BY <1>1, <1>2 DEF TypeOK

-----------------------------------------------------------------------------
(***************************************************************************)
(* Types.                                                                  *)
(***************************************************************************)
LEMMA Given ==
    /\ \A r \in Request : /\ r.as \in Id /\ r.as \in r.names
                          /\ r.names \in (SUBSET Id) \ {{}} /\ r.pass \in Pass
    /\ ByHand \subseteq Seq(Account)
<1>1. \A r \in Request : r \in [as : Id, names : SUBSET Id, pass : Pass] /\ r.as \in r.names
  BY AccountsAssumption
<1>2. ByHand \subseteq Seq(Account)
  BY AccountsAssumption
<1> QED
  BY <1>1, <1>2

LEMMA LoadedOK == TypeOK => Parsed \in Seq(Account) /\ Loaded \in Seq(Account)
BY DEF TypeOK, Parsed, Loaded

LEMMA NewAccountOK ==
    ASSUME TypeOK, NEW t \in Thread
    PROVE  NewAccount(t) \in Account
<1>1. job[t] \in Request /\ Via(t) \in {"create", "enroll", "hand"}
  BY DEF TypeOK, Via
<1> QED
  BY <1>1, Given DEF NewAccount, Account

LEMMA InitTypes == Init => TypeOK
<1> SUFFICES ASSUME Init PROVE TypeOK
  OBVIOUS
<1>1. file \in [state : {"none", "whole", "broken"}, list : Seq(Account)]
  <2>1. CASE file = [state |-> "none", list |-> <<>>]
    BY <2>1
  <2>2. CASE file \in [state : {"whole"}, list : ByHand]
    BY <2>2, Given
  <2> QED
    BY <2>1, <2>2 DEF Init
<1>2. \A i \in Id : /\ failures[i] = {} /\ Cardinality(failures[i]) <= Kept
                   /\ tries[i] = {} /\ IsFiniteSet(tries[i])
  BY FS_EmptySet, AccountsAssumption DEF Init
<1>3. job \in [Thread -> Request]
  BY AccountsAssumption DEF Init
<1>4. left \in [{"calls", "events"} -> Nat]
  BY AccountsAssumption DEF Init
<1>5. cache \in Seq(Account) /\ list \in [Thread -> Seq(Account)]
  BY DEF Init
<1>6. {failures, tries} \subseteq [Id -> SUBSET Stamp] /\ clock \in 0 .. MaxTime
  BY AccountsAssumption DEF Init
<1>7. at \in [Thread -> Places] /\ newer \in BOOLEAN /\ raced \in BOOLEAN
  BY DEF Init, Places
<1> QED
  BY <1>1, <1>2, <1>3, <1>4, <1>5, <1>6, <1>7 DEF Init, TypeOK

(* What the steps do to the lists of failures: nothing, or a forgetting, or *)
(* a failure of one identifier.                                            *)
FailuresOK == /\ {failures', tries'} \subseteq [Id -> SUBSET Stamp]
              /\ \A i \in Id : /\ IsFiniteSet(tries'[i])
                               /\ failures'[i] \subseteq tries'[i]
                               /\ Cardinality(failures'[i]) <= Kept

LEMMA FailuresStep ==
    ASSUME TypeOK, NEW i \in Id, NotNoted \/ NotedFailure(i) \/ NotedSuccess(i)
    PROVE  FailuresOK
<1>1. CASE NotNoted
  BY <1>1 DEF NotNoted, TypeOK, FailuresOK
<1>2. CASE NotedFailure(i)
  <2>1. failures'[i] \subseteq tries'[i]
    BY <1>2, NotedOK, RecentOK
  <2>2. \A j \in Id : /\ IsFiniteSet(tries'[j]) /\ failures'[j] \subseteq tries'[j]
                     /\ Cardinality(failures'[j]) <= Kept
    BY <1>2, <2>1, NotedOK DEF TypeOK
  <2> QED
    BY <1>2, <2>2, NotedOK DEF FailuresOK
<1>3. CASE NotedSuccess(i)
  <2>1. /\ failures' = [failures EXCEPT ![i] = {}]
        /\ tries' = [tries EXCEPT ![i] = {}]
    BY <1>3 DEF NotedSuccess
  <2>2. Cardinality({}) <= Kept /\ IsFiniteSet({})
    BY FS_EmptySet, AccountsAssumption
  <2> QED
    BY <2>1, <2>2 DEF FailuresOK, TypeOK
<1> QED
  BY <1>1, <1>2, <1>3

(* A frame of thread t is of a request with a known identifier. *)
LEMMA JobOK == ASSUME TypeOK, NEW t \in Thread PROVE job[t].as \in Id
BY AccountsAssumption DEF TypeOK

LEMMA SpendsOK ==
    ASSUME TypeOK, NEW what \in {"calls", "events"}, Spends(what)
    PROVE  left' \in [{"calls", "events"} -> Nat]
<1>1. left[what] - 1 \in Nat
  BY DEF TypeOK, Spends
<1> QED
  BY <1>1 DEF TypeOK, Spends

LEMMA TypeStep == TypeOK /\ [Next]_vars => TypeOK'
<1> SUFFICES ASSUME TypeOK, [Next]_vars PROVE TypeOK'
  OBVIOUS
<1>1. ASSUME NEW t \in Thread, NEW r \in Request, CreateAccount(t, r) \/ Authenticate(t, r)
      PROVE  TypeOK'
  <2>1. left' \in [{"calls", "events"} -> Nat]
    BY <1>1, SpendsOK DEF CreateAccount, Authenticate
  <2> QED
    BY <1>1, <2>1 DEF CreateAccount, Authenticate, Goes, TypeOK, Places
<1>2. ASSUME NEW t \in Thread, LoadToCreate(t) \/ LoadToLogin(t) PROVE TypeOK'
  BY <1>2, LoadedOK DEF LoadToCreate, LoadToLogin, Load, Goes, TypeOK, Places
<1>3. ASSUME NEW t \in Thread, Check(t) PROVE TypeOK'
  BY <1>3 DEF Check, Goes, TypeOK, Places
<1>4. ASSUME NEW t \in Thread, CheckRate(t) PROVE TypeOK'
  <2>1. FailuresOK
    <3>1. PICK i \in Id : i = job[t].as
      BY JobOK
    <3>2. /\ failures' = [failures EXCEPT ![i] = Recent(i)]
          /\ tries' = tries
      BY <1>4, <3>1 DEF CheckRate
    <3>3. /\ failures' \in [Id -> SUBSET Stamp]
          /\ \A j \in Id : /\ failures'[j] \subseteq failures[j]
                           /\ Cardinality(failures'[j]) <= Kept
      BY <3>2, ForgetOK, RecentOK
    <3> QED
      BY <3>2, <3>3 DEF FailuresOK, TypeOK
  <2> QED
    BY <1>4, <2>1 DEF CheckRate, Goes, TypeOK, Places, FailuresOK
<1>5. ASSUME NEW t \in Thread, Match(t) PROVE TypeOK'
  <2>1. FailuresOK
    BY <1>5, JobOK, FailuresStep DEF Match
  <2> QED
    BY <1>5, <2>1 DEF Match, Goes, TypeOK, Places, FailuresOK
<1>6. ASSUME NEW t \in Thread, NoMatch(t) PROVE TypeOK'
  <2>1. FailuresOK
    BY <1>6, JobOK, FailuresStep DEF NoMatch
  <2> QED
    BY <1>6, <2>1 DEF NoMatch, Goes, TypeOK, Places, FailuresOK
<1>7. ASSUME NEW t \in Thread, Save(t) PROVE TypeOK'
  <2>1. FailuresOK
    BY <1>7, JobOK, FailuresStep DEF Save
  <2>2. NewAccount(t) \in Account /\ list[t] \in Seq(Account)
    BY NewAccountOK DEF TypeOK
  <2>3. Append(list[t], NewAccount(t)) \in Seq(Account)
    BY <2>2
  <2>4. beaten' \subseteq Thread /\ made' \subseteq Account /\ raced' \in BOOLEAN
    BY <1>7, <2>2 DEF Save, Loading, TypeOK
  <2> QED
    BY <1>7, <2>1, <2>3, <2>4 DEF Save, Goes, TypeOK, Places, FailuresOK
<1>8. ASSUME NEW t \in Thread, SaveFails(t) PROVE TypeOK'
  <2>1. FailuresOK
    BY <1>8, JobOK, FailuresStep DEF SaveFails
  <2> QED
    BY <1>8, <2>1, SpendsOK DEF SaveFails, Goes, TypeOK, Places, FailuresOK
<1>9. CASE EditBegins
  <2>1. left' \in [{"calls", "events"} -> Nat]
    BY <1>9, SpendsOK DEF EditBegins
  <2> QED
    BY <1>9, <2>1 DEF EditBegins, Loading, TypeOK
<1>10. CASE EditEnds
  BY <1>10, Given DEF EditEnds, Loading, TypeOK
<1>11. CASE Restart
  <2>1. FailuresOK
    BY <1>11, FS_EmptySet, AccountsAssumption DEF Restart, FailuresOK
  <2> QED
    BY <1>11, <2>1, SpendsOK DEF Restart, TypeOK, Places, FailuresOK
<1>12. CASE Tick
  BY <1>12, AccountsAssumption DEF Tick, TypeOK
<1>13. CASE UNCHANGED vars
  BY <1>13 DEF vars, TypeOK
<1> QED
  BY <1>1, <1>2, <1>3, <1>4, <1>5, <1>6, <1>7, <1>8, <1>9, <1>10, <1>11, <1>12,
     <1>13 DEF Next

(* The types of the variables: in particular no list of failures is longer *)
(* than the code keeps it (_auth_note_failure).                            *)
THEOREM TypeCorrect == Spec => []TypeOK
BY InitTypes, TypeStep, PTL DEF Spec

-----------------------------------------------------------------------------
(***************************************************************************)
(* What the file keeps.                                                    *)
(***************************************************************************)
Holds(accounts, a) == \E k \in DOMAIN accounts : accounts[k] = a

(* AccountsKept, also while the file cannot be read, with what it rests on: *)
(* the cache is the file unless the file's time is another one, and so is  *)
(* the list of a thread that nobody has beaten.                            *)
KeptInv ==
    /\ ~raced => \A a \in made : Holds(file.list, a)
    /\ file.state = "none" => file.list = <<>>
    /\ file.state = "whole" /\ ~newer => cache = file.list
    /\ \A t \in Loading \ beaten : /\ file.state # "broken"
                                   /\ list[t] = Parsed

LEMMA AppendHolds ==
    ASSUME NEW accounts \in Seq(Account), NEW new \in Account,
           NEW a, a = new \/ Holds(accounts, a)
    PROVE  Holds(Append(accounts, new), a)
<1>1. CASE a = new
  <2>1. Len(accounts) + 1 \in DOMAIN Append(accounts, new)
    OBVIOUS
  <2>2. Append(accounts, new)[Len(accounts) + 1] = new
    OBVIOUS
  <2> QED
    BY <1>1, <2>1, <2>2 DEF Holds
<1>2. CASE Holds(accounts, a)
  <2>1. PICK k \in DOMAIN accounts : accounts[k] = a
    BY <1>2 DEF Holds
  <2>2. k \in DOMAIN Append(accounts, new) /\ Append(accounts, new)[k] = a
    BY <2>1
  <2> QED
    BY <2>2 DEF Holds
<1> QED
  BY <1>1, <1>2

LEMMA KeptStep == TypeOK /\ KeptInv /\ [Next]_vars => KeptInv'
<1> SUFFICES ASSUME TypeOK, KeptInv, [Next]_vars PROVE KeptInv'
  OBVIOUS
<1> DEFINE Same == UNCHANGED <<file, newer, cache, list, beaten, made, raced>>
(* A step that no thread loads or saves in. *)
<1>0. ASSUME Same, Loading' \subseteq Loading PROVE KeptInv'
  BY <1>0 DEF KeptInv, Parsed
<1>1. ASSUME NEW t \in Thread, NEW r \in Request, CreateAccount(t, r) \/ Authenticate(t, r)
      PROVE  KeptInv'
  <2>1. Same /\ \E p \in {"create", "limited"} : at' = [at EXCEPT ![t] = p]
    BY <1>1 DEF CreateAccount, Authenticate, Goes
  <2>2. Loading' \subseteq Loading
    BY <2>1 DEF Loading, TypeOK
  <2> QED
    BY <1>0, <2>1, <2>2
<1>2. ASSUME NEW t \in Thread, LoadToCreate(t) \/ LoadToLogin(t) PROVE KeptInv'
  <2>1. /\ list' = [list EXCEPT ![t] = Loaded] /\ cache' = Loaded
        /\ newer' = (file.state = "none")
        /\ beaten' = IF file.state = "broken" THEN beaten \union {t} ELSE beaten \ {t}
        /\ UNCHANGED <<file, made, raced>>
        /\ at' = [at EXCEPT ![t] = "check"] \/ at' = [at EXCEPT ![t] = "match"]
    BY <1>2 DEF LoadToCreate, LoadToLogin, Load, Goes
  <2>2. file.state # "broken" => Loaded = Parsed
    BY DEF Loaded, Parsed, KeptInv, TypeOK
  <2>3. file.state = "whole" /\ ~newer' => cache' = file.list
    BY <2>1, <2>2 DEF Parsed
  <2>4. ASSUME NEW u \in Loading' \ beaten' PROVE file.state # "broken" /\ list'[u] = Parsed
    <3>1. CASE u = t
      BY <2>1, <2>2, <2>4, <3>1 DEF TypeOK, Loading
    <3>2. CASE u # t
      BY <2>1, <2>4, <3>2 DEF TypeOK, Loading, KeptInv
    <3> QED
      BY <3>1, <3>2
  <2>5. Parsed' = Parsed
    BY <2>1 DEF Parsed
  <2> QED
    BY <2>1, <2>3, <2>4, <2>5 DEF KeptInv
<1>3. ASSUME NEW t \in Thread, Check(t) \/ CheckRate(t) \/ Match(t) \/ NoMatch(t) \/ SaveFails(t)
      PROVE  KeptInv'
  <2>1. /\ Same
        /\ \E p \in {"idle", "add", "enroll", "login"} :
              /\ at' = [at EXCEPT ![t] = p]
              /\ p \in {"add", "enroll"} => at[t] \in {"check", "match"}
    BY <1>3 DEF Check, CheckRate, Match, NoMatch, SaveFails, Goes
  <2>2. Loading' \subseteq Loading
    BY <2>1 DEF Loading, TypeOK
  <2> QED
    BY <1>0, <2>1, <2>2
<1>4. ASSUME NEW t \in Thread, Save(t) PROVE KeptInv'
  <2> DEFINE new == Append(list[t], NewAccount(t))
  <2>1. /\ at[t] \in {"add", "enroll"} /\ at' = [at EXCEPT ![t] = "idle"]
        /\ file' = [state |-> "whole", list |-> new] /\ cache' = new
        /\ made' = made \union {NewAccount(t)}
        /\ raced' = (raced \/ t \in beaten)
        /\ beaten' = (beaten \union Loading) \ {t}
    BY <1>4 DEF Save, Goes
  <2>2. ASSUME ~raced', NEW a \in made' PROVE Holds(new, a)
    <3>1. t \in Loading \ beaten /\ ~raced
      BY <2>1, <2>2 DEF Loading
    <3>2. list[t] = Parsed /\ file.state # "broken"
      BY <3>1 DEF KeptInv
    <3>3. list[t] = file.list
      BY <3>2 DEF KeptInv, Parsed, TypeOK
    <3>4. a = NewAccount(t) \/ Holds(list[t], a)
      BY <2>1, <2>2, <3>1, <3>3 DEF KeptInv
    <3>5. list[t] \in Seq(Account) /\ NewAccount(t) \in Account
      BY NewAccountOK DEF TypeOK
    <3> QED
      BY <3>4, <3>5, AppendHolds
  <2>3. Loading' \subseteq beaten'
    BY <2>1 DEF Loading, TypeOK
  <2> HIDE DEF new
  <2> QED
    BY <2>1, <2>2, <2>3 DEF KeptInv
<1>5. CASE EditBegins
  <2>1. /\ file' = [file EXCEPT !.state = "broken"] /\ newer' = TRUE
        /\ beaten' = beaten \union Loading /\ Loading' = Loading
        /\ UNCHANGED <<made, raced>>
    BY <1>5 DEF EditBegins, Loading
  <2>2. file'.state = "broken" /\ file'.list = file.list
    BY <2>1 DEF TypeOK
  <2> QED
    BY <2>1, <2>2 DEF KeptInv
<1>6. CASE EditEnds
  <2>1. /\ file'.state = "whole" /\ newer' = TRUE /\ made' = {}
        /\ beaten' = beaten \union Loading /\ Loading' = Loading
    BY <1>6 DEF EditEnds, Loading
  <2> QED
    BY <2>1 DEF KeptInv
<1>7. CASE Restart
  <2>1. newer' = TRUE /\ UNCHANGED <<file, made, raced>> /\ Loading' = {}
    BY <1>7 DEF Restart, Loading
  <2> QED
    BY <2>1 DEF KeptInv
<1>8. CASE Tick \/ UNCHANGED vars
  BY <1>0, <1>8 DEF Tick, vars, Loading
<1> QED
  BY <1>1, <1>2, <1>3, <1>4, <1>5, <1>6, <1>7, <1>8 DEF Next

(* An account whose owner was told that it is there stays in the file, as  *)
(* long as no thread has saved a list that was not the file's any more.    *)
THEOREM AccountsKeptCorrect == Spec => []AccountsKept
<1>1. Init => KeptInv
  BY DEF Init, KeptInv, Loading
<1>2. KeptInv => AccountsKept
  BY DEF KeptInv, AccountsKept, Holds
<1> QED
  BY <1>1, <1>2, KeptStep, TypeCorrect, PTL DEF Spec

-----------------------------------------------------------------------------
(***************************************************************************)
(* Twins.                                                                  *)
(***************************************************************************)
TwinsOK(accounts) ==
    \A i, j \in DOMAIN accounts :
        (i < j /\ Shared(accounts[i], accounts[j])) => accounts[j].via = "enroll"

(* NoTwins, of the file and of every list it may come from; and whoever is *)
(* about to add an account has seen that its names are free in the list.   *)
TwinsInv ==
    /\ TwinsOK(file.list)
    /\ TwinsOK(cache)
    /\ \A t \in Thread : /\ TwinsOK(list[t])
                         /\ at[t] = "add" => ~Exists(list[t], job[t])

LEMMA AppendTwins ==
    ASSUME NEW accounts \in Seq(Account), NEW new \in Account, TwinsOK(accounts),
           \/ new.via = "enroll"
           \/ \A i \in DOMAIN accounts : ~Shared(accounts[i], new)
    PROVE  TwinsOK(Append(accounts, new))
<1> DEFINE all == Append(accounts, new)
           n == Len(accounts)
<1> SUFFICES ASSUME NEW i \in DOMAIN all, NEW j \in DOMAIN all, i < j,
                    Shared(all[i], all[j])
             PROVE  all[j].via = "enroll"
  BY DEF TwinsOK
<1>1. /\ n \in Nat /\ DOMAIN all = 1 .. n + 1 /\ DOMAIN accounts = 1 .. n
      /\ all[n + 1] = new /\ \A k \in 1 .. n : all[k] = accounts[k]
  OBVIOUS
<1> HIDE DEF all, n
<1>2. CASE j = n + 1
  <2>1. i \in 1 .. n
    BY <1>1, <1>2
  <2> QED
    BY <1>1, <1>2, <2>1
<1>3. CASE j # n + 1
  <2>1. i \in 1 .. n /\ j \in 1 .. n
    BY <1>1, <1>3
  <2> QED
    BY <1>1, <2>1 DEF TwinsOK
<1> QED
  BY <1>2, <1>3

LEMMA ByHandTwins == \A new \in ByHand : TwinsOK(new)
BY AccountsAssumption DEF TwinsOK, Distinct

LEMMA TwinsStep == TypeOK /\ TwinsInv /\ [Next]_vars => TwinsInv'
<1> SUFFICES ASSUME TypeOK, TwinsInv, [Next]_vars PROVE TwinsInv'
  OBVIOUS
<1> DEFINE Same == UNCHANGED <<file, cache, list>>
(* A step in which no list changes and nobody gets ready to add. *)
<1>0. ASSUME Same, \A t \in Thread : at'[t] = "add" =>
                     (at[t] = "add" /\ job'[t] = job[t]) \/ ~Exists(list[t], job'[t])
      PROVE  TwinsInv'
  BY <1>0 DEF TwinsInv
<1>1. ASSUME NEW t \in Thread, NEW r \in Request, CreateAccount(t, r) \/ Authenticate(t, r)
      PROVE  TwinsInv'
  <2>1. /\ Same /\ job' = [job EXCEPT ![t] = r]
        /\ at' = [at EXCEPT ![t] = "create"] \/ at' = [at EXCEPT ![t] = "limited"]
    BY <1>1 DEF CreateAccount, Authenticate, Goes
  <2> QED
    BY <1>0, <2>1 DEF TypeOK
<1>2. ASSUME NEW t \in Thread, LoadToCreate(t) \/ LoadToLogin(t) PROVE TwinsInv'
  <2>1. /\ list' = [list EXCEPT ![t] = Loaded] /\ cache' = Loaded
        /\ UNCHANGED <<file, job>>
        /\ at' = [at EXCEPT ![t] = "check"] \/ at' = [at EXCEPT ![t] = "match"]
    BY <1>2 DEF LoadToCreate, LoadToLogin, Load, Goes
  <2>2. TwinsOK(Loaded)
    <3>1. TwinsOK(<<>>)
      BY DEF TwinsOK
    <3> QED
      BY <3>1 DEF Loaded, Parsed, TwinsInv
  <2> QED
    BY <2>1, <2>2 DEF TwinsInv, TypeOK
<1>3. ASSUME NEW t \in Thread, Check(t) PROVE TwinsInv'
  <2>1. /\ Same /\ job' = job
        /\ at' = [at EXCEPT ![t] = IF Exists(list[t], job[t]) THEN "idle" ELSE "add"]
    BY <1>3 DEF Check, Goes
  <2> QED
    BY <1>0, <2>1 DEF TypeOK
<1>4. ASSUME NEW t \in Thread, CheckRate(t) \/ Match(t) \/ NoMatch(t) \/ SaveFails(t)
      PROVE  TwinsInv'
  <2>1. /\ Same /\ job' = job
        /\ \E p \in {"idle", "enroll", "login"} : at' = [at EXCEPT ![t] = p]
    BY <1>4 DEF CheckRate, Match, NoMatch, SaveFails, Goes
  <2> QED
    BY <1>0, <2>1 DEF TypeOK
<1>5. ASSUME NEW t \in Thread, Save(t) PROVE TwinsInv'
  <2> DEFINE new == Append(list[t], NewAccount(t))
  <2>1. /\ at[t] \in {"add", "enroll"} /\ at' = [at EXCEPT ![t] = "idle"]
        /\ file' = [state |-> "whole", list |-> new] /\ cache' = new
        /\ UNCHANGED <<list, job>>
    BY <1>5 DEF Save, Goes
  <2>2. TwinsOK(new)
    <3>1. list[t] \in Seq(Account) /\ NewAccount(t) \in Account /\ TwinsOK(list[t])
      BY NewAccountOK DEF TypeOK, TwinsInv
    <3>2. CASE at[t] = "enroll"
      BY <3>1, <3>2, AppendTwins DEF NewAccount, Via
    <3>3. CASE at[t] = "add"
      <4>1. ~Exists(list[t], job[t])
        BY <3>3 DEF TwinsInv
      <4>2. NewAccount(t).names = job[t].names
        BY DEF NewAccount
      <4>3. \A i \in DOMAIN list[t] : ~Shared(list[t][i], NewAccount(t))
        BY <4>1, <4>2 DEF Exists, Shared
      <4> QED
        BY <3>1, <4>3, AppendTwins
    <3> QED
      BY <2>1, <3>2, <3>3
  <2> HIDE DEF new
  <2> QED
    BY <2>1, <2>2 DEF TwinsInv, TypeOK
<1>6. CASE EditBegins
  <2>1. file'.list = file.list /\ UNCHANGED <<cache, at, job, list>>
    BY <1>6 DEF EditBegins, TypeOK
  <2> QED
    BY <2>1 DEF TwinsInv
<1>7. CASE EditEnds
  <2>1. file'.list \in ByHand /\ UNCHANGED <<cache, at, job, list>>
    BY <1>7 DEF EditEnds
  <2> QED
    BY <2>1, ByHandTwins DEF TwinsInv
<1>8. CASE Restart
  <2>1. cache' = <<>> /\ UNCHANGED <<file, list>> /\ \A t \in Thread : at'[t] = "idle"
    BY <1>8 DEF Restart
  <2> QED
    BY <2>1 DEF TwinsInv, TwinsOK
<1>9. CASE Tick \/ UNCHANGED vars
  BY <1>0, <1>9 DEF Tick, vars
<1> QED
  BY <1>1, <1>2, <1>3, <1>4, <1>5, <1>6, <1>7, <1>8, <1>9 DEF Next

(* Accounts that were created or written by hand never share an identity   *)
(* with an earlier one of the file, however creations, logins, edits and   *)
(* restarts overlap; only an enrolment may make a twin.                    *)
THEOREM NoTwinsCorrect == Spec => []NoTwins
<1>1. Init => TwinsInv
  <2>1. TwinsOK(<<>>)
    BY DEF TwinsOK
  <2> QED
    BY <2>1, ByHandTwins DEF Init, TwinsInv
<1>2. TwinsInv => NoTwins
  BY DEF TwinsInv, TwinsOK, NoTwins
<1> QED
  BY <1>1, <1>2, TwinsStep, TypeCorrect, PTL DEF Spec

-----------------------------------------------------------------------------
(***************************************************************************)
(* Tries.                                                                  *)
(***************************************************************************)
(* The threads that are past the limiter with a login as i. *)
Past(i) == {t \in Thread : at[t] \in {"login", "match", "enroll"} /\ job[t].as = i}

(* The tries of i in the time of a lockout. *)
Tried(i) == Within(tries[i], Lockout)

(* FewTries, with the tries that are still to come. *)
Tries(i) ==
    Cardinality(Tried(i)) + Cardinality(Past(i)) < Limit + Cardinality(Thread)

TriesInv == \A i \in Id : Tries(i)

LEMMA SizesOK ==
    ASSUME TypeOK, NEW i \in Id
    PROVE  /\ IsFiniteSet(Tried(i)) /\ IsFiniteSet(Past(i))
           /\ Cardinality(Tried(i)) \in Nat /\ Cardinality(Past(i)) \in Nat
           /\ Cardinality(Thread) \in Nat /\ Cardinality(Past(i)) <= Cardinality(Thread)
           /\ Limit \in Nat \ {0} /\ Lockout \in Nat /\ Memory \in Nat /\ Lockout <= Memory
           /\ clock \in Int /\ \A s \in tries[i] : s[1] \in Int
<1>1. Tried(i) \in SUBSET tries[i]
  BY DEF Tried, Within
<1>2. Past(i) \in SUBSET Thread
  BY DEF Past
<1>3. IsFiniteSet(Thread)
  BY AccountsAssumption
<1>4. /\ IsFiniteSet(Tried(i)) /\ Cardinality(Tried(i)) \in Nat
  BY <1>1, ListsFinite
<1>5. /\ IsFiniteSet(Past(i)) /\ Cardinality(Past(i)) \in Nat
      /\ Cardinality(Thread) \in Nat /\ Cardinality(Past(i)) <= Cardinality(Thread)
  BY <1>2, <1>3, FS_Subset, FS_CardinalityType
<1>6. Limit \in Nat \ {0} /\ Lockout \in Nat /\ Memory \in Nat /\ Lockout <= Memory
  BY AccountsAssumption DEF Memory
<1>7. clock \in Int /\ \A s \in tries[i] : s[1] \in Int
  BY DEF TypeOK, Stamp
<1> QED
  BY <1>4, <1>5, <1>6, <1>7

(* Nothing is added. *)
LEMMA NoMoreTries ==
    ASSUME TypeOK, TypeOK', NEW i \in Id, Tries(i),
           Tried(i)' \subseteq Tried(i), Past(i)' \subseteq Past(i)
    PROVE  Tries(i)'
<1> DEFINE W == Tried(i)
           P == Past(i)
<1>1. /\ IsFiniteSet(W) /\ IsFiniteSet(P) /\ Cardinality(W) \in Nat /\ Cardinality(P) \in Nat
      /\ Limit \in Nat /\ Cardinality(Thread) \in Nat
  BY SizesOK
<1>2. /\ Cardinality(W') <= Cardinality(W) /\ Cardinality(P') <= Cardinality(P)
      /\ Cardinality(W') \in Nat /\ Cardinality(P') \in Nat
  <2> HIDE DEF W, P
  <2>1. W' \subseteq W /\ P' \subseteq P
    BY DEF W, P
  <2> QED
    BY <1>1, <2>1, FS_Subset, FS_CardinalityType
<1>3. Cardinality(W) + Cardinality(P) < Limit + Cardinality(Thread)
  BY DEF Tries
<1> HIDE DEF W, P
<1>4. Cardinality(W') + Cardinality(P') < Limit + Cardinality(Thread)
  BY <1>1, <1>2, <1>3
<1> QED
  BY <1>4 DEF Tries, W, P

(* A thread that was past the limiter has failed. *)
LEMMA TryFails ==
    ASSUME TypeOK, TypeOK', NEW i \in Id, Tries(i), NEW t \in Past(i), NEW x,
           Tried(i)' \subseteq Tried(i) \union {x},
           Past(i)' \subseteq Past(i) \ {t}
    PROVE  Tries(i)'
<1> DEFINE W == Tried(i)
           P == Past(i)
<1>1. /\ IsFiniteSet(W) /\ IsFiniteSet(P) /\ Cardinality(W) \in Nat /\ Cardinality(P) \in Nat
      /\ Limit \in Nat /\ Cardinality(Thread) \in Nat
  BY SizesOK
<1>2. Cardinality(W') \in Nat /\ Cardinality(W') <= Cardinality(W) + 1
  <2> HIDE DEF W
  <2>1. W' \subseteq W \union {x}
    BY DEF W
  <2>2. /\ IsFiniteSet(W \union {x}) /\ Cardinality(W \union {x}) <= Cardinality(W) + 1
        /\ Cardinality(W \union {x}) \in Nat
    <3>1. /\ IsFiniteSet(W \union {x})
          /\ Cardinality(W \union {x}) = IF x \in W THEN Cardinality(W) ELSE Cardinality(W) + 1
      BY <1>1, FS_AddElement
    <3> QED
      BY <1>1, <3>1
  <2>3. Cardinality(W') <= Cardinality(W \union {x}) /\ Cardinality(W') \in Nat
    BY <2>1, <2>2, FS_Subset, FS_CardinalityType
  <2> QED
    BY <1>1, <2>2, <2>3
<1>3. Cardinality(P') \in Nat /\ Cardinality(P') + 1 <= Cardinality(P)
  <2> HIDE DEF P
  <2>1. P' \subseteq P \ {t} /\ t \in P
    BY DEF P
  <2>2. IsFiniteSet(P \ {t}) /\ Cardinality(P \ {t}) = Cardinality(P) - 1
    BY <1>1, <2>1, FS_RemoveElement
  <2>3. /\ Cardinality(P') <= Cardinality(P \ {t}) /\ Cardinality(P') \in Nat
    BY <2>1, <2>2, FS_Subset, FS_CardinalityType
  <2> QED
    BY <1>1, <2>2, <2>3
<1>4. Cardinality(W) + Cardinality(P) < Limit + Cardinality(Thread)
  BY DEF Tries
<1> HIDE DEF W, P
<1>5. Cardinality(W') + Cardinality(P') < Limit + Cardinality(Thread)
  BY <1>1, <1>2, <1>3, <1>4
<1> QED
  BY <1>5 DEF Tries, W, P

(* What the limiter has forgotten of the tries of i is too old to matter,  *)
(* or was cut off a full list that has only later ones. *)
Remembered(i) ==
    \A o \in tries[i] \ failures[i] :
        \/ clock - o[1] > Memory
        \/ /\ Cardinality(failures[i]) = Kept
           /\ \A s \in failures[i] : o[1] <= s[1]

LimiterInv == \A i \in Id : /\ \A s \in tries[i] : s[1] <= clock
                            /\ Remembered(i)

LEMMA TimesOK ==
    ASSUME TypeOK, NEW i \in Id
    PROVE  /\ \A s \in tries[i] : s[1] \in Int
           /\ \A s \in failures[i] : s[1] \in Int
           /\ clock \in Int /\ Memory \in Nat /\ Kept \in Nat
<1>1. \A s \in Stamp : s[1] \in Int
  BY DEF Stamp
<1>2. clock \in Int
  BY DEF TypeOK
<1> QED
  BY <1>1, <1>2, ListsFinite, Settings

(* When something has been forgotten that is not too old, all that is kept *)
(* is recent. *)
LEMMA AllRecent ==
    ASSUME TypeOK, NEW i \in Id, NEW o \in tries[i] \ failures[i],
           ~(clock - o[1] > Memory), Remembered(i)
    PROVE  /\ Recent(i) = failures[i] /\ Cardinality(failures[i]) = Kept
           /\ \A s \in failures[i] : o[1] <= s[1] /\ clock - s[1] <= clock - o[1]
<1>1. /\ Cardinality(failures[i]) = Kept
      /\ \A s \in failures[i] : o[1] <= s[1]
  BY DEF Remembered
<1>2. \A s \in failures[i] : clock - s[1] <= clock - o[1] /\ clock - s[1] <= Memory
  BY <1>1, TimesOK
<1> QED
  BY <1>1, <1>2 DEF Recent, Within

(* Whom the limiter lets past has tried less often than the limit. *)
LEMMA NotLimited ==
    ASSUME TypeOK, LimiterInv, NEW i \in Id, ~RateLimited(i)
    PROVE  Cardinality(Tried(i)) < Limit
<1>1. Tried(i) \intersect failures[i] \subseteq Recent(i)
  <2> SUFFICES ASSUME NEW s \in failures[i], clock - s[1] <= Lockout
               PROVE  clock - s[1] <= Memory
    BY DEF Recent, Within, Tried
  <2>1. clock \in Int /\ s[1] \in Int /\ Lockout \in Nat /\ Memory \in Nat /\ Lockout <= Memory
    BY SizesOK, TimesOK
  <2> QED
    BY <2>1
<1>2. ASSUME NEW o \in Tried(i), o \notin failures[i]
      PROVE  /\ Recent(i) = failures[i] /\ Cardinality(Recent(i)) = Kept
             /\ \A s \in Recent(i) : clock - s[1] <= Lockout
  <2>1. o \in tries[i] /\ clock - o[1] <= Lockout
    BY DEF Tried, Within
  <2>2. ~(clock - o[1] > Memory)
    BY <2>1, SizesOK
  <2>3. /\ Recent(i) = failures[i] /\ Cardinality(failures[i]) = Kept
        /\ \A s \in failures[i] : o[1] <= s[1] /\ clock - s[1] <= clock - o[1]
    BY <1>2, <2>1, <2>2, AllRecent DEF LimiterInv
  <2>4. \A s \in failures[i] : clock - s[1] <= Lockout
    BY <2>1, <2>3, SizesOK, TimesOK
  <2> QED
    BY <2>3, <2>4
(* Then the list is full, and more than the limit. *)
<1>3. ASSUME NEW o \in Tried(i), o \notin failures[i] PROVE FALSE
  <2>1. /\ Cardinality(Recent(i)) = Kept
        /\ \A s \in Recent(i) : clock - s[1] <= Lockout
    BY <1>2, <1>3
  <2>2. Cardinality(Recent(i)) >= Limit /\ Recent(i) # {}
    BY <2>1, FS_EmptySet, Settings
  <2> QED
    BY <2>1, <2>2 DEF RateLimited
<1>4. Tried(i) \subseteq Recent(i)
  BY <1>1, <1>3
<1>5. CASE Cardinality(Recent(i)) < Limit
  <2>1. IsFiniteSet(Recent(i)) /\ Cardinality(Recent(i)) \in Nat
    BY RecentOK
  <2>2. Cardinality(Tried(i)) <= Cardinality(Recent(i))
    BY <1>4, <2>1, FS_Subset
  <2> QED
    BY <1>5, <2>1, <2>2, SizesOK
<1>6. CASE \A s \in Recent(i) : ~(clock - s[1] <= Lockout)
  <2>1. Tried(i) = {}
    BY <1>4, <1>6 DEF Tried, Within
  <2> QED
    BY <2>1, FS_EmptySet, SizesOK
<1>7. Cardinality(Recent(i)) \in Nat
  BY RecentOK
<1> QED
  BY <1>5, <1>6, <1>7, SizesOK DEF RateLimited

(* Forgetting what is not recent leaves what is remembered so. *)
LEMMA PruneRemembers ==
    ASSUME TypeOK, LimiterInv, NEW i \in Id, NEW o \in tries[i] \ Recent(i)
    PROVE  \/ clock - o[1] > Memory
           \/ /\ Recent(i) = failures[i] /\ Cardinality(Recent(i)) = Kept
              /\ \A s \in Recent(i) : o[1] <= s[1]
<1>1. CASE o \in failures[i]
  BY <1>1, TimesOK DEF Recent, Within
<1>2. CASE o \notin failures[i]
  BY <1>2, AllRecent DEF LimiterInv
<1> QED
  BY <1>1, <1>2

(* So does noting a failure, which may cut the list. *)
LEMMA FailureRemembers ==
    ASSUME TypeOK, LimiterInv, NEW i \in Id, NotedFailure(i), clock' = clock
    PROVE  /\ \A s \in tries'[i] : s[1] <= clock'
           /\ Remembered(i)'
<1> DEFINE N == Recent(i) \union {NewStamp(i)}
           F == failures'[i]
<1>1. /\ tries'[i] = tries[i] \union {NewStamp(i)}
      /\ F \in Newest(N) /\ F \subseteq N
  BY NotedOK
<1>2. NewStamp(i)[1] = clock /\ clock \in Int
  BY NewStampOK, TimesOK
<1>3. \A s \in tries'[i] : s[1] <= clock'
  BY <1>1, <1>2 DEF LimiterInv
<1>4. \A s \in N : s[1] \in Int /\ s[1] <= clock
  BY <1>2, RecentOK, TimesOK DEF LimiterInv
<1>5. IsFiniteSet(N) /\ Cardinality(N) \in Nat
  <2>1. IsFiniteSet(N)
    BY RecentOK, FS_AddElement
  <2> QED
    BY <2>1, FS_CardinalityType
<1> HIDE DEF N
(* What the cut takes is older than the full list that is left. *)
<1>6. ASSUME NEW o \in N \ F
      PROVE  Cardinality(F) = Kept /\ \A s \in F : o[1] <= s[1]
  BY <1>1, <1>6 DEF Newest
(* What was forgotten before is older than what was recent, and than now.  *)
<1>7. ASSUME NEW o \in tries[i] \ Recent(i), ~(clock - o[1] > Memory), o \notin N
      PROVE  Cardinality(F) = Kept /\ \A s \in F : o[1] <= s[1]
  <2>1. /\ Cardinality(Recent(i)) = Kept
        /\ \A s \in Recent(i) : o[1] <= s[1]
    BY <1>7, PruneRemembers
  <2>2. \A s \in N : o[1] <= s[1]
    BY <1>2, <2>1 DEF N, LimiterInv
  <2>3. Cardinality(F) = Kept
    <3>1. CASE Cardinality(N) <= Kept
      <4>1. F = N
        BY <1>1, <3>1 DEF Newest
      <4>2. Kept <= Cardinality(N)
        BY <1>5, <2>1, FS_Subset DEF N
      <4> QED
        BY <1>5, <3>1, <4>1, <4>2, TimesOK
    <3>2. CASE ~(Cardinality(N) <= Kept)
      BY <1>1, <3>2 DEF Newest
    <3> QED
      BY <3>1, <3>2
  <2> QED
    BY <1>1, <2>2, <2>3
<1>8. Remembered(i)'
  <2> SUFFICES ASSUME NEW o \in tries'[i] \ F, ~(clock - o[1] > Memory)
               PROVE  Cardinality(F) = Kept /\ \A s \in F : o[1] <= s[1]
    BY DEF Remembered, Memory
  <2>1. CASE o \in N
    BY <1>6, <2>1
  <2>2. CASE o \notin N
    <3>1. o \in tries[i] \ Recent(i)
      BY <1>1, <2>2 DEF N
    <3> QED
      BY <1>7, <2>2, <3>1
  <2> QED
    BY <2>1, <2>2
<1> QED
  BY <1>3, <1>8

LEMMA LimiterStep == TypeOK /\ TypeOK' /\ LimiterInv /\ [Next]_vars => LimiterInv'
<1> SUFFICES ASSUME TypeOK, TypeOK', LimiterInv, [Next]_vars PROVE LimiterInv'
  OBVIOUS
<1>1. ASSUME NotNoted, clock' = clock PROVE LimiterInv'
  BY <1>1 DEF NotNoted, LimiterInv, Remembered, Memory
<1>2. ASSUME NEW i \in Id, NotedFailure(i), clock' = clock PROVE LimiterInv'
  <2> SUFFICES ASSUME NEW j \in Id
               PROVE  (\A s \in tries'[j] : s[1] <= clock') /\ Remembered(j)'
    BY DEF LimiterInv
  <2>1. CASE j = i
    <3>1. (\A s \in tries'[i] : s[1] <= clock') /\ Remembered(i)'
      BY <1>2, FailureRemembers
    <3> QED
      BY <2>1, <3>1 DEF Remembered
  <2>2. CASE j # i
    <3>1. failures'[j] = failures[j] /\ tries'[j] = tries[j]
      BY <1>2, <2>2, NotedOK
    <3> QED
      BY <1>2, <3>1 DEF LimiterInv, Remembered, Memory
  <2> QED
    BY <2>1, <2>2
<1>3. ASSUME NEW i \in Id, NotedSuccess(i), clock' = clock PROVE LimiterInv'
  <2>1. /\ tries' = [tries EXCEPT ![i] = {}]
        /\ failures' = [failures EXCEPT ![i] = {}]
    BY <1>3 DEF NotedSuccess
  <2> QED
    BY <1>3, <2>1 DEF TypeOK, LimiterInv, Remembered, Memory
<1>4. ASSUME NEW t \in Thread, CheckRate(t) PROVE LimiterInv'
  <2>1. PICK i \in Id : i = job[t].as
    BY JobOK
  <2>2. /\ failures' = [failures EXCEPT ![i] = Recent(i)]
        /\ tries' = tries /\ clock' = clock
    BY <1>4, <2>1 DEF CheckRate
  <2> SUFFICES ASSUME NEW j \in Id
               PROVE  (\A s \in tries'[j] : s[1] <= clock') /\ Remembered(j)'
    BY DEF LimiterInv
  <2>3. CASE j = i
    <3>1. failures'[j] = Recent(i)
      BY <2>2, <2>3 DEF TypeOK
    <3> QED
      BY <2>2, <2>3, <3>1, PruneRemembers DEF LimiterInv, Remembered, Memory
  <2>4. CASE j # i
    <3>1. failures'[j] = failures[j]
      BY <2>2, <2>4 DEF TypeOK
    <3> QED
      BY <2>2, <3>1 DEF LimiterInv, Remembered, Memory
  <2> QED
    BY <2>3, <2>4
<1>5. CASE Tick
  <2>1. clock' = clock + 1 /\ UNCHANGED <<failures, tries>>
    BY <1>5 DEF Tick
  <2>2. \A i \in Id : \A s \in tries[i] : /\ s[1] <= clock => s[1] <= clock + 1
                                          /\ clock - s[1] > Memory =>
                                                (clock + 1) - s[1] > Memory
    BY TimesOK
  <2> QED
    BY <2>1, <2>2 DEF LimiterInv, Remembered, Memory
<1>6. CASE Restart
  <2>1. \A i \in Id : tries'[i] = {}
    BY <1>6 DEF Restart
  <2> QED
    BY <2>1 DEF LimiterInv, Remembered
<1>7. ASSUME NEW t \in Thread, Match(t) \/ NoMatch(t) \/ Save(t) \/ SaveFails(t)
      PROVE  LimiterInv'
  <2>1. PICK i \in Id : i = job[t].as
    BY JobOK
  <2>2. /\ clock' = clock
        /\ NotNoted \/ NotedFailure(i) \/ NotedSuccess(i)
    BY <1>7, <2>1 DEF Match, NoMatch, Save, SaveFails
  <2> QED
    BY <1>1, <1>2, <1>3, <2>2
<1>8. CASE \/ \E t \in Thread :
                \/ \E r \in Request : CreateAccount(t, r) \/ Authenticate(t, r)
                \/ LoadToCreate(t) \/ Check(t) \/ LoadToLogin(t)
           \/ EditBegins \/ EditEnds \/ UNCHANGED vars
  BY <1>1, <1>8 DEF CreateAccount, Authenticate, LoadToCreate, Check, LoadToLogin,
                    Load, EditBegins, EditEnds, vars, NotNoted
<1> QED
  BY <1>4, <1>5, <1>6, <1>7, <1>8 DEF Next

(* A failure of i noted by a thread that was past the limiter, which ends. *)
LEMMA FailsOK ==
    ASSUME TypeOK, TypeOK', TriesInv, NEW t \in Thread, NEW i, i = job[t].as,
           t \in Past(i), NotedFailure(i), UNCHANGED <<clock, job>>,
           at' = [at EXCEPT ![t] = "idle"]
    PROVE  TriesInv'
<1>0. i \in Id
  BY JobOK
<1> SUFFICES ASSUME NEW j \in Id PROVE Tries(j)'
  BY DEF TriesInv
<1>1. Past(j)' \subseteq Past(j) \ {t}
  BY DEF Past, TypeOK
<1>2. CASE j = i
  <2>1. tries'[i] = tries[i] \union {NewStamp(i)}
    BY <1>0, NotedOK
  <2>2. Tried(i)' \subseteq Tried(i) \union {NewStamp(i)}
    BY <2>1 DEF Within, Tried
  <2> QED
    BY <1>0, <1>1, <1>2, <2>2, TryFails DEF TriesInv
<1>3. CASE j # i
  <2>1. tries'[j] = tries[j]
    BY <1>0, <1>3, NotedOK
  <2>2. Tried(j)' \subseteq Tried(j)
    BY <2>1 DEF Within, Tried
  <2> QED
    BY <1>1, <2>2, NoMoreTries DEF TriesInv
<1> QED
  BY <1>2, <1>3

LEMMA TriesStep ==
    TypeOK /\ TypeOK' /\ LimiterInv /\ TriesInv /\ [Next]_vars => TriesInv'
<1> SUFFICES ASSUME TypeOK, TypeOK', LimiterInv, TriesInv, [Next]_vars PROVE TriesInv'
  OBVIOUS
(* A step in which nothing is added, for any identifier. *)
<1>0. ASSUME \A i \in Id : /\ Tried(i)' \subseteq Tried(i)
                           /\ Past(i)' \subseteq Past(i)
      PROVE  TriesInv'
  BY <1>0, NoMoreTries DEF TriesInv
<1>1. ASSUME UNCHANGED <<tries, clock>>, \A i \in Id : Past(i)' \subseteq Past(i)
      PROVE  TriesInv'
  BY <1>0, <1>1 DEF Tried, Within
(* A step of one thread that goes on to p. *)
<1>2. ASSUME UNCHANGED <<tries, clock>>, NEW t \in Thread, NEW p,
             at' = [at EXCEPT ![t] = p],
             \/ /\ \E r \in Request : job' = [job EXCEPT ![t] = r]
                /\ p \in {"create", "limited"}
             \/ /\ job' = job
                /\ \/ p \in {"idle", "check", "add"}
                   \/ at[t] \in {"login", "match"} /\ p \in {"match", "enroll"}
      PROVE  TriesInv'
  <2>1. \A i \in Id : Past(i)' \subseteq Past(i)
    BY <1>2 DEF Past, TypeOK
  <2> QED
    BY <1>1, <1>2, <2>1
<1>3. ASSUME NEW t \in Thread, NEW r \in Request, CreateAccount(t, r) \/ Authenticate(t, r)
      PROVE  TriesInv'
  <2>1. /\ UNCHANGED <<tries, clock>> /\ job' = [job EXCEPT ![t] = r]
        /\ \E p \in {"create", "limited"} : at' = [at EXCEPT ![t] = p]
    BY <1>3 DEF CreateAccount, Authenticate, Goes
  <2> QED
    BY <1>2, <2>1
<1>4. ASSUME NEW t \in Thread, LoadToCreate(t) PROVE TriesInv'
  BY <1>2, <1>4 DEF LoadToCreate, Load, Goes
<1>5. ASSUME NEW t \in Thread, LoadToLogin(t) PROVE TriesInv'
  BY <1>2, <1>5 DEF LoadToLogin, Load, Goes
<1>6. ASSUME NEW t \in Thread, Check(t) PROVE TriesInv'
  <2>1. /\ UNCHANGED <<tries, clock, job>>
        /\ \E p \in {"idle", "add"} : at' = [at EXCEPT ![t] = p]
    BY <1>6 DEF Check, Goes
  <2> QED
    BY <1>2, <2>1
<1>7. ASSUME NEW t \in Thread, CheckRate(t) PROVE TriesInv'
  <2>1. PICK i \in Id : i = job[t].as
    BY JobOK
  <2>2. /\ tries' = tries
        /\ at' = [at EXCEPT ![t] = IF RateLimited(i) THEN "idle" ELSE "login"]
        /\ UNCHANGED <<clock, job>>
    BY <1>7, <2>1 DEF CheckRate, Goes
  <2>3. \A j \in Id : Tried(j)' \subseteq Tried(j)
    BY <2>2 DEF Tried, Within
  <2>4. CASE RateLimited(i)
    <3>1. \A j \in Id : Past(j)' \subseteq Past(j)
      BY <2>2, <2>4 DEF Past, TypeOK
    <3> QED
      BY <1>0, <2>3, <3>1
  <2>5. CASE ~RateLimited(i)
    <3> SUFFICES ASSUME NEW j \in Id PROVE Tries(j)'
      BY DEF TriesInv
    <3>1. CASE j = i
      <4>1. Cardinality(Tried(i)) < Limit
        BY <2>1, <2>5, NotLimited
      <4>2. /\ IsFiniteSet(Tried(i)) /\ Cardinality(Tried(i)) \in Nat
            /\ Cardinality(Thread) \in Nat /\ Limit \in Nat
        BY <2>1, SizesOK
      <4>3. /\ Cardinality(Tried(i)') <= Cardinality(Tried(i))
            /\ Cardinality(Tried(i)') \in Nat
        BY <2>1, <2>3, <4>2, FS_Subset, FS_CardinalityType
      <4>4. Cardinality(Past(i)') \in Nat /\ Cardinality(Past(i)') <= Cardinality(Thread)
        <5>1. Past(i)' \in SUBSET Thread
          BY DEF Past
        <5> QED
          BY <5>1, FS_Subset, FS_CardinalityType, AccountsAssumption
      <4>5. Tries(i)'
        BY <4>1, <4>2, <4>3, <4>4 DEF Tries
      <4> QED
        BY <3>1, <4>5 DEF Tries, Tried, Within, Past
    <3>2. CASE j # i
      <4>1. Past(j)' \subseteq Past(j)
        BY <2>1, <2>2, <3>2 DEF Past, TypeOK
      <4> QED
        BY <2>3, <4>1, NoMoreTries DEF TriesInv
    <3> QED
      BY <3>1, <3>2
  <2> QED
    BY <2>4, <2>5
<1>8. ASSUME NEW t \in Thread, Match(t) PROVE TriesInv'
  <2> DEFINE i == job[t].as
  <2>1. /\ at[t] = "match" /\ at' = [at EXCEPT ![t] = "idle"] /\ UNCHANGED <<clock, job>>
        /\ NotedSuccess(i) \/ NotedFailure(i)
    BY <1>8 DEF Match, Goes
  <2>2. t \in Past(i)
    BY <2>1 DEF Past
  <2>3. CASE NotedFailure(i)
    BY <2>1, <2>2, <2>3, FailsOK
  <2>4. CASE NotedSuccess(i)
    <3>1. tries' = [tries EXCEPT ![i] = {}]
      BY <2>4 DEF NotedSuccess
    <3>2. \A j \in Id : tries'[j] \subseteq tries[j]
      BY <3>1 DEF TypeOK
    <3> QED
      BY <1>0, <2>1, <3>2 DEF Tried, Within, Past, TypeOK
  <2> QED
    BY <2>1, <2>3, <2>4
<1>9. ASSUME NEW t \in Thread, NoMatch(t) PROVE TriesInv'
  <2> DEFINE i == job[t].as
  <2>1. /\ at[t] = "match" /\ UNCHANGED <<clock, job>>
        /\ at' = [at EXCEPT ![t] = IF AutoEnroll THEN "enroll" ELSE "idle"]
        /\ tries' = tries \/ (~AutoEnroll /\ NotedFailure(i))
    BY <1>9 DEF NoMatch, Goes, NotNoted
  <2>2. CASE tries' = tries
    BY <1>2, <2>1, <2>2
  <2>3. CASE ~AutoEnroll /\ NotedFailure(i)
    <3>1. t \in Past(i)
      BY <2>1 DEF Past
    <3> QED
      BY <2>1, <2>3, <3>1, FailsOK
  <2> QED
    BY <2>1, <2>2, <2>3
<1>10. ASSUME NEW t \in Thread, Save(t) PROVE TriesInv'
  <2> DEFINE i == job[t].as
  <2>1. /\ at' = [at EXCEPT ![t] = "idle"] /\ UNCHANGED <<clock, job>>
        /\ tries' = tries \/ NotedSuccess(i)
    BY <1>10 DEF Save, Goes, NotNoted
  <2>2. \A j \in Id : tries'[j] \subseteq tries[j]
    BY <2>1 DEF NotedSuccess, TypeOK
  <2> QED
    BY <1>0, <2>1, <2>2 DEF Tried, Within, Past, TypeOK
<1>11. ASSUME NEW t \in Thread, SaveFails(t) PROVE TriesInv'
  <2> DEFINE i == job[t].as
  <2>1. /\ at' = [at EXCEPT ![t] = "idle"] /\ UNCHANGED <<clock, job>>
        /\ tries' = tries \/ (at[t] = "enroll" /\ NotedFailure(i))
    BY <1>11 DEF SaveFails, Goes, NotNoted
  <2>2. CASE tries' = tries
    BY <1>2, <2>1, <2>2
  <2>3. CASE at[t] = "enroll" /\ NotedFailure(i)
    <3>1. t \in Past(i)
      BY <2>3 DEF Past
    <3> QED
      BY <2>1, <2>3, <3>1, FailsOK
  <2> QED
    BY <2>1, <2>2, <2>3
<1>12. CASE EditBegins \/ EditEnds \/ UNCHANGED vars
  BY <1>1, <1>12 DEF EditBegins, EditEnds, vars, Past
<1>13. CASE Restart
  <2>1. /\ \A i \in Id : tries'[i] = {}
        /\ \A t \in Thread : at'[t] = "idle"
    BY <1>13 DEF Restart
  <2> QED
    BY <1>0, <2>1 DEF Tried, Within, Past
<1>14. CASE Tick
  <2>1. clock' = clock + 1 /\ UNCHANGED <<tries, at, job>>
    BY <1>14 DEF Tick
  <2>2. \A i \in Id : Tried(i)' \subseteq Tried(i)
    <3> SUFFICES ASSUME NEW i \in Id, NEW s \in tries[i], (clock + 1) - s[1] <= Lockout
                 PROVE  clock - s[1] <= Lockout
      BY <2>1 DEF Tried, Within
    <3>1. clock \in Int /\ s[1] \in Int /\ Lockout \in Nat
      BY SizesOK
    <3> QED
      BY <3>1
  <2> QED
    BY <1>0, <2>1, <2>2 DEF Past
<1> QED
  BY <1>3, <1>4, <1>5, <1>6, <1>7, <1>8, <1>9, <1>10, <1>11, <1>12, <1>13, <1>14
     DEF Next

(* Fewer logins as one identifier than the limit and the number of threads *)
(* together fail in the time of a lockout, since the last that succeeded   *)
(* and the last start: the limiter may be exceeded only by threads that    *)
(* passed it at the same time, whatever it has forgotten.                  *)
THEOREM FewTriesCorrect == Spec => []FewTries
<1>1. Init => TriesInv /\ LimiterInv
  <2> SUFFICES ASSUME Init, NEW i \in Id PROVE Tries(i) /\ tries[i] = {}
    BY DEF TriesInv, LimiterInv, Remembered
  <2>1. Tried(i) = {} /\ Past(i) = {} /\ tries[i] = {}
    BY DEF Init, Tried, Within, Past
  <2>2. Cardinality(Thread) \in Nat /\ Limit \in Nat \ {0}
    BY InitTypes, SizesOK
  <2> QED
    BY <2>1, <2>2, FS_EmptySet DEF Tries
<1>2. TypeOK /\ TriesInv => FewTries
  BY SizesOK DEF TriesInv, Tries, Tried, FewTries
<1>3. TypeOK /\ LimiterInv /\ TriesInv /\ [Next]_vars => TriesInv' /\ LimiterInv'
  BY TypeStep, TriesStep, LimiterStep
<1> QED
  BY <1>1, <1>2, <1>3, TypeCorrect, PTL DEF Spec
=============================================================================
