------------------------------ MODULE Accounts ------------------------------
(***************************************************************************)
(* The account file and the login limiter of server.py, used by the thread *)
(* of every lobby connection when AUTH_VERIFY is on.  Loading and saving   *)
(* hold _auth_accounts_lock, but what a thread has loaded it checks, and   *)
(* saves with one account more, after it has let the lock go.  The file is *)
(* also written by hand, and the process may be stopped at any step.       *)
(***************************************************************************)
EXTENDS Integers, FiniteSets, Sequences

CONSTANTS Thread,       \* threads of lobby connections
          Id,           \* what a login or an account may be called
          Pass,         \* passwords
          Request,      \* what clients send: [as, names, pass]
          ByHand,       \* account lists the operator may write
          AutoEnroll,   \* AUTH_AUTO_ENROLL
          Limit,        \* AUTH_FAIL_LIMIT
          Window,       \* AUTH_FAIL_WINDOW
          Lockout,      \* AUTH_LOCKOUT_SECONDS
          Kept,         \* failures kept of one identifier, 16 or 2 * Limit
          MaxCalls,     \* bound: acct and auth frames
          MaxEvents,    \* bound: edits by hand, failures of the disk, restarts
          MaxTime       \* bound: seconds

Account == [names : (SUBSET Id) \ {{}}, pass : Pass, via : {"create", "enroll", "hand"}]

Shared(a, b) == a.names \intersect b.names # {}

Distinct(list) ==
    \A i, j \in DOMAIN list : i # j => ~Shared(list[i], list[j])

ASSUME AccountsAssumption ==
          /\ Request \subseteq {r \in [as : Id, names : SUBSET Id, pass : Pass] :
                                   r.as \in r.names}
          /\ Request # {}
          /\ IsFiniteSet(Thread)
          /\ \A list \in ByHand : /\ list \in Seq(Account)
                                  /\ Distinct(list)
                                  /\ \A i \in DOMAIN list : list[i].via = "hand"
          /\ AutoEnroll \in BOOLEAN
          /\ {Limit, Lockout} \subseteq Nat \ {0}
          /\ {Window, Kept, MaxCalls, MaxEvents, MaxTime} \subseteq Nat
          /\ Kept >= 2 * Limit

(* A failed login: when, and a number that tells it from the other ones of *)
(* the same second.                                                        *)
Stamp == (0 .. MaxTime) \X Nat

VARIABLES file,         \* [state, list]: what the account file holds
          newer,        \* its time is not the one the cache was read at
          cache,        \* _auth_accounts_cache
          failures,     \* failures[i]: when logins as i failed, as far as the
                        \* limiter keeps it
          clock,
          at,           \* at[t]: where thread t is in its frame
          job,          \* job[t]: the request
          list,         \* list[t]: the accounts it has loaded
          left,         \* how many of the bounded steps are left
          beaten,       \* history: threads whose list is not that of the file,
                        \* because another wrote it, or it could not be read
          made,         \* history: accounts whose client was told of them
          raced,        \* history: a beaten thread has saved
          tries         \* history: tries[i]: all the logins as i that failed
                        \* since one succeeded or the process was started

vars == <<file, newer, cache, failures, clock, at, job, list, left, beaten,
          made, raced, tries>>

Places == {"idle", "create", "check", "add", "limited", "login", "match", "enroll"}

TypeOK ==
    /\ file \in [state : {"none", "whole", "broken"}, list : Seq(Account)]
    /\ newer \in BOOLEAN
    /\ cache \in Seq(Account)
    /\ {failures, tries} \subseteq [Id -> SUBSET Stamp]
    /\ \A i \in Id : /\ IsFiniteSet(tries[i]) /\ failures[i] \subseteq tries[i]
                     /\ Cardinality(failures[i]) <= Kept
    /\ clock \in 0 .. MaxTime
    /\ at \in [Thread -> Places]
    /\ job \in [Thread -> Request]
    /\ list \in [Thread -> Seq(Account)]
    /\ left \in [{"calls", "events"} -> Nat]
    /\ beaten \subseteq Thread
    /\ made \subseteq Account
    /\ raced \in BOOLEAN

Init ==
    /\ file \in {[state |-> "none", list |-> <<>>]}
                \union [state : {"whole"}, list : ByHand]
    /\ newer = TRUE
    /\ cache = <<>>
    /\ failures = [i \in Id |-> {}]
    /\ clock = 0
    /\ at = [t \in Thread |-> "idle"]
    /\ job = [t \in Thread |-> CHOOSE r \in Request : TRUE]
    /\ list = [t \in Thread |-> <<>>]
    /\ left = [calls |-> MaxCalls, events |-> MaxEvents]
    /\ beaten = {}
    /\ made = {}
    /\ raced = FALSE
    /\ tries = [i \in Id |-> {}]

-----------------------------------------------------------------------------
Goes(t, place) == at' = [at EXCEPT ![t] = place]

Spends(what) ==
    /\ left[what] > 0
    /\ left' = [left EXCEPT ![what] = @ - 1]

(* What the file says: nothing, if there is none or it does not parse.     *)
Parsed == IF file.state = "whole" THEN file.list ELSE <<>>

(* _load_auth_accounts: the file is read if its time is another one.       *)
Loaded == IF newer \/ file.state = "none" THEN Parsed ELSE cache

Load(t, place) ==
    /\ list' = [list EXCEPT ![t] = Loaded]
    /\ cache' = Loaded
    /\ newer' = (file.state = "none")
    /\ beaten' = IF file.state = "broken" THEN beaten \union {t} ELSE beaten \ {t}
    /\ Goes(t, place)
    /\ UNCHANGED <<file, failures, tries, clock, job, left, made, raced>>

(* Threads that have loaded and may still save.                            *)
Loading == {t \in Thread : at[t] \in {"check", "add", "match", "enroll"}}

(* Mutant: only the name the client logs in with is compared.              *)
ExistsByName(accounts, r) == \E i \in DOMAIN accounts : r.as \in accounts[i].names

(* _auth_account_identities: does the new account meet one that is there?  *)
Exists(accounts, r) ==
    \E i \in DOMAIN accounts : accounts[i].names \intersect r.names # {}

(* authenticate_login takes the first account with the identifier.         *)
Known(accounts, i) == {k \in DOMAIN accounts : i \in accounts[k].names}

Found(accounts, i) ==
    accounts[CHOOSE k \in Known(accounts, i) :
                \A j \in Known(accounts, i) : k <= j]

-----------------------------------------------------------------------------
(* The limiter: _auth_is_rate_limited, _auth_note_failure and              *)
(* _auth_note_success, each under _auth_lock.                              *)

Memory == IF Window > Lockout THEN Window ELSE Lockout

Within(S, time) == {s \in S : clock - s[1] <= time}

Recent(i) == Within(failures[i], Memory)

(* Mutant: one failure more than the limit.                                *)
RateLimitedLate(i) ==
    /\ Cardinality(Recent(i)) > Limit
    /\ \E s \in Recent(i) : clock - s[1] <= Lockout

(* As many as the limit, and the newest one is not older than the lockout. *)
RateLimited(i) ==
    /\ Cardinality(Recent(i)) >= Limit
    /\ \E s \in Recent(i) : clock - s[1] <= Lockout

(* Mutant: failures are never forgotten while they are recent.             *)
NewestNot(S) == {S}

(* The newest ones, Kept at most; those of one moment are alike.           *)
Newest(S) ==
    IF Cardinality(S) <= Kept THEN {S}
    ELSE {T \in SUBSET S : /\ Cardinality(T) = Kept
                           /\ \A s \in T, o \in S \ T : o[1] <= s[1]}

NewStamp(i) == <<clock, Cardinality({s \in tries[i] : s[1] = clock})>>

NotedFailure(i) ==
    /\ failures' \in {[failures EXCEPT ![i] = S] :
                          S \in Newest(Recent(i) \union {NewStamp(i)})}
    /\ tries' = [tries EXCEPT ![i] = @ \union {NewStamp(i)}]

NotedSuccess(i) ==
    /\ failures' = [failures EXCEPT ![i] = {}]
    /\ tries' = [tries EXCEPT ![i] = {}]

NotNoted == UNCHANGED <<failures, tries>>

-----------------------------------------------------------------------------
(* An acct frame: create_account.                                          *)
CreateAccount(t, r) ==
    /\ at[t] = "idle"
    /\ Spends("calls")
    /\ job' = [job EXCEPT ![t] = r]
    /\ Goes(t, "create")
    /\ UNCHANGED <<file, newer, cache, failures, tries, clock, list, beaten, made, raced>>

LoadToCreate(t) ==
    /\ at[t] = "create"
    /\ Load(t, "check")

Check(t) ==
    /\ at[t] = "check"
    /\ Goes(t, IF Exists(list[t], job[t]) THEN "idle" ELSE "add")
    /\ UNCHANGED <<file, newer, cache, failures, tries, clock, job, list, left, beaten,
                   made, raced>>

(* An auth frame: authenticate_login.                                      *)
Authenticate(t, r) ==
    /\ at[t] = "idle"
    /\ Spends("calls")
    /\ job' = [job EXCEPT ![t] = r]
    /\ Goes(t, "limited")
    /\ UNCHANGED <<file, newer, cache, failures, tries, clock, list, beaten, made, raced>>

CheckRate(t) ==
    /\ at[t] = "limited"
    /\ failures' = [failures EXCEPT ![job[t].as] = Recent(job[t].as)]
    /\ UNCHANGED tries
    /\ Goes(t, IF RateLimited(job[t].as) THEN "idle" ELSE "login")
    /\ UNCHANGED <<file, newer, cache, clock, job, list, left, beaten, made, raced>>

LoadToLogin(t) ==
    /\ at[t] = "login"
    /\ Load(t, "match")

(* An account with the identifier: its password decides (as do its key and *)
(* whether it is locked).                                                  *)
Match(t) ==
    LET i == job[t].as
    IN  /\ at[t] = "match"
        /\ Known(list[t], i) # {}
        /\ IF Found(list[t], i).pass = job[t].pass THEN NotedSuccess(i)
                                                   ELSE NotedFailure(i)
        /\ Goes(t, "idle")
        /\ UNCHANGED <<file, newer, cache, clock, job, list, left, beaten, made, raced>>

(* No such account: it is enrolled, if that is on; with an empty file a    *)
(* refusal is not counted.                                                 *)
NoMatch(t) ==
    /\ at[t] = "match"
    /\ Known(list[t], job[t].as) = {}
    /\ Goes(t, IF AutoEnroll THEN "enroll" ELSE "idle")
    /\ IF AutoEnroll \/ list[t] = <<>> THEN NotNoted
                                        ELSE NotedFailure(job[t].as)
    /\ UNCHANGED <<file, newer, cache, clock, job, list, left, beaten, made, raced>>

(* _auth_enroll_account and _save_auth_accounts: a new file takes the      *)
(* place of the old one at once, and the cache is what was written.        *)
Via(t) == IF at[t] = "add" THEN "create" ELSE "enroll"

NewAccount(t) == [names |-> job[t].names, pass |-> job[t].pass, via |-> Via(t)]

(* Mutant: the time of the new file is taken, its accounts are not.        *)
SaveUncached(t) ==
    LET new == Append(list[t], NewAccount(t))
    IN  /\ at[t] \in {"add", "enroll"}
        /\ file' = [state |-> "whole", list |-> new]
        /\ newer' = FALSE
        /\ IF at[t] = "enroll" /\ list[t] # <<>> THEN NotedSuccess(job[t].as)
                                                 ELSE NotNoted
        /\ made' = made \union {NewAccount(t)}
        /\ raced' = (raced \/ t \in beaten)
        /\ beaten' = (beaten \union Loading) \ {t}
        /\ Goes(t, "idle")
        /\ UNCHANGED <<cache, clock, job, list, left>>

Save(t) ==
    LET new == Append(list[t], NewAccount(t))
    IN  /\ at[t] \in {"add", "enroll"}
        /\ file' = [state |-> "whole", list |-> new]
        /\ cache' = new
        /\ newer' = FALSE
        /\ IF at[t] = "enroll" /\ list[t] # <<>> THEN NotedSuccess(job[t].as)
                                                 ELSE NotNoted
        /\ made' = made \union {NewAccount(t)}
        /\ raced' = (raced \/ t \in beaten)
        /\ beaten' = (beaten \union Loading) \ {t}
        /\ Goes(t, "idle")
        /\ UNCHANGED <<clock, job, list, left>>

(* The file cannot be written: the client is told, the file stays.         *)
SaveFails(t) ==
    /\ at[t] \in {"add", "enroll"}
    /\ Spends("events")
    /\ IF at[t] = "enroll" /\ list[t] # <<>> THEN NotedFailure(job[t].as)
                                             ELSE NotNoted
    /\ Goes(t, "idle")
    /\ UNCHANGED <<file, newer, cache, clock, job, list, beaten, made, raced>>

-----------------------------------------------------------------------------
(* The operator's editor empties the file and then writes it; what it      *)
(* takes out is gone on purpose, what others save meanwhile is not seen.   *)
EditBegins ==
    /\ file.state # "broken"
    /\ Spends("events")
    /\ file' = [file EXCEPT !.state = "broken"]
    /\ newer' = TRUE
    /\ beaten' = beaten \union Loading
    /\ UNCHANGED <<cache, failures, tries, clock, at, job, list, made, raced>>

EditEnds ==
    /\ file.state = "broken"
    /\ \E new \in ByHand : file' = [state |-> "whole", list |-> new]
    /\ newer' = TRUE
    /\ made' = {}
    /\ beaten' = beaten \union Loading
    /\ UNCHANGED <<cache, failures, tries, clock, at, job, list, left, raced>>

(* The process ends at any step and is started again.                      *)
Restart ==
    /\ Spends("events")
    /\ newer' = TRUE
    /\ cache' = <<>>
    /\ failures' = [i \in Id |-> {}]
    /\ tries' = [i \in Id |-> {}]
    /\ at' = [t \in Thread |-> "idle"]
    /\ beaten' = {}
    /\ UNCHANGED <<file, clock, job, list, made, raced>>

Tick ==
    /\ clock < MaxTime
    /\ clock' = clock + 1
    /\ UNCHANGED <<file, newer, cache, failures, tries, at, job, list, left, beaten,
                   made, raced>>

Next ==
    \/ \E t \in Thread :
          \/ \E r \in Request : CreateAccount(t, r) \/ Authenticate(t, r)
          \/ LoadToCreate(t) \/ Check(t)
          \/ CheckRate(t) \/ LoadToLogin(t) \/ Match(t) \/ NoMatch(t)
          \/ Save(t) \/ SaveFails(t)
    \/ EditBegins \/ EditEnds \/ Restart \/ Tick

Spec == Init /\ [][Next]_vars

-----------------------------------------------------------------------------
(* An account whose owner was told that it is there stays in the file,     *)
(* through restarts and failures of the disk, until the operator writes    *)
(* another; unless two threads have saved what each had loaded before the  *)
(* other saved, or one loaded while the file could not be read: then the   *)
(* later file has only what that thread knew of.                           *)
AccountsKept ==
    (~raced /\ file.state = "whole")
        => \A a \in made : \E k \in DOMAIN file.list : file.list[k] = a

(* Two accounts never share a name, an alias or an address, even if their  *)
(* creation overlapped; but a login that enrols is checked for the name it *)
(* logs in with only.                                                      *)
NoTwins ==
    \A i, j \in DOMAIN file.list :
        (i < j /\ Shared(file.list[i], file.list[j])) => file.list[j].via = "enroll"

(* Within the time of a lockout no more logins as one identifier fail than *)
(* the limit says, plus one for every other thread that was past the       *)
(* limiter when the limit was reached, counted since its last login that   *)
(* succeeded or the last start of the process; although the limiter        *)
(* forgets failures, the old ones and all but the newest ones.             *)
FewTries ==
    \A i \in Id : Cardinality(Within(tries[i], Lockout)) < Limit + Cardinality(Thread)
=============================================================================
