----------------------------- MODULE Relations -----------------------------
(***************************************************************************)
(* Buddies, requests and blocks of ea_messenger.py: three directed         *)
(* relations between names, kept in memory under a lock and in a file that *)
(* is read and written outside of it.  The threads of the control          *)
(* connections add and remove; an administrator's shell saves, and reloads *)
(* while they run; the process may be stopped at any step.                 *)
(*                                                                         *)
(* A relation is between keys.  The key of a persona is the persona itself *)
(* while its user is in the lobby, and else the first persona of its       *)
(* account: it changes as players come and go, also while a reload computes *)
(* the keys of what it has read, one after another.                        *)
(***************************************************************************)
EXTENDS Naturals, Sequences, FiniteSets

CONSTANTS Persona,      \* the names, and the keys
          Account,
          AccountOf,    \* whose persona it is
          First,        \* the first persona an account lists
          Thread,       \* threads of control connections and of the shell
          Earlier,      \* what the file may hold when the server is started
          MaxCalls,     \* bound: calls that add or remove
          MaxSteps      \* bound: those calls, logins and logouts, reloads
                        \* and saves by the administrator, and restarts,
                        \* together

Kind == {"buddies", "pending", "blocks"}

(* What a file relates: nobody to himself.                                 *)
Link == {l \in Persona \X Persona : l[1] # l[2]}

Links == [Kind -> SUBSET Link]

None == [k \in Kind |-> {}]

ASSUME RelationsAssumption ==
          /\ Persona # {}
          /\ AccountOf \in [Persona -> Account]
          /\ First \in [Account -> Persona]
          /\ \A a \in Account : AccountOf[First[a]] = a
          /\ Earlier \subseteq Links
          /\ {MaxCalls, MaxSteps} \subseteq Nat

(* A file is that of a server in which no load had joined two sets: in it  *)
(* friends are friends both ways.                                          *)
ASSUME EarlierAssumption ==
          \A r \in Earlier : \A l \in r["buddies"] : <<l[2], l[1]>> \in r["buddies"]

VARIABLES rel,          \* _social_buddies, _social_pending, _social_blocks
          file,         \* [state, links]: social_relations.json; one that
                        \* cannot be read says nothing
          online,       \* personas of users in the lobby
          at,           \* at[t]: where thread t is in its call
          arg,          \* arg[t]: the two keys it has computed
          copy,         \* copy[t]: the payload to write, or what was read
          seen,         \* seen[t]: how the lobby was, from when t has read
                        \* the file until now
          left,         \* how many of the bounded steps are left
          overlaps,     \* history: threads whose call met that of another
          raced,        \* history: calls have met since the last lone save
          mixed,        \* history: a load has joined two sets into one
          moved,        \* history: a key has changed during a load
          past          \* history: all links there ever were, by account

vars == <<rel, file, online, at, arg, copy, seen, left, overlaps, raced, mixed,
          moved, past>>

History == <<overlaps, raced, mixed, moved, past>>

Places == {"idle", "called", "add", "block", "remove", "unblock",
           "changed", "copied", "opened", "cleared", "read"}

(* Until a key changes during a load, nobody is related to himself.        *)
TypeOK ==
    /\ rel \in [Kind -> SUBSET (Persona \X Persona)]
    /\ moved \/ rel \in Links
    /\ file \in [state : {"none", "empty", "torn", "whole"}, links : Links]
    /\ online \subseteq Persona
    /\ at \in [Thread -> Places]
    /\ arg \in [Thread -> Persona \X Persona]
    /\ copy \in [Thread -> Links]
    /\ seen \in [Thread -> Seq(SUBSET Persona)]
    /\ left \in [{"calls", "steps"} -> Nat]
    /\ overlaps \subseteq Thread
    /\ {raced, mixed, moved} \subseteq BOOLEAN
    /\ past \in [Kind -> SUBSET (Account \X Account)]

-----------------------------------------------------------------------------
(* Keys.                                                                   *)

(* A user in the lobby is found by the persona; anyone else by account.    *)
KeyIn(lobby, p) == IF p \in lobby THEN p ELSE First[AccountOf[p]]

Key(p) == KeyIn(online, p)

NoKeys == LET p == CHOOSE p \in Persona : TRUE IN <<p, p>>

Both(o, t) == {<<o, t>>, <<t, o>>}

(* The pairs of accounts a set of links stands for.                        *)
Accounts(S) ==
    {p \in Account \X Account :
        p[1] # p[2] /\ \E l \in S : p = <<AccountOf[l[1]], AccountOf[l[2]]>>}

ByAccount(r) == [k \in Kind |-> Accounts(r[k])]

Recalled(r) == [k \in Kind |-> past[k] \union Accounts(r[k])]

Owners(S) == {l[1] : l \in S}

Names(S) == Owners(S) \union {l[2] : l \in S}

(* Mutant: a target with the key of its owner is kept.                     *)
RowsSelf(s, S, o) ==
    LET targets == {l[2] : l \in {m \in S : m[1] = o}}
    IN  {{<<KeyIn(s[m[1]], o), KeyIn(s[m[2][p]], p)>> : p \in targets} :
            m \in (DOMAIN s) \X [targets -> DOMAIN s]}

(* load_relation_map, one owner: its key is computed at one moment, that   *)
(* of a target for the test at the same or a later one, and once more for  *)
(* the value, while the lobby goes through s.                              *)
Rows(s, S, o) ==
    LET targets == {l[2] : l \in {m \in S : m[1] = o}}
        moments == (DOMAIN s) \X [targets -> DOMAIN s] \X [targets -> DOMAIN s]
        passes(m) == {p \in targets : KeyIn(s[m[2][p]], p) # KeyIn(s[m[1]], o)}
    IN  {{<<KeyIn(s[m[1]], o), KeyIn(s[m[3][p]], p)>> : p \in passes(m)} :
            m \in {n \in moments :
                      \A p \in targets : n[1] <= n[2][p] /\ n[2][p] <= n[3][p]}}

(* Of two owners that have got one key, the one that comes last in the     *)
(* file keeps its set.                                                     *)
Lasts(rows) ==
    LET heard == {o \in DOMAIN rows : rows[o] # {}}
    IN  {UNION {rows[o] : o \in O} :
            O \in {Q \in SUBSET heard :
                     \A o \in heard : \E q \in Q :
                         {w \in Q : Owners(rows[w]) = Owners(rows[o])} = {q}}}

(* One relation of the file.  The order of the owners is left open, and    *)
(* with it which of them are read before the lobby changes.                *)
Loads(s, S) ==
    LET rows == UNION {{o} \X Rows(s, S, o) : o \in Owners(S)}
    IN  UNION {Lasts(f) :
                 f \in {g \in [Owners(S) -> {r[2] : r \in rows}] :
                          \A o \in Owners(S) : <<o, g[o]>> \in rows}}

Loaded(s, links) ==
    LET loads == UNION {{k} \X Loads(s, links[k]) : k \in Kind}
    IN  {r \in [Kind -> {l[2] : l \in loads}] : \A k \in Kind : <<k, r[k]>> \in loads}

(* dict.update: an owner that is in the file loses what it had in memory.  *)
Updated(old, new) == {l \in old : l[1] \notin Owners(new)} \union new

Merges(s, links) ==
    \E k \in Kind : \E o, q \in Owners(links[k]) : \E i, j \in DOMAIN s :
        o # q /\ KeyIn(s[i], o) = KeyIn(s[j], q)

Moves(s, links) ==
    \E k \in Kind : \E p \in Names(links[k]) : \E i, j \in DOMAIN s :
        KeyIn(s[i], p) # KeyIn(s[j], p)

-----------------------------------------------------------------------------
Working == {t \in Thread : at[t] \in {"changed", "copied", "opened", "cleared", "read"}}

(* History only: what a call that begins to change or save does to the     *)
(* others that are under way.                                              *)
Begins(t) ==
    IF Working = {}
      THEN UNCHANGED <<overlaps, raced>>
      ELSE /\ overlaps' = overlaps \union Working \union {t}
           /\ raced' = TRUE

Ends(t, good) ==
    /\ overlaps' = overlaps \ {t}
    /\ raced' = IF good THEN raced /\ t \in overlaps ELSE TRUE

Goes(t, place) == at' = [at EXCEPT ![t] = place]

Spends(bounds) ==
    /\ \A w \in bounds : left[w] > 0
    /\ left' = [w \in DOMAIN left |-> IF w \in bounds THEN left[w] - 1 ELSE left[w]]

Init ==
    /\ file \in [state : {"whole"}, links : Earlier]
                \union {[state |-> "none", links |-> None]}
    /\ online = {}
    /\ rel \in Loaded(<<online>>, file.links)
    /\ at = [t \in Thread |-> "idle"]
    /\ arg = [t \in Thread |-> NoKeys]
    /\ copy = [t \in Thread |-> None]
    /\ seen = [t \in Thread |-> <<>>]
    /\ left = [calls |-> MaxCalls, steps |-> MaxSteps]
    /\ overlaps = {}
    /\ raced = FALSE
    /\ mixed = Merges(<<online>>, file.links)
    /\ moved = FALSE
    /\ past = ByAccount(file.links)

-----------------------------------------------------------------------------
(* Players come to the lobby and leave it, also while loads compute keys.  *)

Witnessed ==
    seen' = [t \in Thread |->
                IF at[t] = "read" THEN Append(seen[t], online') ELSE seen[t]]

Login(p) ==
    /\ p \notin online
    /\ Spends({"steps"})
    /\ online' = online \union {p}
    /\ Witnessed
    /\ UNCHANGED <<rel, file, at, arg, copy, History>>

Logout(p) ==
    /\ p \in online
    /\ Spends({"steps"})
    /\ online' = online \ {p}
    /\ Witnessed
    /\ UNCHANGED <<rel, file, at, arg, copy, History>>

-----------------------------------------------------------------------------
(* A command of a control connection: the keys are computed before the     *)
(* lock is taken, one after the other, so they may be those of moments     *)
(* ago.                                                                    *)

Call(t, p) ==
    /\ at[t] = "idle"
    /\ Spends({"calls", "steps"})
    /\ arg' = [arg EXCEPT ![t] = <<Key(p), Key(p)>>]
    /\ Goes(t, "called")
    /\ UNCHANGED <<rel, file, online, copy, seen, History>>

Find(t, place, q) ==
    /\ at[t] = "called"
    /\ arg' = [arg EXCEPT ![t] = <<@[1], Key(q)>>]
    /\ Goes(t, IF arg[t][1] = Key(q) THEN "idle" ELSE place)    \* the answer is "N"
    /\ UNCHANGED <<rel, file, online, copy, seen, left, History>>

(* Memory after a call, which then goes on to save it.                     *)
Becomes(t, new) ==
    /\ rel' = new
    /\ past' = Recalled(new)
    /\ Goes(t, "changed")
    /\ Begins(t)
    /\ UNCHANGED <<file, online, arg, copy, seen, left, mixed, moved>>

Without(kinds, S) ==
    [k \in Kind |-> IF k \in kinds THEN rel[k] \ S ELSE rel[k]]

Owner(t) == arg[t][1]
Target(t) == arg[t][2]
Pair(t) == Both(Owner(t), Target(t))

Block(t) ==
    /\ at[t] = "block"
    /\ Becomes(t, [Without({"buddies", "pending"}, Pair(t)) EXCEPT
                        !["blocks"] = @ \union {arg[t]}])

(* Mutant: no request is looked for.                                       *)
AcceptUnasked(t) ==
    /\ at[t] = "add"
    /\ Becomes(t, [Without({"pending"}, Pair(t)) EXCEPT
                        !["buddies"] = @ \union Pair(t)])

Accept(t) ==
    /\ at[t] = "add"
    /\ <<Target(t), Owner(t)>> \in rel["pending"]
    /\ Becomes(t, [Without({"pending"}, Pair(t)) EXCEPT
                        !["buddies"] = @ \union Pair(t)])

Keep(t) ==
    /\ at[t] = "add"
    /\ <<Target(t), Owner(t)>> \notin rel["pending"]
    /\ arg[t] \in rel["buddies"]
    /\ Becomes(t, rel)

Ask(t) ==
    /\ at[t] = "add"
    /\ <<Target(t), Owner(t)>> \notin rel["pending"]
    /\ arg[t] \notin rel["buddies"]
    /\ Becomes(t, [rel EXCEPT !["pending"] = @ \union {arg[t]}])

(* Mutant: only the side of the one who removes.                           *)
RemoveOwn(t) ==
    /\ at[t] = "remove"
    /\ Pair(t) \intersect (rel["buddies"] \union rel["pending"]) # {}
    /\ Becomes(t, Without({"buddies", "pending"}, {arg[t]}))

Remove(t) ==
    /\ at[t] = "remove"
    /\ Pair(t) \intersect (rel["buddies"] \union rel["pending"]) # {}
    /\ Becomes(t, Without({"buddies", "pending"}, Pair(t)))

(* Mutant: the call returns without a save.                                *)
UnblockUnsaved(t) ==
    /\ at[t] = "unblock"
    /\ rel' = Without({"blocks"}, {arg[t]})
    /\ Goes(t, "idle")
    /\ UNCHANGED <<file, online, arg, copy, seen, left, History>>

Unblock(t) ==
    /\ at[t] = "unblock"
    /\ arg[t] \in rel["blocks"]
    /\ Becomes(t, Without({"blocks"}, {arg[t]}))

(* Nothing to remove: the answer is "N" and nothing is saved.              *)
Nothing(t) ==
    /\ \/ /\ at[t] = "remove"
          /\ Pair(t) \intersect (rel["buddies"] \union rel["pending"]) = {}
       \/ /\ at[t] = "unblock"
          /\ arg[t] \notin rel["blocks"]
    /\ Goes(t, "idle")
    /\ UNCHANGED <<rel, file, online, arg, copy, seen, left, History>>

-----------------------------------------------------------------------------
(* save_social_relations, at the end of a call or by the administrator:    *)
(* the payload is made under the lock; opening the file for writing        *)
(* empties it; what is written reaches it when it is closed.               *)

AdminSave(t) ==
    /\ at[t] = "idle"
    /\ Spends({"steps"})
    /\ Goes(t, "changed")
    /\ Begins(t)
    /\ UNCHANGED <<rel, file, online, arg, copy, seen, mixed, moved, past>>

Copy(t) ==
    /\ at[t] = "changed"
    /\ copy' = [copy EXCEPT ![t] = [k \in Kind |-> rel[k] \intersect Link]]
    /\ Goes(t, "copied")
    /\ UNCHANGED <<rel, file, online, arg, seen, left, History>>

Open(t) ==
    /\ at[t] = "copied"
    /\ file' = [state |-> "empty", links |-> None]
    /\ Goes(t, "opened")
    /\ UNCHANGED <<rel, online, arg, copy, seen, left, History>>

(* Two that have opened the file write over each other: if the first wrote *)
(* more, its end remains.                                                  *)
Write(t) ==
    /\ at[t] = "opened"
    /\ \/ file' = [state |-> "whole", links |-> copy[t]]
       \/ /\ file.state # "empty"
          /\ file' = [state |-> "torn", links |-> None]
    /\ Goes(t, "idle")
    /\ Ends(t, TRUE)
    /\ UNCHANGED <<rel, online, arg, copy, seen, left, mixed, moved, past>>

(* An exception on the way is logged, and the call goes on as if saved.    *)
WriteFails(t) ==
    /\ at[t] \in {"copied", "opened"}
    /\ Goes(t, "idle")
    /\ Ends(t, FALSE)
    /\ UNCHANGED <<rel, file, online, arg, copy, seen, left, mixed, moved, past>>

-----------------------------------------------------------------------------
(* load_social_relations by _admin_reload_config, while others run.        *)

Clear(t) ==
    /\ at[t] = "idle"
    /\ Spends({"steps"})
    /\ rel' = None
    /\ Goes(t, "cleared")
    /\ Begins(t)
    /\ UNCHANGED <<file, online, arg, copy, seen, mixed, moved, past>>

Read(t) ==
    /\ at[t] = "cleared"
    /\ file.state = "whole"
    /\ copy' = [copy EXCEPT ![t] = file.links]
    /\ seen' = [seen EXCEPT ![t] = <<online>>]
    /\ Goes(t, "read")
    /\ UNCHANGED <<rel, file, online, arg, left, History>>

(* No file, or one that does not parse.                                    *)
ReadFails(t) ==
    /\ at[t] = "cleared"
    /\ file.state # "whole"
    /\ Goes(t, "idle")
    /\ Ends(t, file.state = "none")
    /\ UNCHANGED <<rel, file, online, arg, copy, seen, left, mixed, moved, past>>

(* The keys have been computed; the lock is taken, and they are put in.    *)
Install(t) ==
    /\ at[t] = "read"
    /\ \E r \in Loaded(seen[t], copy[t]) :
          rel' = [k \in Kind |-> Updated(rel[k], r[k])]
    /\ mixed' = (mixed \/ rel # None \/ Merges(seen[t], copy[t]))
    /\ moved' = (moved \/ Moves(seen[t], copy[t]))
    /\ seen' = [seen EXCEPT ![t] = <<>>]
    /\ Goes(t, "idle")
    /\ Ends(t, TRUE)
    /\ UNCHANGED <<file, online, arg, copy, left, past>>

(* The process ends at any step, by a crash or by stop, which saves like   *)
(* AdminSave before; a new one loads before it has threads or players.     *)
Restart ==
    /\ Spends({"steps"})
    /\ online' = {}
    /\ rel' \in Loaded(<<{}>>, file.links)
    /\ at' = [t \in Thread |-> "idle"]
    /\ copy' = [t \in Thread |-> None]
    /\ seen' = [t \in Thread |-> <<>>]
    /\ overlaps' = {}
    /\ raced' = (raced \/ Working # {})
    /\ mixed' = (mixed \/ Merges(<<{}>>, file.links))
    /\ UNCHANGED <<file, arg, moved, past>>

-----------------------------------------------------------------------------
Step(t) ==
    \/ \E p \in Persona : \/ Call(t, p)
                          \/ Find(t, "add", p)
                          \/ Find(t, "block", p)
                          \/ Find(t, "remove", p)
                          \/ Find(t, "unblock", p)
    \/ Block(t) \/ Accept(t) \/ Keep(t) \/ Ask(t)
    \/ Remove(t) \/ Unblock(t) \/ Nothing(t)
    \/ AdminSave(t) \/ Copy(t) \/ Open(t) \/ Write(t) \/ WriteFails(t)
    \/ Clear(t) \/ Read(t) \/ ReadFails(t) \/ Install(t)

Next ==
    \/ \E p \in Persona : Login(p) \/ Logout(p)
    \/ \E t \in Thread : Step(t)
    \/ Restart

Spec == Init /\ [][Next]_vars

-----------------------------------------------------------------------------
(* Friendship is mutual: remove goes both ways and accept adds both ways,  *)
(* whatever keys the names had, whichever copy a crash left in the file;   *)
(* until a load has joined the sets of two personas of an account, or has  *)
(* met a change of the relations, or a login or logout has changed a key   *)
(* that it was computing: then one side may keep the other without being   *)
(* kept.                                                                   *)
Mutual ==
    (~mixed /\ ~moved) => \A l \in rel["buddies"] : <<l[2], l[1]>> \in rel["buddies"]

(* What players have agreed on is on disk when their calls have returned:  *)
(* with nobody in a call, the file says what memory says, unless calls met *)
(* (then the older copy may have been written last) or the disk failed,    *)
(* and then again as soon as one more call saves alone.                    *)
OnDisk ==
    (~raced /\ ~mixed /\ \A t \in Thread : at[t] = "idle")
        => /\ file.state \in {"none", "whole"}
           /\ ByAccount(file.links) = ByAccount(rel)

(* Every relation was made by the players it is about, through reloads,    *)
(* crashes and saves in the wrong order: the code implements Consent.      *)
Promise == INSTANCE Consent WITH
              asked <- Accounts(rel["pending"]),
              friends <- Accounts(rel["buddies"]),
              blocked <- Accounts(rel["blocks"]),
              past <- [asked |-> past["pending"],
                       friends |-> past["buddies"],
                       blocked |-> past["blocks"]]

Consented == Promise!Spec
=============================================================================
