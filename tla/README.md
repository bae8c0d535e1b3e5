# A verification development of the NFSMW online server

## 1. The system

A server (`src/server`, Python, threads) and a client plugin
(`src/client/online`, C++).  The server accepts TCP connections of game clients
to a lobby, keeps the users and the games, relays race traffic over UDP, and
runs a messenger, rankings, a master/slave link and an administrator's shell.

### Components

| component | source | state | operations | interacts with |
|---|---|---|---|---|
| throttle | `server.py` 478-524 | attempts and blocks per address | one decision per accepted socket | accept loops |
| accept loops, slots | `server.py` 526-547, 3045-3098 | slot count, the loop's `handler` variable, one thread per connection | accept, start thread, end thread | throttle, bans, configuration reload |
| lobby commands | `client_handler.py` | one `ClientHandler` per connection, the class-wide set of handlers | one handler per frame: login, persona, `sele`, `usea`, `ujoi`, `gsea`, `gcre`, `gjoi`, `gset`, `auxi`, `mesg`, `onln`, `gsta`, `glea`, `gdel`, `TERM`; end of connection | registry, game table, other handlers (they send to and change each other's users) |
| user registry | `user_manager.py` | users by uid; `User.game`, `stat`, `connected`, `race_detached_at` | add, remove, kick_inactive | all |
| game table | `room_manager.py` | `Game` records by id, `Game._counter` | create, join, leave, destroy, ready, start | lobby commands, maintenance, administrator |
| rooms | `room_manager.py` | rooms | never created by the server | - |
| accounts, personas, bans | `client_handler.py`, `persona_policy.py`, `server.py` | accounts file, names, ban lists | claim a name, reject, ban | registry |
| presence, ready phases, countdown | `client_handler.py` | per-handler and per-game attributes, timers | staged join, promotion, refresh, countdown reset | game table, other handlers |
| wire ids | `client_handler.py` 1366-1408 | per-game map; position in the registry | assign, look up | registry |
| maintenance thread | `server.py` 6353-6398 | - | once a second: idle users, detached users, expiry, matching, saves | registry, game table |
| administrator | `server.py` 2225-3033 | bans | kick, kick from game, close game, ban, reload, save | all |
| UDP race relay | `server.py` 3100-6350 | endpoints, rooms, pending packets | receive, pair, prune, replay, idle cleanup | game table |
| messenger, social | `ea_messenger.py`, `control_handler.py` | control connections, buddies, blocks, files | add, accept, block, message, save | registry |
| quick match | `matchmaking.py` | queue | enqueue, match, expire | game table; nothing enqueues |
| batch reports, challenges | `batch.py` | queue, file; challenges | submit, save, load; challenge, respond, expire | nothing feeds them |
| ranking, statistics | `ranking.py` | tables, files | report, evaluate, save | - |
| master, slave | `master.py` | slave table | update, check | - |
| lobby core | `lobby_core.py` | a second lobby state | not imported by the server | - |
| protocol, configuration | `protocol.py`, `config.py` | - | parse, format, load | all |
| client hooks | `client/online/src` | patched calls, redirected sockets | connect, send, LAN selection | the game binary |

What is hard: every connection has a thread; commands change the state of
*other* users (pruning, departure, race start); connections end at any moment
and users come back on new connections; the maintenance thread, timers and the
administrator act in between; tables have capacities.  What makes the parts
correct: nobody loses a seat or a race behind their back, no slot is lost,
capacities hold, ids are not reused, names are unique, limits limit.

## 2. The modules

| module | models | depends on |
|---|---|---|
| `Games` | a game record and the game table, as operators | - |
| `Lobby` | connections, registry, games, maintenance, administrator | `Games` |
| `Presence`, `Presence_proofs` | what the players of a room are told of each other, timers included | `Games` |
| `Identity`, `MCIdentity`, `Identity_proofs` | names, personas, bans, the registry's index by name | - |
| `Accounts`, `MCAccounts`, `Accounts_proofs` | the account file and the login limiter | - |
| `Consent` | abstract: what the social relations promise | - |
| `Relations`, `MCRelations`, `Relations_proofs` | buddies, requests and blocks in memory and on disk; implements `Consent` | `Consent` |
| `Messenger`, `MCMessenger`, `Messenger_proofs` | the control connections and who is told that who is online | - |
| `MCLobby` | symmetry and a view for TLC | `Lobby` |
| `Lobby_proofs` | theorems on `Lobby` | `Lobby` |
| `Throttle`, `MCThrottle` | the connection throttle | - |
| `Admission`, `MCAdmission` | accept loops, threads, slots | - |
| `Accept_proofs` | theorems on both | `Throttle`, `Admission` |
| `Relay`, `MCRelay` | the UDP relay's tables of endpoints, rooms and kept packets | - |
| `RawOrder`, `MCRawOrder` | the order of the packets that start a race, in one room | - |
| `Relay_proofs` | theorems on both | `Relay`, `RawOrder` |

**Games.**  `participants` is a list in which a uid may occur twice (the seat
swap of a reattachment can put the new uid beside itself) and from which
`remove` takes one occurrence; it is kept as a set of `<<uid, k>>`.  The list's
order only orders fields of frames.  Secrets, kicked uids and results have no
writer in the server and are left out.

**Lobby.**  Every accepted connection makes a `User` with a new uid, so a
connection and its user are one element of `Uid`.  `conn` is the socket,
`connected` and `detached` the flags of the user, `users` the registry, `game`
and `racing` the fields `game` and `stat`, `table` and `counter` the game table.
`game` and `racing` are kept for all users, registered or not, because a handler
holds its user whether or not it is registered.  Each action is one handler with
everything it calls: registration first (`_ensure_registered_user`), pruning
where the handler prunes, the departure notice with the users it resets.
`Search` stands for all the commands that prune and change nothing else.
`Login` for those that register only.  `Disconnect` is a failed send or a kick:
the flag falls while the handler still runs, and the next `sele` raises it.
`STAT_LOBBY` and `STAT_ROOM` are one value.  Time is left out: a grace period
may end at any moment, which allows every order the clock allows.
`_admin_any_handler` finds a handler unless nobody is connected: then departures
are not announced and nobody is sent back to the lobby, as in the code.
Names, addresses and bans decide which ghost a returning client may take; any
ghost may be the one.  A user whom an administrator's ban refuses registers not,
which is no step.

**Throttle.**  The decision is made under a lock: one step.  An admitted
connection is a stamp; `accepted` is a history variable with all of them, which
the properties are about; `attempts` is what the program remembers.  The
dictionary's order decides which stale entries go, so any may.  Names that `Admission`
has too begin with `rate` here: one module of proofs extends both.

**Admission.**  The closure `_run_handler` reads the accept loop's variable
`handler` when its thread runs: `Begin` reads `handler[via[c]]`, which `Accept`
of the next connection may have changed.  `late` and `reloaded` are history
variables: a loop has accepted while a thread it started had not read the
variable; the configuration was reloaded.  The throttle and the bans may refuse
any connection.

**Relay.**  The relay's thread handles one packet at a time, so a packet is one
step, however many endpoints it moves.  `relay` is the record of the thread's
tables: `where` is `client.room` (`Unknown`: no entry), `rooms`, `saved`, `raw`
and `started` are the dictionaries of those names.  Every operation of the code
is an operator from tables to tables, or to the set of tables it may leave:
`Moved` is `_udp_relay_move_client_to_room` with the replay and the pruning it
ends in; `Guessed` stands for the guesses of the opponent (uid bindings, sticky,
last, spoofed, paired and recent peers), which differ in whom they choose and not
in what they do with it, so any known endpoint may be chosen; `Inferred` is the
room of a packet that names none.  Whether a packet is too old, or an endpoint
idle, may be so at any time.  `Probe` is a packet of command 1 or 5 for a room,
`Raw` race traffic, `Other` the rest.  Games come and go by `GameChanges`, in
whatever way the lobby does it; a game whose last player has left is gone.  The
maintenance thread's reset takes the room out of `rooms` first and goes through
the clients later (`ResetBegin`, `ResetEnd`); `overlapped` is a history variable:
the relay's thread did something in between.

**RawOrder.**  One room.  `next`, `buffer` and `rawSent` are the entries for the
room of `raw_order_next`, `raw_order_buffer` and `raw_sent_rooms` of each client,
`stash` the race packets kept aside for the room.  A packet is its sender and its
opcode; all opcodes above 0x69 are one.  The network loses and reorders by
choosing which packet comes when, and repeats by choosing one again.  `sent` is a
history variable: what the last step sent.  `NothingLost` is an action property that
names every way in which a packet may go: out, with its sender when that is
forgotten, with a room that is reset, emptied or too old (`GivesUpRoom`), or because
there was no place to keep it (`NoPlace`).  The names that
`Relay` has too are others here (`Racer`, `OrderSpec`): one module proves about both.

**Presence.**  Who sits where is as in `Lobby`, with `Games`' operators; here the
question is what the clients show.  `shows[v]` are the others of whom v's client
was told last that they are in v's room: `+mgm` and the replies with OPPO fields
replace it, `+who`, `+usm` and `onln` change it for one user.  `later` is the list of
timers and of frames they have computed, in the order in which that happened: a
`threading.Timer` that runs computes its frames first (`RunStaging`, `RunRefresh`)
and sends them to one handler after the other (`SendStaged`, `SendShow`,
`SendRoster`, `SendClear`) while commands and other timers go on.  `phase` is the
attributes of the `Game` objects that presence depends on; `auxi`, `promoted` and
`staged` are attributes of the guest's handler, which a join resets.  Two things
are assumed of time, each with its reason: frames computed before a departure
are sent before its second notice, which comes 0.12 s later (`SendClear`), and a
player does not leave and join again while frames computed for it wait for the
socket (`Served`).  Users stay connected and registered (`Lobby` has the
connections); the ready marks are in `Lobby`; `LOBBY_GJOI_FORCE_READY` is off; of
the two refreshes that follow an EGS one is kept, they show the same; reentry by
`usea` and by `gjoi` are both there, the flag that remembers it is not.  What
clients are told of a room they are not in does not count.  Some deviations were
seen while modelling and are left outside the properties: leaving a race by `gcre` is
not announced to the other racers (`NoPhantoms` is about open rooms); staging
frames may reach a guest that has left within 30 ms, or be sent twice when timer
and promotion meet.

**Identity.**  Who a connection is.  A login or claim is compared with the other users
in one step and assigned in a later one (`at`, `want`: the handler's place in its
frame), so two threads can both pass.  `connected` is set by the keepalive and
cleared by kicks and bans, and the loop looks at it between reads (`LoopEnds`).
`byName` is the index that `add` makes under the name of that moment; names change
afterwards; `remove` goes through all of it.  History variables name the cases
in which the code makes no promise: `loose` (a persona that came with a login frame
and was compared with nobody, or a user who came back by a keepalive or a
command after the others had claimed), `met` (`<<u, p>>`: the last claim of p by u
overlapped another claim of p; a later claim of another persona changes nothing about
it), `hidden` (an entry went to a later user of the same default name), `kicked`.  Passwords and
accounts are in `Accounts`, seats in `Lobby`.

**Accounts.**  Every thread's place is explicit: load, check, save; limiter, load,
match.  The file is saved by rename, so it is whole or not there, except while an
operator writes it; `cache` with `newer` is the copy in memory and the mtime test.
`raced` and `beaten` are history variables: two saves met, or one thread loaded
what it could not read.  `failures` is `_auth_failures`: the lists are sets of numbered times,
of which the cut to the last entries (`Newest`) leaves the newest; which of those of
one moment stay makes no difference, so any may.  `tries` is a history variable: the
logins of an identifier that failed, also those the limiter has forgotten or cut; a
login that succeeds and a start of the process begin it anew.  `FewTries` is about `tries`.

**Relations** and **Consent.**  Keys of personas move when players log in and out
(`_social_canonical_name`), so a friendship may be stored under different keys.
A call computes its two keys one after the other, before the lock (`Call`, `Find`).
A load computes the keys of what it has read name by name, that of a target once
to compare it with its owner's and once more to store it, and the lobby may change
between any two of them: `seen[t]` is how the lobby was, from the reading of the file
until now, and `Rows` lets each key be that of a moment of `seen`, within an owner in the
order of the code.  The order of the owners is that of the JSON file; it is left
open, which allows more than the program does.  Each call is one step under the lock (`Accept`,
`Block`, `Remove`, ...) and then its save: copy under the lock, open, write, each a
step of its own, so saves overlap, fail, or are cut off by `Restart`.  A reload
empties, reads, installs.  `raced`, `mixed` and `moved` are history variables:
saves or loads have met other changes; a load has joined the sets of two keys that
became one; a key has changed while a load computed it.  After that memory may
relate a name to itself, which the payload of a save leaves out (`Copy`).
`Consent` has accounts instead of keys and says who may bring which relation
about; `Promise` in `Relations` is the refinement mapping, and `Consented` is checked.
A reload may lose relations or bring old ones back; it never brings one that
nobody made.

**Messenger.**  A notice is computed under the social lock and sent after it:
`outbox[c]` is what c's thread has still to send.  `told[c][p]` is what client c was
told last about p.  `unsure` is a history variable: notices about p to c by two
threads were under way at once, p's connection changed its persona (which
tells nobody), a block hid p, or a notice was held back because the two are in one
game and not friends (`Teams`).  Any persona may be taken (who may is in
`Identity`) and, as shipped, everybody sees everybody.  The accept loop of the
control port has the same late closure as the one in `Admission`, which is where
it is modelled.

## 3. The runs

| run | constants | shows |
|---|---|---|
| `lobby_seats` | 3 users, 2 games of 2 seats | `GamesWellFormed`, `RacersRace`, `SeatKept`, `RaceEndsWithHost`, `RacerReserved` |
| `lobby_full` | 3 users for 2 slots, 1 game at a time, 2 ids, users dropped while connected; closing detaches or removes; the maintenance thread is fair | `Capacity`, `NoLeakedSlot`, `FreshGame`, `GhostsReleased` |
| `throttle` | 3 addresses, limit 2, window 2, block 3, a table of 2 entries, time to 4 | `RateCap`, `BlockLasts` |
| `admission` | 4 connections, 2 loops, caps 0, 1 and 2 | `SlotsReturn`, `OwnThread`, `SocketCap` |
| `relay` | 4 endpoints for 3 places, 2 rooms, 1 with packets kept, games of 2 | `RoomsMatch`, `StartedLive`, `Caps`, `Crowd`, `HandedOver` |
| `raw_order` | 2 clients, 3 ordered opcodes and the rest, 2 packets kept aside | `BufferAhead`, `NothingLost` |
| `social` | 3 personas of 2 accounts, no file or one of two, each with friends and a request, 2 threads, 4 steps that are calls (2 at most), logins, logouts, reloads, saves by hand and restarts | `TypeOK`, `Mutual`, `OnDisk`, `Consented` |
| `messenger` | 3 connections for 2 slots, 2 personas of which one is the team mate of the other, 2 commands | `TypeOK`, `Agree`, `ToldRight`, `HearsOfLeaving` |
| `accounts` | 2 threads, 2 identifiers, 3 kinds of request, 4 frames, 1 edit, failure or restart, limit 1, time to 2 | `TypeOK`, `AccountsKept`, `NoTwins`, `FewTries` |
| `identity` | 3 connections for 2 places, 2 naming frames, 1 command of the administrator, AUTH_VERIFY on and off, a ban of the third default name in the file | `TypeOK`, `PersonasDistinct`, `NamesFound`, `Leaves` |
| `presence` | a host and a guest, 2 games one after the other, 3 timers or frames under way | `NoPhantoms`, `PromotedStaged`, `StagedSoon` |
| `kick_undone` | as `identity`, 1 naming frame | refutes `KickedGoes` |

Bounds.  `MaxGameId` is how many games are ever created, `Uid` how many
connections ever made: with three, a host, a guest and a third who
returns for the seat of one of them (or looks on, prunes, is turned away) are
there; two games are needed to be in one and join another.  Two seats is the
smallest limit of the code.  `Unsteady` bounds who may lose the connected flag
while online.  `View` merges states that differ in the fields of a user whom no
thread and no table can reach.  `MaxTime` covers two windows of the throttle; a
table of two entries with three addresses overflows at once.  Four connections
are enough for two to share a handler and two more to exceed the cap.  Three
places for endpoints are two racers and one too many; a fourth endpoint finds
the table full.  With one room's packets kept, the second room has none.
`MCRelay` does not go on from a state in which a reset was interrupted (`InStep`):
from there on `RoomsMatch` and `StartedLive` say nothing, and `Caps` is proved.
Three ordered opcodes are a gap, one held behind it and one held behind that.
Two calls are two that meet, with two of the other events in any of their steps; four
steps are also a login, a reload that begins after it, a logout in the middle of the
reload and one step more; the second persona of one account is what makes keys move
and join, and the friendship and the request in the files are what a reload splits or
makes a relation of a name to itself.  Two commands
of the messenger make a notice that is overtaken by another.  A limit of one
failure with two threads is exceeded by one, which is the claim of `FewTries`, and
time to 2 lets a lockout end.  The
two names two connections need to exchange are there, and a third connection to
come back for a ghost.  A game that opens after another is what stale timers of
the first could hit; three entries of `later` are a refresh, the departure it
overlaps (two notices), or a staging and what promotes its guest.

Deadlock is checked in the relay and the order of its packets.  In the other runs
the model stops when its connections, calls or frames are used up or the clock
stands at its bound, and the program waits for the next connection.

Fairness.  `FairSpec` has weak fairness of `Periodic(u)` for every user: the
maintenance thread examines all users every second, the grace periods are
finite, and a user who stays detached is found either by
`_cleanup_detached_race_users` or, if UDP traffic of the race keeps postponing
that, by `kick_inactive`.  Nothing is assumed of clients and administrators.
In `Messenger`, a thread that has something to send sends it: a client that does
not read fails the write and ends its connection.  In `Identity`, a handler goes on
with its frame, the loop looks at the flag at least every `SERVER_TCP_TIMEOUT`, and
the timer of a refusal fires.  In `Presence`, the oldest timer or frame does not
wait for ever; timers fire in any order otherwise.

### What the refuted property says, and other deviations

* `KickedGoes`: a kick, a ban or the sweep of idle users clears `user.connected` and
  leaves the rest to the handler's loop.  If a `sele` frame is read before the loop
  looks, it sets the flag again (`client_handler.py` 2187) and the user stays;
  after the sweep even unregistered, until the next command.  `Leaves` is what
  holds.  The notice with the text of the kick is sent after the flag is cleared
  and so never goes out.
* `gjoi` does not leave the game one is in: a player may sit in two, and when the
  second ends, `user.game` is 0 while the first seat remains.
* `kick_inactive` removes a racing ghost from the registry and not from the game;
  cleanup looks for ghosts in the registry, so the seat stays as long as the race.
* A full table of connection attempts drops an address together with its block.
* A connection's thread that is scheduled after the loop's next accept runs the
  wrong handler; one socket is served twice, one never.
* Only the client whose packet starts a race's room begins its order with its
  first usable opcode; when the 0x65 of the other is lost, all its opcodes up to 0x69
  stay in the buffer.
* A connection that registers under another persona takes the old one down
  without telling anybody; a block hides comings and goings on both sides, but
  not what was told before.
* A reload of the social relations computes each key from who is in the lobby at
  that moment (`ea_messenger.py` 760, 768, 770).  A login or logout meanwhile leaves one
  side of a friendship under another key than the other side, so that a later removal
  takes one side only, or leaves a name related to itself in memory.
* The index of users by name keeps the name of the registration
  (`user_manager.py` 181): a player who has been renamed is found by the old name only.
* A login that succeeds empties the limiter's list, and so does a restart: passwords of
  one identifier can be tried again up to the limit after each.
* An account made by a login (`AUTH_AUTO_ENROLL`) is compared by its login name
  only, so it may share an alias or an address with another.

`RoomsMatch` has the premise that no reset was interrupted because it fails
without it: a client that a packet moves into the room between the two halves of
a reset stays in the room's set with `client.room` empty.  It is about the tables, not
about every packet: one that goes to a guessed opponent or a named target does not
ask the room's set.  A reload of the cap from
0 is excluded from `SocketCap` for a like reason: sockets accepted without a cap
are not counted when they open and are when they close.
`LOBBY_REATTACH_OPEN_GAMES` and `UDP_RELAY_RESET_ON_GAME_START` are never read.

## 4. The proofs

All proofs are for every value of the constants under the named assumptions
(`GamesAssumption`, `NoGameAssumption`, `LobbyAssumption`, `ThrottleAssumption`,
`AdmissionAssumption`, `RawOrderAssumption`, `RelayAssumption`,
`MessengerAssumption`, `IdentityAssumption`, `RelationsAssumption`, `EarlierAssumption`,
`AccountsAssumption`, `PresenceAssumption`; finiteness of addresses, connections and threads is assumed
where they are counted).

* `Lobby_proofs`: `IInv` joins three parts.  `RegistryInv`: the registry is
  finite and within its capacity, and who is in it is connected or detached.
  `GamesInv`: each game has its host among its players, ready players are
  players, entries of one uid are numbered without gaps (that is what makes
  `RemovePlayer` remove one), the limit and the table's capacity hold.
  `SeatsInv`: no game and no pointer has an id that is not yet handed out; it is
  what makes `FreshGame` inductive.  The first lemmas say, for each operator of
  `Games`, what it keeps.  From `IInv` follow
  `TypeCorrect`, `CapacityCorrect`, `GamesCorrect`, `SlotsCorrect`, `FreshIds`.
  Then come the action properties `RaceEndsWithHost`, `SeatKept` and
  `RacerReserved`, one lemma for each action that changes seats.  The last one rests on
  the numbering of entries once more (`Numbered`): one command that takes over a ghost
  renames all its entries, as many as it had, and nobody else's (`TakenOver`).
  `RacersRaceCorrect` has two premises.  `RaceInv` says that a user with a
  connection who is marked as racing is registered and in a game, and that the game of a
  registered one, ghosts included, races and has the user in it.  Users outside the
  registry break it: what ends a race resets the racers it finds registered.  So the premise is `RoomForAll`, that the
  registry is not full while a connected user waits outside it, and
  `FewRacersRace` gives it for as many places as users.  Without it TLC finds the
  behaviour: the host's socket closes in a race, another connection takes the last
  slot, the host comes back to the ghost's seat and status unregistered, the
  administrator closes the game, and the host's next command registers a
  racer without a race.  The other premise is that `LOBBY_GJOI_FORCE_READY` is off:
  with it, `gjoi` marks a player of an open game as racing.
* `Accept_proofs`, on the throttle: `RateCap` speaks of forgotten connections, so the invariant
  adds that everything admitted inside the window is still remembered;
  `BlockLasts` from the count of the table's entries.
  On the slots: `SlotsReturn` always; `OwnThread` while no thread was
  late, because then the loop's variable is the handler of the one thread that
  has not read it; `SocketCap` from the equation of count and open sockets.
* `Relay_proofs`: every operator `Keeps` the types, the limits and the agreement
  of the tables, one lemma for each, put together as the code's calls are.
  `TypeOK`, `RoomsMatch`, `StartedLive` and `Caps` are then inductive together:
  a step of the relay that leaves `overlapped` false was taken outside a reset,
  where `RoomsMatch` and `StartedLive` say that the tables are `Sound`.
  `Crowd` and `HandedOver` compare two states, so each operator also has a lemma
  about the pair of tables before and after it (`Lets`): if a room
  gets somebody new, it ends within its game's size and, with two in it, with nothing
  kept for it; a room that gets nobody keeps no more than it had.  That holds for a move,
  which replays and prunes, and for one call after another.  Only the end of a probe
  is different (`Ends`): it may keep one packet.
  On the order of packets: `BufferAhead`
  needs that a client without an entry of `raw_order_next` that holds packets is
  in a room that has started (`OpenedOK`): else its next packet could begin the
  order behind them.  The types, `OpenedOK` and `BufferAhead` are inductive together
  (`OrderInv`).  `NothingLost` is about one step from such a state: what a replay does
  not keep it sends, and the run of held packets that one lets out when its turn comes is
  sent with it (`RawPacketKeeps`); what other steps take away is named (`LostStep`).
* `Messenger_proofs`: `TypeOK` and `Agree` are inductive together.  The types need
  `Agree`: what a client gets for RGET is a finite list because every persona that is
  online is the persona of one of finitely many connections.  `Agree` needs the
  types: its three parts follow the connection that moves, and the count of slots
  that of the live connections, one more or one less.  `ToldInv`, for `ToldRight`, is
  about what is under way: a notice or a row on its way to a client that has a persona
  tells the truth, or the pair is in `unsure`; a connection that may still get a
  persona has been told nothing; who has a persona is always unsure of itself.
  `PutTold` is the step of every thread that makes notices: when a persona comes or
  goes, each client that is sure of it is among those told (`Audience`), and what
  others have under way to it makes it unsure (`Crossing`, `Read`).
* `Identity_proofs`: `RegistryOK` joins the types of the registry with `NamesFound`:
  adding needs both, for the entry of a name that is taken is that of a registered
  user, who becomes `hidden`.  `ClaimInv`, for `PersonasDistinct`, says what a claim
  may rely on between its comparison and its assignment: two claims of one
  persona know of each other (`Met`), and whoever has the persona without a
  claim that still counts is `loose`.  The history variables are as fine as the proof
  asked for: `met` had been a set of users, forgotten at a user's next claim, and the
  property was false with one frame more than the run has.
* `Accounts_proofs`: `KeptInv`, for `AccountsKept`, is about who may still save: the
  list of a thread that is not `beaten` is that of the file, and so is the cache while
  the times agree, so one account more loses none.  `TwinsInv` needs no history:
  every list a thread holds has twins only by enrolment, and a list that has passed
  the check meets the new account nowhere; a stale list that overwrites the file is such
  a list.  `TriesInv`, for `FewTries`, counts for each identifier the failed logins
  within a lockout and the threads that have passed the limiter for it: together
  they stay below the limit plus the number of threads, because a thread passes only
  if the failures are below the limit, or none is that new.  The limiter counts what
  it remembers; that this is enough is `Remembered`: a failed login that is not in
  `failures` is too old to count, or as many newer ones as are kept are there.
* `Relations_proofs`: the refinement of `Consent` first.  `TypeInv` adds to the types
  that the two keys a thread has computed for its call differ, and keeps until it has
  the lock, and that a load that has read the file has seen a lobby; while `moved` is
  false all lobbies it has seen give a name one key, so the test of a target and the
  value stored agree and memory relates no name to itself (`LoadsSteady`).  `PastInv` says that memory, the file and every copy
  on its way hold only links of `past`, by account: so a step that leaves `past`
  alone, whatever a load chose, a crash lost or a late save brought back, is the
  step `Reload` of `Consent` or a stutter, and only `Ask`, `Accept` and `Block` need
  a step of their own.  Whatever moments the keys of a load are of, they are keys of the
  accounts of the file (`LoadsAccounts`).  `MutualInv` adds the file and the copies to `Mutual`, and
  rests on `EarlierAssumption`, that the file at the start is that of a server in
  which no load had joined two sets; a load that saw no key move
  stores both sides of a friendship under the same keys.  `SaveInv` is about the thread that has been
  alone since it began (`Lone`): what it holds is what memory has, up to the keys that
  moved, and so is the file when it has written; from it follows `OnDisk`.
* `Presence_proofs`: `TypeInv` adds to the types that what waits in `later` is about
  rooms that have been created and that a staging timer has its guest.  `PhantomInv`,
  for `NoPhantoms`, is about the order of `later`: behind each frame that would name a
  player who has gone from the room comes a notice of the departure for the same
  client (`Covers`), and a client that shows such a player has a notice coming.  A
  step that sends the item at a place of the list, or a part of it, leaves what is
  behind it in place (`CoversLess`, `CoversNarrow`, `CoversSent`); the two assumptions on
  time are what the proof rests on where the notice itself goes (`SendClear`) and
  where a player who has left comes back (`Served`).  `StagedInv`, for
  `PromotedStaged`, says that frames under way to a guest that is not promoted are
  of the room it joined, and that it was staged in that room if it was staged.

Model-checked only, because they are out of the prover's reach: the liveness
properties `GhostsReleased`, `HearsOfLeaving`, `Leaves`, `StagedSoon`;
and the refutation, which is a counterexample.  The types of `Lobby`, `Relay`,
`RawOrder`, `Throttle`, `Admission` and `Presence` are proved and not listed in a run.

## 5. Not modelled, and the plan

The components table of `PROJECT.json` names every part and why it is left out:
quick match, batch reports and challenges have no caller that feeds them; no room
is ever created; the lobby core is not imported; protocol and configuration have
no state; the client hooks patch another program; of login frames, required
fields, terms of use, forced rejections and the capture file only refuse or
record.  In order of use, what could come next:

1. `gcre`, `gjoi`, pruning and departure split at their unlocked reads and writes of
   a game, against each other; the abstract specification is the atomic `Lobby`
   restricted to one game.
2. Statistics: the dirty flag and the saves of the maintenance thread.
3. Wire ids that shift, beside `Presence`.
4. The relay's control packets and the bindings of uids to endpoints, with the
   interrupted reset followed to its end.

Every safety property of the passing runs is a theorem.  The next ones belong to
point 1: that the split handlers, where they are right, implement the atomic ones.
