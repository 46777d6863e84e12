# A TLA+ development of the sudo-rm-rf web server and its Dino game

The server is a C++ program on Boost.Asio and Boost.Beast: worker threads run
the handlers of one `io_service`, a dispatcher picks a request handler by URL,
and two of those handlers keep data in files, a CRUD store and the leaderboard
of the Dino game. The game is a page of JavaScript that the server also serves:
the browser calls its handlers one at a time, in an order the player decides,
and it posts its scores to the leaderboard. The modules here model the parts
with state and concurrency; TLC checks them on small instances, and TLAPS proves
most of their safety properties, and both refinements, for instances of every
size.

Paths are relative to the repository (`src/session.cc` is the repository's
`src/session.cc`); `PROJECT.json` maps every definition to its lines.

## Inventory

| Component | State | Operations | Hard behaviour | What makes it correct |
|---|---|---|---|---|
| `DefaultScoreManager` (`src/default_score_manager.cc`) | ranking file, `ranking_lock_`, `ranking_size_` | `new_score`, `get_ranking` | a read-modify-write on a file under a mutex; truncate-then-write; ignored results; restarts with another size | no accepted score is lost, reads are current, damage is never papered over, the lock comes free |
| ranking and `CompareScore` (`src/score_util.cc`) | a sorted vector | `upper_bound`, `insert`, `pop_back` | the comparator is not a strict weak order; ties; size 0; exactly full | the board is the best *k* of the history, newer first |
| `BoostFileSystemIO` | the file system | `read_file`, `write_file`, `delete_file`, `ls`, `exists` | each is several system calls; write errors are not seen | only through its callers |
| `CRUDApiHandler` | one file per entity and id | create, retrieve, update, delete, list | no lock at all; check-then-act on files | with one thread, an atomic store; with several, creates spare older entities |
| `server`, `session` | acceptor, pool, self-owning sessions | `start_accept`, `handle_accept`, `start`, `read_request`, `write_response`, `reset`, `Stop` | `delete this` in handlers; accept chain; stop racing accept; peers that vanish | one owner per session, one accept chain, answers, termination |
| `ScoreRequestHandler` | the factory's long-lived manager | POST `/newscore`, GET `/scoreboard` | one manager per location | its calls reach one manager per file |
| `Dispatcher` | `routes_`, read-only after start | `match`, `assign_request`, `handle_bad_request` | parent-URL recursion; a false status overrides the handler's | the longest registered prefix wins; every response is delimited |
| `NginxConfigParser` | token automaton, block stack | `ParseToken`, `Parse` | unbalanced blocks, quoting, end of file | accepts the token sequences of its grammar and no others; keeps every statement in its block, so that `ToString` writes the file back, but for words whose escapes it has dropped |
| `config_util`, `main` | none | the getters, `validateConfig`, start-up | defaults, narrowing conversions, two readings of the same statements | a validated configuration starts the server it describes |
| static, echo, health, 404, block handlers | none | `handle_request` | one `response_` for all requests of a connection; the static handler looks at the file several times; the block handler holds a thread | each answers with a delimited response of its own |
| `TestFileSystemIO` | a map | the same interface | prefix match in `ls` | agrees with the real one where tests rely on it |
| legacy `ConfigManager`, `Router` | router entries | `ReadConfig`, `register_handler`, `route` | `handler_type` not initialised | duplicates are refused |
| Dino `Runner` (`dino/index.js`) | play state, `raqId`, `updatePending`, listeners, game over window | `update`, `play`, `stop`, `restart`, `gameOver`, `startGame`, `onKeyDown`, `onKeyUp`, `onVisibilityChange`, `adjustDimensions` | frames, keys, focus, hiding, resizes, the intro and the restart button in any order; flags that several handlers set in different orders | the game never freezes, a crash is final, time away is not scored |
| Dino `Trex` | status, ducking, jumping, speed drop, height, velocity | `update`, `startJump`, `endJump`, `updateJump`, `setDuck`, `setSpeedDrop`, `reset` | fields set together by some methods and apart by others | a duck can always be ended |
| Dino `Horizon`, `Obstacle`, collisions | row of obstacles, last types | `updateObstacles`, `addNewObstacle`, `checkForCollision` | obstacles of different speeds in one queue; only the first is checked | the first is the nearest; every row can be passed |
| Dino `HorizonLine`, `Cloud` | two ground images, clouds | `update`, `reset` | late frames | the ground covers the screen |
| Dino `DistanceMeter`, `NightMode` | score, high score, flash and night timers | `update`, `setHighScore`, `invert`, `reset` | timers that only frames advance, ended by redraws and restarts | the score shown and kept is the score run; effects end |
| Dino upload (`popup`) | `scoreUploaded`, promises | click, key, answer | promises that outlive the game they belong to | a game is uploaded once, with its own score |
| Leaderboard page, assets, build, containers | none | - | - | - |

Interaction: a worker takes a completion, the session calls
`Dispatcher::assign_request`, which creates a handler that calls the score
manager or the file system synchronously, on that worker; then the session
starts its write. Handlers share the routes (read-only), the score manager
(under its mutex) and the file system (under nothing).

In the game, `Runner.update` is called by animation frames, and directly by
`play`, `restart` and a key that starts the game. It moves the T-rex, then the
horizon (line, clouds, obstacles), checks the collision with the first obstacle,
and then either ends the game or counts the distance in the meter and the night
mode. The game over window posts the final score to `ScoreRequestHandler`.

## Modules

| Module | Models | State and steps |
|---|---|---|
| `Ranking` | comparator and insertion | operators; `UpperBound` is the position, `Inserted` the insert-and-drop; `TopOf` and `NothingLost` are the independent definitions |
| `RankingFold` | one board fed with a history | also libstdc++'s binary search, `BinaryUpperBound` |
| `ConfigParser` | `NginxConfigParser` | one step per character; `Take` is one turn of `Parse`'s loop, `stack` its `config_stack`; `Configs` is the grammar |
| `ConfigPrinter` | `NginxConfig::ToString` | `Printed`, the tokens it writes, `"OTHER"` for a word whose stored text is not read back as that word; in a module of its own because it is a RECURSIVE operator |
| `Startup` | `config_util`, `main`, `Dispatcher::match` | `Locate` writes the configuration, `Main` starts the server from it |
| `Responses` | `session`'s `response_`, `assign_request` and all handlers | one step per answer, one per `reset` |
| `SequentialParts` | `RankingFold`, `ConfigPrinter`, `Startup`, `Responses` side by side | `part` says which of them a behaviour is about; a connection begins with `Main` |
| `ScoreManager` | `DefaultScoreManager` on its file | one step per file or lock call of `new_score` and `get_ranking`: lock, exists, read, re-check, initialise (open, write), rank, open, write, unlock. `file` is absent, torn or a document. `Crash` drops all threads and locks and may change the size |
| `Leaderboard` | the promise of `ScoreManager` (the interface) | every call acts at one instant |
| `ScoreManagerRefinement` | `ScoreManager` implements `Leaderboard` | the board is the file's last document; damage is a torn file nobody is about to rewrite |
| `RankingProofs`, `ScoreManagerProofs` | theorems, the refinement of `Leaderboard` included | see below |
| `SequentialProofs` | theorems about `RankingFold`, `Startup` and `Responses` | see below |
| `ParserProofs` | theorems about `ConfigParser` | see below |
| `CrudApi` | `CRUDApiHandler` over `BoostFileSystemIO` | one step per file call; `linked` says whether a writer's open file still has its name |
| `EntityStore` | the promise of the CRUD API | every request acts at one instant; `Failed` is the 500 of a create, an update or a delete, and `NoEntity` the 404 where the header promises an empty list |
| `CrudApiRefinement` | `CrudApi` implements `EntityStore` | the store is what the files hold, or, between truncating and writing, what the writer is about to put there |
| `MCCrudApi` | `CrudApiRefinement` with symmetry, for the runs | |
| `CrudApiProofs` | theorems, the refinement of `EntityStore` included | see below |
| `Trex` | `Trex` of `dino/index.js` | operators on the T-rex record, one per method |
| `Runner` | the control of the game, with the T-rex | `game` is the Runner object; one operator per method, one action per event of the browser: a frame (the one `raqId` names, or a stray), a key, the restart button, the end of the intro, leaving, returning, a resize and its debounced timer |
| `RunnerProofs` | theorems | see below |
| `Obstacles` | `Obstacle`, the row in `Horizon`, `checkForCollision` | `UpdateObstacles` is one `updateObstacles`, after a frame of any length in `FrameTimes` or a resize; `Collides` compares the boxes of the source |
| `Passing` | a T-rex against the row | `chances` is the set of T-rexes a player may still have, so one behaviour covers every choice of keys |
| `Scenery` | `HorizonLine`, `Cloud` | one step per frame, late frame and restart; a resize is a frame that moves nothing |
| `Meter` | `DistanceMeter`, `NightMode`, `invert` | one step per frame and game over, leaving and looking at the page again, resize, key that starts a stopped game (a late frame), restart |
| `Upload` | the upload button and its chain of promises; the server's answers | one step per click, arrival, failure, game over and restart; `ServerAnswers` is a 200, which stores the score or does not |
| `DinoProofs` | theorems about `Upload`, `Scenery`, `Obstacles` and `Meter` | see below |
| `MCDino` | `Obstacles`, `Passing`, `Scenery`, `Meter`, `Upload` side by side | `part` says which of them a behaviour is about |
| `Server` | `server` and `session` | an outstanding operation and its completion for every session; workers take completions and run the handlers; the accept after `handle_accept` and the two halves of `Stop` are steps of their own |
| `ServerProofs` | theorems | see below |

Abstractions. A torn file keeps, for the properties alone, the ranking it last
held; no step of the code reads it. A document is a ranking: what
`ScoresToJson` writes, `GetScoresFromJson` reads back, and a file cut short does
not parse. A body is a model value; two writers that truncate and then both
write leave one body or a mixture of both (`Mixed`). `ls` is one step. URLs are
token sequences as `parseURL` returns them. In `Server` a request is of one of
three kinds: one that a handler serves, one no location matches, one Beast
refuses with `bad_target`. What the kernel and the clients do is modelled from
how the code uses Asio and is marked external.

`ConfigParser` keeps the classes of characters that the lexer tells apart and
of each word of a statement whether its text is plain, that is, whether `ParseToken`
would take that text for the same word again; a token is its `TokenType`. `Startup` takes the
statements of a configuration kind by kind, because every getter looks for one
kind; a path is the sequence of the texts between its slashes; the settings of a
location are one flag, that it has what `validateConfig` requires for its type.
`Responses` names a body by the request it was made for and a Content-Length by
the body it was counted from, so that a body or a length of another request
would be seen; what files and the score manager say is a free choice there.

In the game, pixels are integers, `currentSpeed` is counted in tenths and the
time between frames in hundredths of a millisecond. The speed
changes only between frames, by what `Accelerate` names: while an obstacle is on
its way, or before the first one comes, by no more than `Growth`, one pixel per
frame, which the code needs 1000 updates for. One loop of 170 frames in a second makes
some 510 in the three seconds before the first obstacle; a game in which so many uncancelled
loops run side by side that there are 1000 is outside of it. The canvas has its default width. `getRandomNum` is a
free choice, of a gap between the shortest and the longest for obstacles and of
any gap in `CloudGaps` for clouds. `Runner` leaves the obstacles out: whether
the T-rex hits one is a free choice (`hit`) from the moment there may be any,
and `Passing` says when it is really hit. Images and what is drawn are left out;
an image that is hidden or shown by a flag keeps the flag. Times and distances
in `Runner` are not told apart beyond `MaxTime` and `MaxDistance`; nothing but
`ClearTime` compares them. History variables (`left`, `resumed`, `returns`,
`resizes`, `finals`, `quick`, `late`, `best`, `nights`, `interrupted`, `doubtful`, and
`born` and `idle` of an obstacle) are written by the actions and read by properties and
bounds only.

Definitions that begin with "Slip:" are mistakes a change of the code could
make. No specification uses them; every property is known to fail when the one
named for it in `PROJECT.json` replaces the real definition.

## Runs

| Run | Instance | Shows |
|---|---|---|
| `SequentialParts` | ranking: 2 users, 3 values, sizes 0-3, 5 scores; parser: files of up to 8 tokens, every class of character at every place; start-up: 2 `port`, 1 `num_threads` and 3 `location` statements of 9 kinds; connection: 3 requests of 50 kinds | the board is `TopOf` of its history, and the binary search agrees with the linear one although `CompareScore` is not strict; the parser accepts the grammar (`ParsesConfigs`) and what it builds is written back as what the file says, token for token but for words whose escapes it dropped (`WritesBack`); requests find the location the file means; every response has its own body and that body's length |
| `ScoreCore` | 2 threads, 1 manager, size 2, 3 scores, 1 crash, 1 fault | exclusion; the board is the best of all accepted scores in the order they took effect; reads are current; damage stays; the lock comes free |
| `ScoreRefine` | sizes 0-2 chosen anew at the crash, 1 fault | the manager implements `Leaderboard`; nothing is lost to something worse; an oversized board is frozen |
| `CrudConcurrent` | 2 threads, 1 entity, 1 body, 3 creates, 1 crash, 1 fault | a create never overwrites an entity older than its request; overlapping requests leave no empty entity behind |
| `CrudRefine` | 1 thread, 2 entities, 3 creates, 2 crashes, 1 fault | the handlers implement `EntityStore`: creates take free ids, updates need an entity, reads are whole, a call that fails (a delete too) changes nothing or spoils what it was writing |
| `DinoRunner` | frames of 0 or 100 ms, 2 games, 2 returns, 1 resize | the game never freezes; a crash is final until the restart button; uncancelled loops are few; nothing is scored before the intro or while away; a duck can be released |
| `DinoScenery` | 5 speeds, frames of 0 and 6.94 ms (144 Hz), groups of 1 and 3 obstacles, 2 obstacles to pass; a line 8 wide with frames that move it 0 to 5 and late ones that move it 9 or 40; 3 clouds; runs past the first achievements and nights, into one more digit, pauses, resizes and late frames; 3 games and 3 uploads | the row is in order and its first obstacle the nearest (`RowInPlace`); no three alike; every pair can be passed at every speed; the ground covers the screen, or does again soon after a late frame, and the clouds keep their gaps (`SceneryInPlace`); a crash keeps its score; night and flash end; uploads carry their own game's score |
| `ServerRun` | 2 threads, 2 addresses, 2 requests per connection, 1 failing accept, resets, a signal | every session has one owner; one accept chain; abandoned sessions end, requests are answered, a signal ends `run` |

In both refinements the abstract specification knows whether a call of the file
system has failed (`faulty`): until one has, an atomic board refuses only when
a crash damaged it or when it is oversized, and an atomic store never answers
500 or loses a body. In one place `EntityStore` promises less than the header of the
handler: `include/crud_api_handler.h:55` says "Returns the list of file names in the response, or empty
list for no existing entity", and `handle_list_request` answers 404 for
an entity without a directory (`NoEntity`). Without that action the run fails at its first
GET of an entity, which is recorded as a finding.

Four runs refute a statement of the repository, each recorded as a finding:

| Run | Statement | What happens |
|---|---|---|
| `ScoreSharedLost` | "Should be a Singleton", "Atomically push a new score" | two score locations on one file have two locks, and a score is lost |
| `CrudSameId` | "Finds next available ID" | two creates take one id |
| `ServerUnrouted` | "generate error message if failed to generate response" | a 500 without a length on a connection that stays open: the client waits for ever |
| `DinoResetDucks` | "Reset the t-rex to running at start of game." (`dino/index.js:1982`) | after a crash in a speed drop, `reset` calls `update` while `speedDrop` is set, and the next game starts with a T-rex that ducks and cannot jump until a duck key is released |

`ScoreRefine` also reaches `RankOversized`, whose message in
`src/default_score_manager.cc` says "This should not happen.": a restart with a
smaller `leaderboard_size` is enough, and from then on every new score is refused.

Two more races of the CRUD handlers are visible in `CrudApi` with two workers
and follow from the same missing lock. An update writes back an entity that was
deleted after the lookup (`Read`, then another worker's `Remove`, then `Open`),
although `include/crud_api_handler.h` says "FAIL if DNE". A GET between another
request's `Open` and `Write` answers 200 with an empty body. `CrudRefine` shows
that neither happens with one thread, which is the server's default.

The start-up models show more, without a statement of the source that a run could
refute. A word that the end of the file cuts short is dropped, so
`port 80; foo` is a valid configuration; `ParsesConfigs` is therefore about
the tokens that `Parse` is given. `ReadNextCharEscape` stores an escaped character
without its backslash and `ToString` writes the stored text, so a word with an escaped
backslash or an escape of its own quote is not written back as it was:
`foo "bar\"";`, which `tests/config_parser_test.cc:39` wants accepted, is printed as
`foo "bar"";`, which `Parse` refuses, and `"a\" \"b"` as two words.
`WritesBack` claims a word's token only where its text is plain. After a brace that closes the outermost block,
a word or another brace uses the top of an empty stack, which is undefined
(`outcome` is `"undefined"`; the property shows that no file that could become a
configuration comes there). `num_threads 0` passes validation, and the server
ends as soon as it has started. Ports are converted to `short`: those above
32767 are refused, a negative one is listened on modulo 65536.
`getDispatcherEntriesFromConfig` gives up at a handler type that it does not
know, and `map_config_to_handler_factory` then succeeds with no routes at all;
only `validateConfig` keeps such a configuration away, which is what the mutant
of `RequestsFindTheirLocation` undoes. A location with a trailing slash matches
nothing but itself. A CRUD or score location at `/` never sees the first segment
below it, since `parseURL` drops what is before the first slash (`Below`). A request that
`ScoreRequestHandler` refuses through `handle_bad_request` reaches the client as
a 500 with the body of a 400, because the handler returns false;
`tests/score_request_handler_test.cc:108` expects true there. The static handler's
own calls of the file system may throw (`src/static_request_handler.cc:53` and `:64`),
which nothing between there and the worker catches (`src/session.cc:39`); such
a request is no answer and so not in `Responses`, and `Server`'s `HandlerThrows` is
what it does to the process.

The models of the game show more behaviour of that kind, for which the source makes no
statement to refute. A failed upload stays marked "You have already uploaded
this score." (`dino/index.js:843`), so it cannot be tried again in that game. "Success!"
(`dino/index.js:881`) does not mean that the score is on the leaderboard: `new_score` returns true
for a score too low for a full board (`src/default_score_manager.cc:32`), and a write
that fails unseen answers 200 too. `UploadsAreFinal` is therefore about what is
stored, not about what the player is told. The key that
`onKeyUp` would restart a crashed game with (`dino/index.js:752-760`) never arrives, because `gameOver`
stops listening: only the button restarts.
A key that starts the game while the frame of the waiting T-rex is pending, and
every return to the page, may leave a frame that `stop` cannot cancel
(`strays`): the loops run on side by side and each call moves the game;
`LoopsAreFew` counts them, and `RunnerProofs` shows that there are never more.
`play` sets the status to running without ending a duck, so a game that was left
in a speed drop goes on with a T-rex that stays down until the restart;
`DuckCanBeReleased` therefore excepts resumed games.

A resize stops the game without resetting its clock, and the jump key that starts
it again takes the whole pause for one frame. `Late` of `Scenery` and `MeterKey` of
`Meter` are that frame. It may move the ground by more than its
width, and then a part of the canvas is bare, until the further frames have
brought the pieces back (`LineCoversScreen` says how many at most). If it brings another
digit while the digits flash, and the game is over before they are updated, the high
score lacks its first digit (`doubtful`). If it leads from one multiple of
`INVERT_DISTANCE` to another, a frame of no time may begin a night with a timer of 0,
which never ends by itself; `NightIsTimed` excepts such games in its second and third part.

In frames of less than 5.89 ms, which only a display of more than 170 Hz has, the
order of the obstacles may break: every frame moves an obstacle by whole
pixels, a cactus loses more of its way by it than the faster pterodactyl behind it,
and may be overtaken. `RowInPlace` excepts a game that had such a frame (`quick`).

The bounds. Two threads are enough for every race between two sequences of
calls, and the lock and the file are the only things shared. Boards of two
entries are full, not full and oversized within three scores. Three creates are enough for a
deletion to leave a gap below an identifier in use, where an identifier chosen
by any other rule would collide; the two properties of `CrudConcurrent` do not
tell bodies apart, so it has one. One fault and one
or two crashes at any step reach every error path, alone and combined. In
`Server`, two addresses are one connection beside the session that accepts, so
the run overlaps a session's handlers with the accept chain, signals and `Stop`
on two threads, and addresses are used again after a deletion; sessions share no
state with each other, and the properties are stated for each. `MaxAccepted`, `MaxCreates`,
`MaxSent`, `MaxCrashes`, `MaxFaults` and `MaxAcceptErrors` are bounds of the
runs, not of the code. `Connect` waits for a free address, which bounds the
sessions that live at once.

In `SequentialParts`, 8 tokens are enough for two nested blocks side by side with
statements in them, and for every pair of tokens in every state of the stack.
The locations have a path, one below it, one beside it, a duplicate, a trailing slash,
`/` and none, and the three ways in which validation fails; three of them in
every order, with all targets of up to four segments, meet every case of
longest and last. Three requests of a connection have one whose answer is left
behind, one without a location and one that might carry on; the handlers
distinguish no more than the location's type, the method and the tokens below.

For the game, `Elapsed` has the update that takes no time, as `play` and
`restart` make it, and one that is longer than `ClearTime`, so every comparison
of times falls both ways. Two games have a first one with the intro and a second
without; two returns meet each other and every state of both games; one resize
meets all of these. `DinoScenery`'s speeds are the first three a pixel apart, which `Growth` allows while an obstacle
is on its way, one at which every type may appear, and the last, `MAX_SPEED`.
At 144 Hz the whole pixels lose more of an obstacle's way than at 60, and a second frame
loop adds frames of no time. Whether a pair can be passed depends on two neighbours
only, and is looked at in steps of `StepTime`, 20 ms. The line's frames cover moves below and beyond its width, and `MaxLate` two late frames
before the ground is back from the first. Three
games and three uploads have an upload that outlives one game and meets the
next one's. `LoopsAreFew` and the other properties of `DinoRunner` do not depend
on these bounds: they are proved for all. So is the type correctness of `Runner`
(`RunnerTypeOK`), which the run therefore does not repeat. The meter of the run has one digit
instead of five, an achievement and a night at every five units of score,
frames of 26 pixels and late ones of eleven times as much, so that runs of a few dozen frames meet all that runs of
the game do; `ScoreNumbers` and `NightNumbers`, which TLC evaluates for these numbers,
are what they have in common with those of the code (see Proofs).

Deadlock is checked in the runs of `ScoreManager` and `CrudApi`. `SequentialParts`
stops at its bounds and where a file ends or a server is refused, and `Server` when the process ends, and their runs say so. So
do the runs of the game: nothing is left to happen when the T-rex has blinked
its last time and the player is gone, or when the last game of the bound is over.

## Fairness

`ScoreManager.FairSpec`: a thread keeps running a call it has begun (weak
fairness of its steps). `boost::mutex` promises no order, so a waiting thread
may be overtaken for ever, and no property says it is not: `LockComesFree` is
about the owner.

`Server.FairSpec`: weak fairness of every worker's handler and of the kernel's
completions, strong fairness of taking a completion that is ready, because Asio
runs its completion queue first in, first out and so a ready completion is not
overtaken for ever. Clients and signals have no fairness.
`RequestsAnswered` is about served and malformed requests; the unrouted ones
are `ServerUnrouted`'s. An uncaught exception on a worker (`HandlerThrows`:
`remote_endpoint` of a peer that is gone) ends the process, and every liveness
property excepts that.

`MCDino.Fairness` and `Meter.MeterFairness`: while the game is played, the browser
goes on calling its frames and time passes between them. A game that has stopped, at a crash,
a resize or when the page was left, has no frames, and nothing is assumed to start it again. It is all that the timers of
the flash and of the night depend on (`EffectsEnd`). `EffectsEnd` therefore
says that they end or the game stops. `Runner`
has no fairness and no liveness property: the player may always stop playing.

## Proofs

Every invariant named below as inductive (`IInv`, `BestInv`, `Knows`, `Alone`,
`UploadInv`, `SceneryInv`, `ObstaclesInv`, `RowInv`, `ScoreInv`, `NightInv`,
`Configured`, `Clean`) was an
invariant of its run's instance before it was proved. The theorems hold for
every value of the constants that the `ASSUME`s of their module allow; what a
theorem assumes beyond these is in its statement and named here.

**The leaderboard.** `RankingProofs` proves, for rankings of any length and any size, that
`UpperBound` is the first position the new score may take (`UpperBoundIsFirst`),
what `Inserted` contains (`InsertedElements`, `InsertedMembers`), that it stays
ordered (`InsertedIsRanking`), and that what it drops is beaten by all that
stays (`InsertedLosesNothing`, `InsertedHasNewScore`). `TopOfAppend` is the
bridge to the declarative `TopOf`: inserting a score into the best *k* of a
history, or refusing it, gives the best *k* of the longer history. It needs that
`Place` is a bijection between scores and ranks (`PlacesAreTaken`), which is an
argument about cardinalities, and what a last score does to the places of the
others (`PlacesAfterAppend`).

`ScoreManagerProofs` proves for every number of threads, managers, users, values,
sizes and every bound:

- `TypeCorrect`: `Spec => []TypeOK`;
- `MutualExclusion`: `Spec => []LockExcludes`, inductive together with `TypeOK`;
- `Genuine`: `Spec => []BoardIsGenuine`, even with several managers on one file.
  It needs `GenuineInv`: the vectors that calls carry are themselves ordered and
  made of accepted scores and the caller's own, since they become the file.

and, assuming `OneManager` (one manager owns the file, which is what the header
asks for):

- `BoardNeverLoses`, `TrueIsKept`, `GetReturnsBoard`, `DamageStays`,
  `OversizedStays`;
- `BoardIsBestOfAll`: the file is `TopOf` of all scores that were ever accepted
  (`BoardIsTopOfAccepted`), if every process is started with one size;
- `SpecImplementsLeaderboard`: `ScoreManager` implements `Leaderboard`, crashes
  that change the size and faults included.

These rest on `IInv`, the conjunction of `TypeOK`, `LockExcludes`, `GenuineInv`
and `StoreInv`. None of the properties is inductive: a `Write` loses nothing only
because the vector it stores was derived from the file as it *still* is.
`StoreInv` says so step by step (what the owner of the lock has read agrees with
the file, by the step it is at), and its preservation needs `LockExcludes`: no
other thread has moved the file meanwhile. Steps of the owner and steps of
others are separate lemmas (`InsideStore`, `OutsideStore`), and `NextIInv` joins
them. `BoardIsBestOfAll` adds `BestInv`: between the moment a score is accepted
and the moment it is on file, the vector in the caller's hands is already the
best of all. The refinement adds `Knows`: a call that has failed has a fault or
a damaged file to blame, and one that has not will store what the abstract step
says; then one lemma per abstract step (`ShowIs`, `RegisterIs`, `RefuseIs`,
`BreakIs`, `FailIs`, `StutterIs`) and one per concrete action
(`InsideImplements`, `LockImplements`, `CrashImplements`, ...).

The assumptions are those of `ScoreManager` (`None` is not a thread, scores are
integers, sizes and bounds are naturals).

**The CRUD API.** `CrudApiProofs` proves, for every number of threads, entities,
bodies and every bound, `SpecTypeOK`, `SpecCreateSparesOlder` and
`SpecEmptyOnlyUnderWriter`. The types are not obvious here: that an identifier
is one of `Ids` says that `ls` never sees more files than there were creates,
and two creates may choose the same identifier. `IdsCounted` counts: an
identifier in use, or about to be, plus the creates that have yet to choose, is
at most the number of creates. `OlderStored` (what has been there all along is
there) is what `CreateSparesOlder` rests on: the identifier chosen is greater
than every one in the directory at `ls`, hence of no older entity, and what
appeared since then is not older.
It also proves `SpecImplementsEntityStore`, the simulation of `EntityStore`,
assuming `Workers = {w}`, one thread, which is the server's
default: with two threads it is false (`CrudSameId`, and the races above).
`Alone` says what the thread's request knows of the file between its calls; one
lemma per file call shows the abstract step it makes, or that it makes none.

**The server.** `ServerProofs` proves, for all threads, sessions, requests and
bounds, `SpecTypeOK`, `SpecOneOwner` and `SpecOneAccept`. `IInv` states owner and
accept chain without cardinalities (`Owned`, `Chained`), so that each handler's
step moves one owner from an operation to a worker or back, and two lemmas
count at the end. `ReadyWasOutstanding` is needed since a completion that
nobody waits for would be taken a second time, `Counted` and `Unconnected`
because `owed` must not go below zero: a response that is sent to an open
connection was owed for a request that had been read.

**Start-up, answers and ranking.** `SequentialProofs` proves:

- `RankingStaysRight`: `FoldSpec => []RankingIsRight` for any number of scores;
  `BinaryIsLinear` is the correctness of the binary search on every ordered
  ranking, although `CompareScore` is not strict;
- `RequestsAreRouted`: `StartupSpec => []RequestsFindTheirLocation` for every
  set of statements and path texts. The climb of `Dispatcher::match` from a
  target towards `/` (`MatchIsNearest`) and the file's own meaning
  (`MeantIsNearest`) are both equal to `Nearest`, the longest of the target's
  beginnings that has a route. The climb is a recursive function, and the
  induction over it is one over the least depth at which it could differ;
- `AnswersStayWhole`: `ConnectionSpec => []ResponsesAreWhole`, for every
  configuration, request and outcome. `HandleFits` goes through every branch of
  every handler; `Clean` says what the shared response is between two requests,
  which is what `reset` has to establish.

`ConnectionSpec` is a start-up followed by the answers of one connection;
`SequentialParts` runs it with start-ups fixed in `ConnectionConfigs`.

**The parser.** `ParserProofs` proves `FilesAreParsed`
(`ParserSpec => []ParsesConfigs`) for files of any length with blocks of any
depth: `Parse` accepts exactly the configurations of the grammar among the
token sequences it is given, goes on exactly as long as one can begin with what
it has read, and uses an empty stack only when none can. The grammar is
recursive and says nothing of a stack; the parser has a stack and a last token
and no grammar. Both are compared with a third description, which is neither,
`Open`: every token may follow the one before it, and no beginning of the
sequence closes more blocks than it opens (`Height`). `Whole` adds that all
blocks are closed and the last statement has ended.

- `WholesAreGrammar`: `Whole` satisfies the recursive equation of the grammar. A
  whole sequence that is not empty has a first statement, which ends at the
  first place where the height is back at zero;
- `GrammarIsUnique`: two predicates that satisfy that equation agree, by the
  least length at which they could differ; hence `Configs[s]` is `Whole(s)`
  (`ConfigsAreWholes`);
- `ViableIsOpen` and `OpenIsViable`: a configuration can begin with the tokens
  exactly if they are open; what is missing is at most a semicolon and as many
  closing braces as the height says;
- `Knows`, the inductive invariant: while `Parse` goes on, every token taken may
  follow the one before it, `last` is the type of the last of them, and the
  stack is one longer than their height. Only the last of them may have brought
  the height below zero, by closing the outermost block, and then the stack is empty.
  `TakeKeeps` is one turn of the loop, with one step per type of token.

**The game.** `RunnerProofs` proves for all sets of elapsed times, all speeds and all bounds on
games, returns and resizes:

- `RunnerTypeCorrect`, `CrashStays` (`CrashIsFinal`), `FramesGoOn`
  (`NeverFreezes`), `LoopsAreCounted` (`LoopsAreFew`), `IntroComesFirst`
  (`ScoreNeedsIntro`), `DucksEnd` (`DuckCanBeReleased`) and the action property
  `AwayIsFree` (`AwayIsNotScored`).

Its `IInv` adds to the types what the handlers rely on without checking it.
`Sound` ties the flags of the game to each other (a crashed game has its one
window, does not listen and has no frame it could cancel; an activated game is
shown its intro or has been) and the T-rex's to its status (`InOrder`). `Framed`
says which frames the browser still has to call: one that `stop` can cancel
while the game plays, none of that kind once it has begun and does not, and at
most one stray before the intro. None of the properties is inductive alone:
`LoopsAreFew` holds only because a game that a key starts can leave just one
stray, which is `Framed`'s last part, and `AwayIsNotScored` because a game that
stopped for leaving stays with a page that is hidden or unfocused, which no key
reaches; that is the last conjunct of `IInv`. `Update` passes through states in
which `Framed` does not hold (the flag is cleared first, the next frame asked
for last), so it has a weaker precondition, `Ready`. Every method has a lemma
that says what it preserves, and each action's lemma cites the methods it calls.

`DinoProofs` proves about the parts beside the control:

- `UploadsStayFinal` (`UploadsAreFinal`), for any number of games and uploads in
  flight. `PostsKnow` ties every promise to the game it was made in, and
  `WindowKnows` says that the window of a game that has not been uploaded has no
  post on its way, which is why a late promise cannot meet the next game's mark.
  Whether the server stores what it answers 200 to is free;
- `SceneryStaysInPlace` (`SceneryInPlace`), for every width, gap and movement,
  the sets of movements being those that `SceneryAssumption` names. `Within` says how far
  the two pieces of the line may be off after late frames: each late frame adds
  what it moves them by (`LineGoesAway`), and every ordinary one takes at least a width off
  (`LineComesBack`), so that after `late` of them the canvas is covered. `InSight`
  (the filter) keeps order, and a cloud that is added lies beyond the last one's
  gap;
- `ObstaclesVary` (`NoThreeAlike`), for every set of speeds and sizes of the code:
  `HistoryKnows` says that the history begins with the types of the last two
  obstacles, also after a restart, when it says more than the row does;
- `RowStaysInPlace` (`RowInPlace`), for all speeds of the game, sizes and gaps
  and frames of any lengths, long and short ones and such of no time mixed, in a game
  none of whose frames was shorter than `Steady`. That one obstacle does not reach the next says
  nothing of the frames to come, since pterodactyls move faster or slower than the
  ground by 0.8 pixels. `Spaced` is the room that lasts: none in particular behind an obstacle
  that is as fast; a third of the way that is left to the left edge between a
  cactus and a fast pterodactyl; all of it between a slow one and what is behind.
  `Floors` compares the whole pixels that a frame moves them by: at 8.5 or more, the
  speed from which there are pterodactyls, and in frames of `Steady` or more, where a
  cactus moves 3 pixels at least, three frames of a fast one are no more than four
  of a cactus, and two of a slow one no less than one of anything. `SpacedKeeps` follows,
  and with it that an obstacle leaves the canvas only with the ones before it, so that
  `Forward`'s count is a prefix (`PrefixIs`). `getGap` is what gives a new obstacle
  that room (`NewIsSpaced`): the gap grows with the speed, and the speed is, by `Growth`,
  still about the one at which the obstacle before was made. A redraw after a resize draws its gap
  for the speed zero, which would be too small before a pterodactyl, but it makes an
  obstacle only in an empty row (`RedrawWaits`): in any other the last obstacle still waits
  for its gap (`LastWaits`), and a row is empty only at the start of a game, when there are
  no pterodactyls yet. The next one comes so close behind it that it may be a few pixels nearer than
  the T-rex's right edge while the first is still on the canvas, which `OnlyFirstIsNear` excepts;
- `CrashesAreScored` (`CrashIsScored`): the digits are not updated while they flash, so a
  crash shows the right score only if the flash of one achievement is over
  before the next score that matters. `FlashingSince` bounds how far the run has come
  since the flash began, by the frames that `flashTimer` and
  `flashIterations` have counted. In a game that a late frame has interrupted it says nothing until the game is
  over, when the digits are updated; the high score of such a game is excepted (`doubtful`);
- `NightsAreTimed` (`NightIsTimed`): `NightKnows` says where in the run the night
  or the fading of its moon began, in a game that nothing interrupted, so that no second night begins at the score of the
  first or before its moon is gone; `MoonKnows` counts the phases.

The last two hold for every value of the constants with the relations that
`ScoreNumbers` and `NightNumbers` state, and the numbers of the code have
them. A frame at 60 Hz takes 16 or 17 ms and brings at most 13 pixels (`MAX_SPEED`);
a unit of score is 40 pixels. A flash is four rounds of 500 ms (`FLASH_ITERATIONS` 3, counted from 0)
and a frame that ends it, less than five rounds, which are 160 frames or 2080
pixels at most, and the next achievement is `ACHIEVEMENT_DISTANCE` 100 units or 4000 pixels on.
A night is `INVERT_FADE_DURATION` 12000 ms, some 706 to 751 frames, and its moon
fades for 29 more; that is above 40 pixels and at most 10140, and the next night is
`INVERT_DISTANCE` 700 units or 28000 pixels on. `MAX_DISTANCE_UNITS` is 5 and
100000 a multiple of 100, so the digit that is added is added at a score that
flashes. The last part of each relation is about `MaxRun`, the bound of the
model: it is not a score at which anything begins.

Induction over data is not available to the provers, so these proofs replace it
by the least counterexample: `LeastNatural` and `LeastOne` follow from the
well-foundedness of the naturals.

Model-checked only, and why:

- liveness (`LockComesFree`, `RequestsAnswered`, `LeftSessionsEnd`,
  `RunReturns`, `EffectsEnd`): fairness and ENABLED are beyond the prover;
- `WritesBack`: `Printed` recurses over blocks within blocks, a RECURSIVE operator,
  which the prover does not support, and what it writes of every stack is an
  induction over data;
- `CanBePassed`: it is a fact about the numbers of the game, the flight of the
  T-rex frame by frame against the boxes of every obstacle at every distance, which
  TLC computes and no invariant shortens.

## Not modelled, and why

`PROJECT.json` lists every component with its status. Not modelled but within
reach: which file the static handler serves while the file system changes, the
values of a location's settings (`leaderboard_file` has no effect: the factory
reads `score_storage` twice), the fake file system of the tests, and the legacy
`ConfigManager` and `Router`, which are built and tested but used by no server. Left out for good:
the logger, the MIME table, the leaderboard page (one fetch and a table, no
state), TLS itself, HMAC as a computation, build files and assets. Of the game:
images and sounds, everything that is only drawn, touch input (it calls the same
handlers as the keys), arcade scaling, the other speeds and heights of mobile
devices and narrow windows (whose canvas is less than 600 wide: the T-rex and the gaps stay as they are,
the room for a next obstacle does not), the start screen of the disabled runner, and
`GameOverPanel`, which nothing constructs.

## Plan

Done: the leaderboard, the CRUD store, the server and its sessions, the game, the
configuration from its characters to the routes, the responses of the handlers,
and the proofs of both refinements and of the safety properties above. What is left, in order:

1. `StaticHandler` (the file looked at several times while it changes) and
   `TestFileSystemIO` against the file system of `CrudApi`.
2. The legacy configuration.
3. The other widths of the canvas and the other speeds of mobile devices, in `Obstacles`.
