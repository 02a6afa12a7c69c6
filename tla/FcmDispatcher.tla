--------------------------- MODULE FcmDispatcher ---------------------------
(***************************************************************************)
(* The push dispatcher: the table of device tokens, the list of them kept  *)
(* in memory, registrations served by the API, and the pushes of the main  *)
(* loop, one at a time, in batches.                                        *)
(* Code: src/src/fcm_dispatcher.py, src/src/db.py.                         *)
(*                                                                         *)
(* A task is suspended while its request to the database is under way.     *)
(* One thread serves all requests in the order they were made, and the     *)
(* event loop resumes the tasks in the order their requests were served.   *)
(***************************************************************************)
EXTENDS Naturals, FiniteSets, SequencesExt

CONSTANTS
  Devices,      \* tokens, as numbers
  Owners,       \* those an owner alert goes to
  BatchSize,    \* _FCM_BATCH_SIZE
  MaxPushes, MaxRegistrations   \* bounds of the exploration

Push == 0       \* the task that pushes: the main loop
Tasks == Devices \cup {Push}

ASSUME DispatcherAssumption ==
  /\ IsFiniteSet(Devices) /\ Devices \subseteq Nat \ {Push}
  /\ Owners \subseteq Devices
  /\ BatchSize \in Nat \ {0}
  /\ MaxPushes \in Nat /\ MaxRegistrations \in Nat

VARIABLES
  table,       \* india_fcm_tokens
  expired,     \* tokens Firebase answers UnregisteredError for
  cache,       \* _token_cache
  request,     \* what each task waits for in the database, "none" for nothing
  line,        \* the tasks that wait, in the order they asked
  served,      \* how many of them, from the first, have been served
  found,       \* rows the SELECT under way has seen
  pc, kind,    \* where the push is; "signal" or "alert"
  shared,      \* its list is the cache itself
  tokens,      \* its list where it is not
  total, sent, \* length of the list at the first batch; tokens behind it
  chunk,       \* the batch under way
  stale,       \* tokens to remove
  registered,  \* history: devices whose registration returned, not removed since
  owed, tried, \* history: those when the push began; tokens it put in a batch
  torn,        \* history: the cache was emptied between two of its batches
  pushes, registrations

dbVars == <<request, line, served>>
listVars == <<kind, shared, tokens, total, sent, chunk>>
pastVars == <<owed, tried, torn>>
vars == <<table, expired, cache, request, line, served, found, pc, kind,
          shared, tokens, total, sent, chunk, stale, registered, owed,
          tried, torn, pushes, registrations>>

(***************************************************************************)
(* The database connection.                                                *)
(***************************************************************************)
Ask(task, what) ==
  /\ request' = [request EXCEPT ![task] = what]
  /\ line' = Append(line, task)
  /\ UNCHANGED served

\* The rows of a SELECT are read when it is executed or when they are fetched.
Serve(task) ==
  /\ served < Len(line)
  /\ task = line[served + 1]
  /\ served' = served + 1
  /\ table' = CASE request[task] = "insert" -> table \cup {task}
                [] request[task] = "delete" -> table \ {Head(stale)}
                [] OTHER -> table
  /\ \/ request[task] \in {"select", "fetch"} /\ found' = table
     \/ request[task] # "select" /\ found' = found
  /\ UNCHANGED <<expired, cache, request, line, pc, listVars, stale, registered,
                 pastVars, pushes, registrations>>

\* The task resumes with the answer to what it asked for.
Answered(task, what) ==
  /\ served > 0
  /\ Head(line) = task
  /\ request[task] = what
  /\ served' = served - 1

\* ... and asks for something else, or for nothing more.
AsksNext(task, what) ==
  /\ request' = [request EXCEPT ![task] = what]
  /\ line' = Append(Tail(line), task)

Released(task) ==
  /\ request' = [request EXCEPT ![task] = "none"]
  /\ line' = Tail(line)

\* The list is emptied; a push that walks it finds no more tokens in it.
ClearCache ==
  /\ cache' = <<>>
  /\ torn' = (torn \/ (pc = "send" /\ shared /\ sent + BatchSize < total))

(***************************************************************************)
(* register_token.                                                         *)
(***************************************************************************)
Register(d) ==
  /\ request[d] = "none"
  /\ d \notin expired
  /\ registrations < MaxRegistrations
  /\ registrations' = registrations + 1
  /\ Ask(d, "insert")
  /\ UNCHANGED <<table, expired, cache, found, pc, listVars, stale,
                 registered, pastVars, pushes>>

RegisterCommits(d) ==
  /\ Answered(d, "insert")
  /\ AsksNext(d, "commit")
  /\ UNCHANGED <<table, expired, cache, found, pc, listVars, stale, registered,
                 pastVars, pushes, registrations>>

\* Mutation: the list is not emptied.
RegisterKeepsCache(d) ==
  /\ Answered(d, "commit")
  /\ Released(d)
  /\ registered' = registered \cup {d}
  /\ UNCHANGED <<table, expired, cache, found, pc, listVars, stale, pastVars,
                 pushes, registrations>>

RegisterReturns(d) ==
  /\ Answered(d, "commit")
  /\ Released(d)
  /\ ClearCache
  /\ registered' = registered \cup {d}
  /\ UNCHANGED <<table, expired, found, pc, listVars, stale, owed, tried,
                 pushes, registrations>>

\* The app is removed from the device or its token replaced.
Expire(d) ==
  /\ d \in table \ expired
  /\ expired' = expired \cup {d}
  /\ UNCHANGED <<table, cache, dbVars, found, pc, listVars, stale, registered,
                 pastVars, pushes, registrations>>

(***************************************************************************)
(* dispatch and dispatch_owner_alert.                                      *)
(***************************************************************************)
Begin(what) ==
  /\ pc = "idle"
  /\ pushes < MaxPushes
  /\ pushes' = pushes + 1
  /\ kind' = what
  /\ owed' = registered \cap (IF what = "alert" THEN Owners ELSE Devices)
  /\ tried' = {} /\ torn' = FALSE
  /\ UNCHANGED <<table, expired, cache, found, stale, registered,
                 registrations>>

\* tokens[i : i + _FCM_BATCH_SIZE].
Batch(list, i) ==
  SubSeq(list, i + 1, IF i + BatchSize < Len(list) THEN i + BatchSize ELSE Len(list))

\* The first batch of a list.
FirstBatch(list) ==
  /\ pc' = "send"
  /\ total' = Len(list) /\ sent' = 0
  /\ chunk' = Batch(list, 0)

\* _get_all_tokens with the list in memory.
PushFromCache ==
  /\ Begin("signal")
  /\ cache # <<>>
  /\ shared' = TRUE /\ tokens' = <<>>
  /\ FirstBatch(cache)
  /\ UNCHANGED dbVars

PushQueries(what) ==
  /\ Begin(what)
  /\ what = "signal" => cache = <<>>
  /\ Ask(Push, "select")
  /\ pc' = "query"
  /\ shared' = FALSE /\ tokens' = <<>> /\ total' = 0 /\ sent' = 0 /\ chunk' = <<>>

PushFetches ==
  /\ Answered(Push, "select")
  /\ AsksNext(Push, "fetch")
  /\ UNCHANGED <<table, expired, cache, found, pc, listVars, stale, registered,
                 pastVars, pushes, registrations>>

\* A SELECT has no ORDER BY.
Listings(rows) == {list \in [1..Cardinality(rows) -> rows] : ToSet(list) = rows}

\* Mutation: the owner's devices go into the list for all.
PushHasRowsCached ==
  /\ Answered(Push, "fetch")
  /\ Released(Push)
  /\ \E list \in Listings(IF kind = "alert" THEN found \cap Owners ELSE found) :
       /\ tokens' = list
       /\ cache' = list
       /\ IF list = <<>> THEN pc' = "idle" /\ UNCHANGED <<total, sent, chunk>>
          ELSE FirstBatch(list)
  /\ UNCHANGED <<table, expired, found, kind, shared, stale, registered, pastVars,
                 pushes, registrations>>

PushHasRows ==
  /\ Answered(Push, "fetch")
  /\ Released(Push)
  /\ \E list \in Listings(IF kind = "alert" THEN found \cap Owners ELSE found) :
       /\ tokens' = list
       /\ cache' = IF kind = "signal" THEN list ELSE cache
       /\ IF list = <<>> THEN pc' = "idle" /\ UNCHANGED <<total, sent, chunk>>
          ELSE FirstBatch(list)
  /\ UNCHANGED <<table, expired, found, kind, shared, stale, registered, pastVars,
                 pushes, registrations>>

WalkedList == IF shared THEN cache ELSE tokens

\* The batch was sent: send_each answers for each of its tokens, or raises for
\* all, and the next batch is cut from what the list holds by then.
BatchReturns ==
  /\ pc = "send"
  /\ tried' = tried \cup ToSet(chunk)
  /\ \/ stale' = stale \o SelectSeq(chunk, LAMBDA d : d \in expired)
     \/ stale' = stale
  /\ sent' = sent + BatchSize
  /\ IF sent' < total
     THEN pc' = pc /\ chunk' = Batch(WalkedList, sent')
     ELSE pc' = "prune" /\ chunk' = <<>>
  /\ UNCHANGED <<table, expired, cache, dbVars, found, kind, shared, tokens,
                 total, registered, owed, torn, pushes, registrations>>

\* remove_token for each token Firebase no longer knows.
PruneDeletes ==
  /\ pc = "prune" /\ request[Push] = "none"
  /\ stale # <<>>
  /\ Ask(Push, "delete")
  /\ UNCHANGED <<table, expired, cache, found, pc, listVars, stale,
                 registered, pastVars, pushes, registrations>>

PruneCommits ==
  /\ Answered(Push, "delete")
  /\ AsksNext(Push, "commit")
  /\ UNCHANGED <<table, expired, cache, found, pc, listVars, stale, registered,
                 pastVars, pushes, registrations>>

PruneReturns ==
  /\ Answered(Push, "commit")
  /\ Released(Push)
  /\ ClearCache
  /\ registered' = registered \ {Head(stale)}
  /\ stale' = Tail(stale)
  /\ UNCHANGED <<table, expired, found, pc, listVars, owed, tried, pushes,
                 registrations>>

PushReturns ==
  /\ pc = "prune" /\ request[Push] = "none"
  /\ stale = <<>>
  /\ pc' = "idle"
  /\ UNCHANGED <<table, expired, cache, dbVars, found, listVars, stale, registered,
                 pastVars, pushes, registrations>>

Quiet == pc = "idle" /\ line = <<>> /\ UNCHANGED vars

\* A process starts with the devices registered with the ones before it.
Init ==
  /\ table \in SUBSET Devices /\ registered = table
  /\ expired = {} /\ cache = <<>>
  /\ request = [t \in Tasks |-> "none"] /\ line = <<>> /\ served = 0
  /\ found = {}
  /\ pc = "idle" /\ kind = "signal" /\ shared = FALSE
  /\ tokens = <<>> /\ total = 0 /\ sent = 0 /\ chunk = <<>> /\ stale = <<>>
  /\ owed = {} /\ tried = {} /\ torn = FALSE
  /\ pushes = 0 /\ registrations = 0

RegisterStep ==
  \E d \in Devices : Register(d) \/ RegisterCommits(d) \/ RegisterReturns(d)

PushStep ==
  \/ PushFromCache \/ PushQueries("signal") \/ PushQueries("alert")
  \/ PushFetches \/ PushHasRows \/ BatchReturns
  \/ PruneDeletes \/ PruneCommits \/ PruneReturns \/ PushReturns

Next ==
  \/ RegisterStep \/ PushStep \/ Quiet
  \/ \E t \in Tasks : Serve(t)
  \/ \E d \in Devices : Expire(d)

Spec == Init /\ [][Next]_vars
-----------------------------------------------------------------------------
(***************************************************************************)
(* Properties.                                                             *)
(***************************************************************************)
\* The list in memory, when there is one, has every device whose registration
\* returned and none whose removal did: no registration slips between the
\* SELECT of a push and the list it fills (fcm_dispatcher.py).
CacheIsCurrent ==
  cache # <<>> =>
    /\ registered \subseteq ToSet(cache)
    /\ \A d \in ToSet(cache) \ table : request[Push] # "none" /\ d = Head(stale)

\* A push that has sent its last batch put every device it owed one into a
\* batch, unless the list it walked was emptied under it.
EveryDeviceTried ==
  pc \in {"prune", "idle"} /\ ~torn => owed \subseteq tried
=============================================================================
