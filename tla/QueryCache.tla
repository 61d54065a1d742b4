---- MODULE QueryCache ----
(***************************************************************************)
(* A client's cache of one query: TanStack Query as the web's lib/query.ts *)
(* and the mobile app's services/query.ts set it up and their code uses it *)
(* (library semantics, which are outside src, from how that code relies on *)
(* them).  The entries of the cache are independent of one another, so one *)
(* entry, with every mutation that can touch it, is the whole story; a     *)
(* shape says which mutations those are.                                   *)
(*                                                                         *)
(* A slot is one write.  db is the set of slots the server has committed,  *)
(* and what an entry shows is the set of slots its data reflects: data     *)
(* that lacks a committed slot is stale, and data that reflects a slot the *)
(* server never took is a ghost.  A mutation's callbacks and the two halves *)
(* of an optimistic onMutate run in one step each: between them JavaScript *)
(* runs only microtasks.                                                   *)
(***************************************************************************)
EXTENDS Naturals, FiniteSets

CONSTANTS
  Slots,        \* the writes of a behaviour
  Shapes,       \* what a query and the writes around it can be: see ShapeType
  Retries,      \* how often a failed fetch is tried again
  MaxFailures,  \* bound: failed attempts to fetch
  MaxMoves      \* bound: times the query comes on screen, goes, or ages

VARIABLES
  shape,     \* the query watched and what each slot does to it; never changes
  db,        \* the slots the server has committed
  cache,     \* the entry, its request, and the attempts the request has failed
  screen,    \* whether an enabled observer is mounted, and how much its queryFn asks for
  stage,     \* how far each write has come
  answer,    \* what the server's reply shows, when it is put in whole
  kept,      \* the entry a guess was made over: lib/optimistic.ts's snapshot
  restored,  \* history: the guesses of an earlier page that a fetch has yet to replace
  swallowed, \* history: writes that ended with an older fetch left under way
  failures,  \* attempts that have failed so far
  moves      \* times the query has come on screen, gone or aged

vars == <<shape, restored, db, cache, screen, stage, answer, kept, swallowed, failures, moves>>

(* What one write does to the watched query: see WebHooks for the words. *)
EffectType ==
  [mine: BOOLEAN,       \* this client's mutation, or somebody else's write
   here: BOOLEAN,       \* fired while the query is on screen, or while it is not
   streamed: BOOLEAN,   \* somebody else's write, announced on the activity stream
   cancels: BOOLEAN, guesses: BOOLEAN, seeds: BOOLEAN,
   reply: {"none", "whole", "part"},
   onSuccess: BOOLEAN, onSettled: BOOLEAN, removes: BOOLEAN,
   queues: BOOLEAN,      \* without a network it goes to the mobile app's offline queue
   touches: BOOLEAN]     \* it writes the resource the query reads, on the page that shows it

ShapeType ==
  [polls: BOOLEAN, warms: BOOLEAN,
   retries: {"never", "unless refused", "always"},  \* what a failed fetch is tried again for
   pulls: BOOLEAN,      \* the list can be pulled down to refresh it
   signals: BOOLEAN,    \* the queryFn passes its signal on: nobody watching cancels it
   swallows: BOOLEAN,   \* a request that failed looks like an answer that ends there
   narrow: BOOLEAN,     \* a screen reads the key with a queryFn for the first page alone
   alone: BOOLEAN,      \* the slots are one control that refuses a press while it is pending
   uses: [Slots -> EffectType]]

ASSUME ShapesAssumption == Shapes \subseteq ShapeType
ASSUME BoundsAssumption == Retries \in Nat /\ MaxFailures \in Nat /\ MaxMoves \in Nat

Uses(s) == shape.uses[s]

(* All of the answer, its first page, or what had come when a request failed. *)
Extents == {"all", "first", "cut"}

EntryType ==
  [loaded: BOOLEAN, shows: SUBSET Slots, extent: Extents, invalid: BOOLEAN, aged: BOOLEAN, failed: BOOLEAN]
RequestType == [at: {"none", "sent", "answered"}, shows: SUBSET Slots, extent: Extents, back: EntryType]
CacheType == [entry: EntryType, request: RequestType, tries: 0..Retries]

Nothing ==
  [loaded |-> FALSE, shows |-> {}, extent |-> "all", invalid |-> FALSE, aged |-> FALSE, failed |-> FALSE]
Holding(shown, extent) == [Nothing EXCEPT !.loaded = TRUE, !.shows = shown, !.extent = extent]
NoRequest == [at |-> "none", shows |-> {}, extent |-> "all", back |-> Nothing]
OnScreen == screen # "off"

If(condition, then, else) == IF condition THEN then ELSE else

-----------------------------------------------------------------------------
(* The library's operations on a cache c. *)

Fetching(c) == c.request.at # "none"

(* Data that is missing, marked, or older than staleTime: what a mount or a focus refetches. *)
Stale(e) == ~e.loaded \/ e.invalid \/ e.aged

(* query.fetch() for a screen that asks for all of the answer or for its first page; a
   cancelled fetch goes back to the entry as it is now. *)
Begun(c, seen) ==
  [entry |-> [c.entry EXCEPT !.failed = c.entry.failed /\ c.entry.loaded],
   request |-> [at |-> "sent", shows |-> {}, extent |-> If(seen = "first", "first", "all"), back |-> c.entry],
   tries |-> 0]

(* A fetch that is wanted joins the one under way. *)
Joined(c, seen) == IF Fetching(c) THEN c ELSE Begun(c, seen)

(* query.cancel({ revert: true }) *)
Cancelled(c) ==
  IF Fetching(c) THEN [c EXCEPT !.entry = c.request.back, !.request = NoRequest] ELSE c

(* setQueryData: the data is fresh and unmarked, and the fetch under way goes on. *)
Put(c, shown, extent) ==
  [c EXCEPT !.entry = Holding(shown, extent),
            !.request.back = IF Fetching(c) THEN Holding(shown, extent) ELSE @]

(* invalidateQueries: mark, and refetch what is on screen.  A fetch under way is given up for
   a new one, but not the first fetch of an entry, which is left to finish. *)
Invalidated_Joins(c, seen) ==
  LET marked == [c EXCEPT !.entry.invalid = TRUE] IN
  IF seen = "off" THEN marked ELSE Joined(marked, seen)
Invalidated_Marks(c, seen) == [c EXCEPT !.entry.invalid = TRUE]
Invalidated(c, seen) ==
  LET marked == [c EXCEPT !.entry.invalid = TRUE] IN
  CASE seen = "off" -> marked
    [] seen # "off" /\ c.entry.loaded -> Begun(marked, seen)
    [] OTHER -> Joined(marked, seen)

(* removeQueries and clear(): an observer that is left builds the entry anew. *)
Removed(seen) ==
  LET empty == [entry |-> Nothing, request |-> NoRequest, tries |-> 0] IN
  IF seen = "off" THEN empty ELSE Begun(empty, seen)

-----------------------------------------------------------------------------
(* A cold start, or one from the cache that lib/query.ts keeps in localStorage for a day and
   services/query.ts in MMKV for a week.  Both keep every entry whose status is success, and a
   guess is one: a page that is reloaded while its write is under way finds the guess again, but
   the callbacks that would refresh it or roll it back are gone. *)
Init ==
  /\ shape \in Shapes
  /\ restored \in SUBSET {s \in Slots : Uses(s).mine /\ Uses(s).guesses}
  /\ shape.alone => \A s, t \in restored : s = t
  /\ db = {}
  /\ cache \in {[entry |-> e, request |-> NoRequest, tries |-> 0] :
                 e \in {Holding(restored, "all"), [Holding(restored, "all") EXCEPT !.aged = TRUE]}
                        \cup {n \in {Nothing} : restored = {}}}
  /\ screen = "off"
  /\ stage = [s \in Slots |-> If(s \in restored, "orphaned", "idle")]
  /\ answer = [s \in Slots |-> {}]
  /\ kept = [s \in Slots |-> Nothing]
  /\ swallowed = {}
  /\ failures = 0 /\ moves = 0

(* useQuery mounts: useMe, useTasks, ... *)
Mount ==
  /\ ~OnScreen /\ moves < MaxMoves
  /\ screen' \in If(shape.narrow, {"all", "first"}, {"all"})
  /\ moves' = moves + 1
  /\ cache' = If(Stale(cache.entry), Joined(cache, screen'), cache)
  /\ UNCHANGED <<shape, restored, db, stage, answer, kept, swallowed, failures>>

(* The last observer goes: a fetch whose queryFn passes its signal on is cancelled. *)
Unmount ==
  /\ OnScreen /\ moves < MaxMoves
  /\ screen' = "off" /\ moves' = moves + 1
  /\ cache' = If(shape.signals, Cancelled(cache), cache)
  /\ UNCHANGED <<shape, restored, db, stage, answer, kept, swallowed, failures>>

(* staleTime passes. *)
Age ==
  /\ cache.entry.loaded /\ ~cache.entry.aged /\ moves < MaxMoves
  /\ cache' = [cache EXCEPT !.entry.aged = TRUE]
  /\ moves' = moves + 1
  /\ UNCHANGED <<shape, restored, db, screen, stage, answer, kept, swallowed, failures>>

(* The window is focused, the network is back, or refetchInterval has passed. *)
Refetch ==
  /\ OnScreen /\ ~Fetching(cache)
  /\ Stale(cache.entry) \/ shape.polls
  /\ moves < MaxMoves /\ moves' = moves + 1
  /\ cache' = Begun(cache, screen)
  /\ UNCHANGED <<shape, restored, db, screen, stage, answer, kept, swallowed, failures>>

(* The list is pulled down: refresh() of useListQuery. *)
Pull ==
  /\ OnScreen /\ shape.pulls /\ moves < MaxMoves
  /\ cache' = If(cache.entry.loaded, Begun(cache, screen), Joined(cache, screen))
  /\ moves' = moves + 1
  /\ UNCHANGED <<shape, restored, db, screen, stage, answer, kept, swallowed, failures>>

(* prefetchTask: the pointer is over a card, and no dialog shows the query yet. *)
Prefetch ==
  /\ shape.warms /\ ~OnScreen /\ ~Fetching(cache) /\ Stale(cache.entry)
  /\ moves < MaxMoves /\ moves' = moves + 1
  /\ cache' = Begun(cache, screen)
  /\ UNCHANGED <<shape, restored, db, screen, stage, answer, kept, swallowed, failures>>

(* The server reads for a fetch. *)
ServeFetch ==
  /\ cache.request.at = "sent"
  /\ cache' = [cache EXCEPT !.request.at = "answered", !.request.shows = db]
  /\ UNCHANGED <<shape, restored, db, screen, stage, answer, kept, swallowed, failures, moves>>

(* The answer of a fetch replaces the data, a restored guess with it, and takes the mark off. *)
Fetched ==
  /\ cache.request.at = "answered"
  /\ cache' = [entry |-> Holding(cache.request.shows, cache.request.extent), request |-> NoRequest, tries |-> 0]
  /\ restored' = {}
  /\ UNCHANGED <<shape, db, screen, stage, answer, kept, swallowed, failures, moves>>

(* The retry of lib/query.ts, which takes a 4xx for an answer, and of services/query.ts. *)
Retryable(refused) == shape.retries = "always" \/ (shape.retries = "unless refused" /\ ~refused)
MayRetry_OnceMore(c, refused) == Retryable(refused) /\ c.tries <= Retries
MayRetry(c, refused) == Retryable(refused) /\ c.tries < Retries

(* An attempt fails, refused by the server or not: lib/query.ts's retry tries it again twice, a
   hook's retry: false never.  The data stays, marked, when the last attempt has failed.  The
   mobile app's client ends the list where a page failed, and the query has an answer. *)
FetchFails ==
  /\ Fetching(cache) /\ failures < MaxFailures
  /\ failures' = failures + 1
  /\ \E refused \in BOOLEAN :
       cache' = CASE shape.swallows ->
                       [entry |-> Holding(cache.request.shows, "cut"), request |-> NoRequest, tries |-> 0]
                  [] ~shape.swallows /\ MayRetry(cache, refused) ->
                       [cache EXCEPT !.request.at = "sent", !.request.shows = {}, !.tries = @ + 1]
                  [] OTHER ->
                       [entry |-> [cache.entry EXCEPT !.invalid = TRUE, !.failed = TRUE],
                        request |-> NoRequest, tries |-> 0]
  /\ UNCHANGED <<shape, restored, db, screen, stage, answer, kept, swallowed, moves>>

-----------------------------------------------------------------------------
(* One's own mutations. *)

Pending(s) == Uses(s).mine /\ stage[s] \in {"sent", "applied"}

(* mutate(): onMutate cancels the fetches of its targets, keeps what they show, and guesses. *)
Fire(s) ==
  LET u == Uses(s)
      c == If(u.cancels, Cancelled(cache), cache)
  IN
  /\ u.mine /\ stage[s] = "idle"
  /\ u.here = OnScreen
  /\ shape.alone => \A t \in Slots : ~Pending(t)
  /\ stage' = [stage EXCEPT ![s] = "sent"]
  /\ kept' = If(u.guesses, [kept EXCEPT ![s] = c.entry], kept)
  /\ cache' = If(u.guesses /\ (c.entry.loaded \/ u.seeds), Put(c, c.entry.shows \cup {s}, c.entry.extent), c)
  /\ UNCHANGED <<shape, restored, db, screen, answer, swallowed, failures, moves>>

(* The server commits the write.  A write it refuses leaves nothing, whenever that is. *)
Commit(s) ==
  /\ stage[s] = "sent"
  /\ db' = db \cup {s}
  /\ answer' = If(Uses(s).reply = "whole", [answer EXCEPT ![s] = db'], answer)
  /\ stage' = [stage EXCEPT ![s] = "applied"]
  /\ UNCHANGED <<shape, restored, cache, screen, kept, swallowed, failures, moves>>

(* The last thing a callback does: invalidateQueries, if it does so at all.  A fetch that was
   under way before and still is will have the last word. *)
Refresh(s, asked, c) ==
  /\ cache' = If(asked, Invalidated(c, screen), c)
  /\ swallowed' = If(Fetching(c) /\ ~(asked /\ OnScreen /\ c.entry.loaded),
                     swallowed \cup {s}, swallowed)

(* onSuccess, then onSettled.  writeOrQueue says that a write the network did not carry, or
   whose reply it lost, has succeeded: it waits in the offline queue. *)
Succeed(s) ==
  LET u == Uses(s)
      e == cache.entry
      put == CASE u.reply = "whole" -> Put(cache, answer[s], "all")
               [] u.reply = "part" /\ (e.loaded \/ u.seeds) -> Put(cache, e.shows \cup {s}, e.extent)
               [] OTHER -> cache
      left == If(u.removes, Removed(screen), put)
  IN
  /\ u.mine
  /\ \/ stage[s] = "applied" /\ stage' = [stage EXCEPT ![s] = "done"]
     \/ u.queues /\ Pending(s) /\ stage' = [stage EXCEPT ![s] = "queued"]
  /\ Refresh(s, u.onSuccess \/ u.onSettled, left)
  /\ UNCHANGED <<shape, restored, db, screen, answer, kept, failures, moves>>

Fail_NoRollback(s) ==
  /\ Pending(s)
  /\ stage' = [stage EXCEPT ![s] = "failed"]
  /\ Refresh(s, Uses(s).onSettled, cache)
  /\ UNCHANGED <<shape, restored, db, screen, answer, kept, failures, moves>>

(* The server has refused the write, or the network lost it or its reply.  onError puts back what
   was kept - not an absence, which setQueryData ignores - then onSettled. *)
Fail(s) ==
  LET u == Uses(s)
      undone == If(u.guesses /\ kept[s].loaded, Put(cache, kept[s].shows, kept[s].extent), cache)
  IN
  /\ Pending(s)
  /\ stage' = [stage EXCEPT ![s] = "failed"]
  /\ Refresh(s, u.onSettled, undone)
  /\ UNCHANGED <<shape, restored, db, screen, answer, kept, failures, moves>>

(* A write without callbacks reaches the server or is refused, and no query is marked: one that
   OfflineSync replays, or one that a page had under way when it was reloaded. *)
Replay(s) ==
  /\ stage[s] \in {"queued", "orphaned"}
  /\ db' \in {db, db \cup {s}}
  /\ stage' = [stage EXCEPT ![s] = "replayed"]
  /\ UNCHANGED <<shape, restored, cache, screen, answer, kept, swallowed, failures, moves>>

-----------------------------------------------------------------------------
(* Somebody else's writes, and useActivityStream. *)

TheirWrite(s) ==
  /\ ~Uses(s).mine /\ stage[s] = "idle"
  /\ db' = db \cup {s}
  /\ stage' = [stage EXCEPT ![s] = If(Uses(s).streamed, "announced", "unheard")]
  /\ UNCHANGED <<shape, restored, cache, screen, answer, kept, swallowed, failures, moves>>

Deliver(s) ==
  /\ stage[s] = "announced"
  /\ stage' = [stage EXCEPT ![s] = "heard"]
  /\ Refresh(s, TRUE, cache)
  /\ UNCHANGED <<shape, restored, db, screen, answer, kept, failures, moves>>

(* The stream is down or the broker's queue is full: nothing replays the event. *)
LoseEvent(s) ==
  /\ stage[s] = "announced"
  /\ stage' = [stage EXCEPT ![s] = "unheard"]
  /\ UNCHANGED <<shape, restored, db, cache, screen, answer, kept, swallowed, failures, moves>>

Write(s) ==
  \/ Fire(s) \/ Commit(s) \/ Succeed(s) \/ Fail(s) \/ Replay(s)
  \/ TheirWrite(s) \/ Deliver(s) \/ LoseEvent(s)

Fetch == ServeFetch \/ Fetched \/ FetchFails

Next == Mount \/ Unmount \/ Age \/ Refetch \/ Pull \/ Prefetch \/ Fetch \/ \E s \in Slots : Write(s)

Spec == Init /\ [][Next]_vars

(* The server answers a fetch, or the connection breaks, and the answer reaches the page. *)
FairSpec == Spec /\ WF_vars(ServeFetch) /\ WF_vars(Fetched)

-----------------------------------------------------------------------------
TypeOK ==
  /\ shape \in ShapeType
  /\ db \subseteq Slots
  /\ cache \in CacheType
  /\ screen \in {"off", "all", "first"}
  /\ stage \in [Slots -> {"idle", "sent", "applied", "done", "failed", "queued", "orphaned", "replayed",
                          "announced", "heard", "unheard"}]
  /\ answer \in [Slots -> SUBSET Slots]
  /\ kept \in [Slots -> EntryType]
  /\ swallowed \subseteq Slots /\ restored \subseteq Slots
  /\ failures \in 0..MaxFailures /\ moves \in 0..MaxMoves

(* No write is under way and no fetch is. *)
Quiet == ~Fetching(cache) /\ \A s \in Slots : ~Pending(s)

(* Nothing tells the reader, or the next mount, that the data is in doubt. *)
Trusted == cache.entry.loaded /\ ~cache.entry.invalid

(* A list that ended where a request failed is not an answer of the server, although nothing
   says so: the data counts as fresh. *)
Answered == Trusted /\ cache.entry.extent # "cut"

(* The refreshes that were asked for after a commit. *)
Owed(s) ==
  \/ stage[s] = "done" /\ (Uses(s).onSuccess \/ Uses(s).onSettled)
  \/ stage[s] = "failed" /\ s \in db /\ Uses(s).onSettled
  \/ stage[s] = "heard"

(* A reply put in whole, with no refresh after it, that the server wrote before it took the
   write of s. *)
Overtaken(s) ==
  \E t \in Slots :
    /\ stage[t] = "done" /\ Uses(t).reply = "whole" /\ ~Uses(t).onSuccess /\ ~Uses(t).onSettled
    /\ s \notin answer[t]

(* The rollback of a guess, with no refresh after it, to data that was wrong about the write
   of s, as patchLists of the mobile app does: its snapshot may hold another guess. *)
Restored(s) ==
  \E t \in Slots :
    /\ stage[t] = "failed" /\ Uses(t).guesses /\ ~Uses(t).onSettled
    /\ kept[t].loaded /\ (s \in kept[t].shows) # (s \in db)

(* A mark that was set while a prefetch was under way, after a guess or a reply had taken the
   earlier one off, is lost when the dialog that joined the prefetch closes: cancel() goes back
   to the entry as setQueryData left it. *)
Mislaid ==
  shape.warms /\ \E t \in swallowed : Uses(t).guesses \/ Uses(t).reply # "none"

(* When all is quiet, data nobody doubts reflects only writes the server took: a guess whose
   write was refused is rolled back, or refetched, whatever other guesses overlapped it and
   whichever fetch answered in between.  A prefetch may lose the mark the rollback left, and a
   guess that a reload has brought back stays until a fetch answers. *)
NoGhosts ==
  Quiet /\ Answered /\ ~Mislaid =>
    \A s \in cache.entry.shows : s \in db \/ Restored(s) \/ s \in restored

(* A write that asked for a refresh when it was over, or an event that did, is shown or the
   data is in doubt: no older answer of a fetch, guess or rollback takes the mark off.  There
   are four exceptions.  A refresh that found the first fetch of the entry, or a prefetch,
   under way is left to that fetch, which may have been answered before the write (a hook
   without a refresh does so to any fetch).  A reply put in whole takes the mark off although
   the server may have written it before.  So does a rollback without a refresh.  And a prefetch
   may lose the mark. *)
PromisesKept ==
  Quiet /\ Answered /\ ~Mislaid =>
    \A s \in Slots :
      Owed(s) /\ s \notin swallowed /\ ~Overtaken(s) /\ ~Restored(s) => s \in cache.entry.shows

(* What a page shows reflects what was done on that page: a hook asks for a refresh of, or puts
   its reply into, every query of the page that reads what it writes.  The exceptions are the
   same, and two replies put in whole may arrive in the other order. *)
OwnWritesShown ==
  Quiet /\ Answered /\ ~Mislaid =>
    \A s \in Slots :
      Uses(s).touches /\ stage[s] = "done" /\ s \notin swallowed /\ ~Overtaken(s) /\ ~Restored(s) =>
        s \in cache.entry.shows

(* A screen without data and without an error is never left with no fetch under way: not by the
   cancellation of an optimistic update, a removal, or a rollback. *)
NeverStranded == Quiet /\ OnScreen /\ ~cache.entry.loaded => cache.entry.failed

(* A refresh that was promised while the query is on screen comes: the data that is shown
   reflects the write, unless the screen goes, or the fetch has failed for good. *)
RefreshComes ==
  \A s \in Slots :
    Owed(s) /\ s \notin swallowed /\ OnScreen ~>
      \/ s \in cache.entry.shows \/ ~OnScreen
      \/ cache.entry.failed \/ cache.entry.extent = "cut"
      \/ Overtaken(s) \/ Restored(s)
====
