---- MODULE QueryCacheProofs ----
(***************************************************************************)
(* The invariants of QueryCache, for any number of writes and whatever     *)
(* their hooks do to the query within the two disciplines of               *)
(* HooksAssumption.                                                        *)
(***************************************************************************)
EXTENDS HookRules, TLAPS

Screens == {"off", "all", "first"}
Stages == {"idle", "sent", "applied", "done", "failed", "queued", "orphaned",
           "replayed", "announced", "heard", "unheard"}

-----------------------------------------------------------------------------
(* What the library's operations on a cache return. *)

LEMMA EntryFacts ==
  /\ Nothing \in EntryType
  /\ \A shown \in SUBSET Slots, extent \in Extents : Holding(shown, extent) \in EntryType
BY DEF Nothing, Holding, EntryType, Extents

LEMMA NoRequestType == NoRequest \in RequestType
BY EntryFacts DEF NoRequest, RequestType, Extents

LEMMA BegunType ==
  ASSUME NEW c \in CacheType, NEW seen \in Screens
  PROVE  Begun(c, seen) \in CacheType
<1>1. [c.entry EXCEPT !.failed = c.entry.failed /\ c.entry.loaded] \in EntryType
  BY DEF CacheType, EntryType
<1>2. [at |-> "sent", shows |-> {}, extent |-> If(seen = "first", "first", "all"), back |-> c.entry]
        \in RequestType
  BY DEF CacheType, RequestType, If, Extents
<1>3. 0 \in 0..Retries
  BY BoundsAssumption
<1> QED
  BY <1>1, <1>2, <1>3 DEF Begun, CacheType

LEMMA JoinedType ==
  ASSUME NEW c \in CacheType, NEW seen \in Screens
  PROVE  Joined(c, seen) \in CacheType
BY BegunType DEF Joined

LEMMA CancelledType ==
  ASSUME NEW c \in CacheType
  PROVE  Cancelled(c) \in CacheType
BY NoRequestType DEF Cancelled, CacheType, RequestType

LEMMA PutType ==
  ASSUME NEW c \in CacheType, NEW shown \in SUBSET Slots, NEW extent \in Extents
  PROVE  Put(c, shown, extent) \in CacheType
BY EntryFacts DEF Put, CacheType, RequestType

LEMMA MarkedType ==
  ASSUME NEW c \in CacheType
  PROVE  [c EXCEPT !.entry.invalid = TRUE] \in CacheType
BY DEF CacheType, EntryType

LEMMA InvalidatedType ==
  ASSUME NEW c \in CacheType, NEW seen \in Screens
  PROVE  Invalidated(c, seen) \in CacheType
BY MarkedType, BegunType, JoinedType DEF Invalidated

LEMMA RemovedType ==
  ASSUME NEW seen \in Screens
  PROVE  Removed(seen) \in CacheType
<1>1. [entry |-> Nothing, request |-> NoRequest, tries |-> 0] \in CacheType
  BY EntryFacts, NoRequestType, BoundsAssumption DEF CacheType
<1> QED
  BY <1>1, BegunType DEF Removed

-----------------------------------------------------------------------------
(* Type correctness. *)

LEMMA MountType == ASSUME TypeOK, Mount PROVE TypeOK'
<1>1. If(shape.narrow, {"all", "first"}, {"all"}) \subseteq Screens
  BY DEF If, Screens
<1>2. screen' \in Screens /\ cache' \in CacheType
  BY <1>1, JoinedType DEF Mount, TypeOK, If
<1>3. moves' \in 0..MaxMoves
  BY BoundsAssumption DEF Mount, TypeOK
<1> QED
  BY <1>2, <1>3 DEF Mount, TypeOK, Screens

LEMMA MoveType == ASSUME TypeOK, Unmount \/ Age \/ Refetch \/ Pull \/ Prefetch PROVE TypeOK'
<1>1. moves' \in 0..MaxMoves
  BY BoundsAssumption DEF TypeOK, Unmount, Age, Refetch, Pull, Prefetch
<1>2. screen \in Screens /\ screen' \in Screens
  BY DEF TypeOK, Unmount, Age, Refetch, Pull, Prefetch, Screens
<1>3. cache' \in CacheType
  <2>1. CASE Unmount
    BY <2>1, CancelledType DEF TypeOK, Unmount, If
  <2>2. CASE Age
    BY <2>2 DEF TypeOK, Age, CacheType, EntryType
  <2>3. CASE Refetch \/ Pull \/ Prefetch
    BY <2>3, <1>2, BegunType, JoinedType DEF TypeOK, Refetch, Pull, Prefetch, If
  <2> QED
    BY <2>1, <2>2, <2>3
<1> QED
  BY <1>1, <1>2, <1>3 DEF TypeOK, Unmount, Age, Refetch, Pull, Prefetch, Screens

(* A failed attempt ends the list, tries again, or leaves the data marked. *)
LEMMA FailedFetch ==
  ASSUME FetchFails
  PROVE  \/ cache' = [entry |-> Holding(cache.request.shows, "cut"), request |-> NoRequest, tries |-> 0]
         \/ /\ cache' = [cache EXCEPT !.request.at = "sent", !.request.shows = {}, !.tries = @ + 1]
            /\ cache.tries < Retries
         \/ cache' = [entry |-> [cache.entry EXCEPT !.invalid = TRUE, !.failed = TRUE],
                      request |-> NoRequest, tries |-> 0]
<1>1. PICK refused \in BOOLEAN :
        cache' = CASE shape.swallows ->
                        [entry |-> Holding(cache.request.shows, "cut"), request |-> NoRequest, tries |-> 0]
                   [] ~shape.swallows /\ MayRetry(cache, refused) ->
                        [cache EXCEPT !.request.at = "sent", !.request.shows = {}, !.tries = @ + 1]
                   [] OTHER ->
                        [entry |-> [cache.entry EXCEPT !.invalid = TRUE, !.failed = TRUE],
                         request |-> NoRequest, tries |-> 0]
  BY DEF FetchFails
<1>2. CASE shape.swallows
  BY <1>1, <1>2
<1>3. CASE ~shape.swallows /\ MayRetry(cache, refused)
  BY <1>1, <1>3 DEF MayRetry
<1>4. CASE ~shape.swallows /\ ~MayRetry(cache, refused)
  BY <1>1, <1>4
<1> QED
  BY <1>2, <1>3, <1>4

LEMMA FetchType == ASSUME TypeOK, Fetch PROVE TypeOK'
<1>1. cache \in CacheType /\ db \in SUBSET Slots
  BY DEF TypeOK
<1>2. cache' \in CacheType
  <2>1. CASE ServeFetch
    BY <1>1, <2>1 DEF ServeFetch, CacheType, RequestType
  <2>2. CASE Fetched
    BY <1>1, <2>2, EntryFacts, NoRequestType, BoundsAssumption DEF Fetched, CacheType, RequestType
  <2>3. CASE FetchFails
    <3>1. CASE cache' = [entry |-> Holding(cache.request.shows, "cut"), request |-> NoRequest, tries |-> 0]
      BY <1>1, <3>1, EntryFacts, NoRequestType, BoundsAssumption DEF CacheType, RequestType, Extents
    <3>2. CASE /\ cache' = [cache EXCEPT !.request.at = "sent", !.request.shows = {}, !.tries = @ + 1]
               /\ cache.tries < Retries
      <4>1. cache.tries + 1 \in 0..Retries
        BY <1>1, <3>2, BoundsAssumption DEF CacheType
      <4> QED
        BY <1>1, <3>2, <4>1 DEF CacheType, RequestType
    <3>3. CASE cache' = [entry |-> [cache.entry EXCEPT !.invalid = TRUE, !.failed = TRUE],
                         request |-> NoRequest, tries |-> 0]
      <4>1. [cache.entry EXCEPT !.invalid = TRUE, !.failed = TRUE] \in EntryType
        BY <1>1 DEF CacheType, EntryType
      <4> QED
        BY <3>3, <4>1, NoRequestType, BoundsAssumption DEF CacheType
    <3> QED
      BY <2>3, <3>1, <3>2, <3>3, FailedFetch
  <2> QED
    BY <2>1, <2>2, <2>3 DEF Fetch
<1>3. failures' \in 0..MaxFailures
  BY BoundsAssumption DEF TypeOK, Fetch, ServeFetch, Fetched, FetchFails
<1> QED
  BY <1>2, <1>3 DEF TypeOK, Fetch, ServeFetch, Fetched, FetchFails

LEMMA RefreshType ==
  ASSUME TypeOK, NEW s \in Slots, NEW asked \in BOOLEAN, NEW c \in CacheType, Refresh(s, asked, c)
  PROVE  cache' \in CacheType /\ swallowed' \subseteq Slots
BY InvalidatedType DEF Refresh, TypeOK, If, Screens

LEMMA UsesType == TypeOK => \A s \in Slots : Uses(s) \in EffectType
BY DEF TypeOK, Uses, ShapeType

(* A press, and what its callbacks do. *)
LEMMA FireType == ASSUME TypeOK, NEW s \in Slots, Fire(s) PROVE TypeOK'
<1> DEFINE c == If(Uses(s).cancels, Cancelled(cache), cache)
<1>1. c \in CacheType
  BY CancelledType DEF TypeOK, If
<1>2. c.entry \in EntryType
  BY <1>1 DEF CacheType
<1>3. Put(c, c.entry.shows \cup {s}, c.entry.extent) \in CacheType
  BY <1>1, <1>2, PutType DEF EntryType
<1>4. cache' \in CacheType /\ kept' \in [Slots -> EntryType]
  BY <1>1, <1>2, <1>3 DEF Fire, TypeOK, If
<1>5. stage' \in [Slots -> Stages]
  BY DEF Fire, TypeOK, Stages
<1> QED
  BY <1>4, <1>5 DEF Fire, TypeOK, Stages

LEMMA SucceedType == ASSUME TypeOK, NEW s \in Slots, Succeed(s) PROVE TypeOK'
<1> DEFINE u == Uses(s)
           e == cache.entry
           put == CASE u.reply = "whole" -> Put(cache, answer[s], "all")
                    [] u.reply = "part" /\ (e.loaded \/ u.seeds) -> Put(cache, e.shows \cup {s}, e.extent)
                    [] OTHER -> cache
           left == If(u.removes, Removed(screen), put)
<1>1. cache \in CacheType /\ e \in EntryType /\ answer[s] \in SUBSET Slots /\ screen \in Screens
  BY DEF TypeOK, CacheType, Screens
<1>2. /\ Put(cache, answer[s], "all") \in CacheType
      /\ Put(cache, e.shows \cup {s}, e.extent) \in CacheType
  BY <1>1, PutType DEF EntryType, Extents
<1>3. left \in CacheType
  BY <1>1, <1>2, RemovedType DEF If
<1>4. Refresh(s, u.onSuccess \/ u.onSettled, left)
  BY DEF Succeed
<1>5. (u.onSuccess \/ u.onSettled) \in BOOLEAN
  BY DEF EffectType
<1>6. cache' \in CacheType /\ swallowed' \subseteq Slots
  BY <1>3, <1>4, <1>5, RefreshType
<1>7. stage' \in [Slots -> Stages]
  BY DEF Succeed, TypeOK, Stages
<1> QED
  BY <1>6, <1>7 DEF Succeed, TypeOK, Stages

LEMMA FailType == ASSUME TypeOK, NEW s \in Slots, Fail(s) PROVE TypeOK'
<1> DEFINE u == Uses(s)
           undone == If(u.guesses /\ kept[s].loaded, Put(cache, kept[s].shows, kept[s].extent), cache)
<1>1. kept[s] \in EntryType /\ cache \in CacheType
  BY DEF TypeOK
<1>2. undone \in CacheType
  BY <1>1, PutType DEF EntryType, If
<1>3. u.onSettled \in BOOLEAN
  BY UsesType DEF EffectType
<1>4. cache' \in CacheType /\ swallowed' \subseteq Slots
  BY <1>2, <1>3, RefreshType DEF Fail
<1>5. stage' \in [Slots -> Stages]
  BY DEF Fail, TypeOK, Stages
<1> QED
  BY <1>4, <1>5 DEF Fail, TypeOK, Stages

LEMMA WriteType == ASSUME TypeOK, NEW s \in Slots, Write(s) PROVE TypeOK'
<1>1. CASE Commit(s)
  <2>1. answer' \in [Slots -> SUBSET Slots] /\ db' \subseteq Slots
    BY <1>1 DEF Commit, TypeOK, If
  <2> QED
    BY <1>1, <2>1 DEF Commit, TypeOK
<1>2. CASE Replay(s)
  BY <1>2 DEF Replay, TypeOK
<1>3. CASE TheirWrite(s)
  BY <1>3 DEF TheirWrite, TypeOK, If
<1>4. CASE Deliver(s)
  <2>1. cache' \in CacheType /\ swallowed' \subseteq Slots
    BY <1>4, RefreshType DEF Deliver, TypeOK
  <2> QED
    BY <1>4, <2>1 DEF Deliver, TypeOK
<1>5. CASE LoseEvent(s)
  BY <1>5 DEF LoseEvent, TypeOK
<1> QED
  BY <1>1, <1>2, <1>3, <1>4, <1>5, FireType, SucceedType, FailType DEF Write

LEMMA CacheInitType == ASSUME Init PROVE TypeOK
<1>1. restored \in SUBSET Slots /\ "all" \in Extents
  BY DEF Extents, Init
<1>2. Holding(restored, "all") \in EntryType /\ [Holding(restored, "all") EXCEPT !.aged = TRUE] \in EntryType
  BY <1>1, EntryFacts DEF EntryType
<1>3. cache \in CacheType
  <2>1. PICK e \in EntryType : cache = [entry |-> e, request |-> NoRequest, tries |-> 0]
    BY <1>2, EntryFacts DEF Init
  <2> QED
    BY <2>1, NoRequestType, BoundsAssumption DEF CacheType
<1>4. stage \in [Slots -> Stages]
  BY DEF Init, Stages, If
<1> QED
  BY <1>1, <1>3, <1>4, EntryFacts, ShapesAssumption, BoundsAssumption DEF Init, TypeOK, Stages

(* Every state of the cache is of the type its declarations say. *)
THEOREM CacheTypeCorrect == Spec => []TypeOK
<1>1. Init => TypeOK
  BY CacheInitType
<1>2. TypeOK /\ [Next]_vars => TypeOK'
  BY MountType, MoveType, FetchType, WriteType DEF Next, TypeOK, vars
<1> QED
  BY <1>1, <1>2, PTL DEF Spec

-----------------------------------------------------------------------------
(* The invariant.  An entry that nobody doubts may be wrong only while a guess is unsettled:
   its mutation is pending, and will mark the entry or restore what was there before it. *)

Unsettled ==
  \E t \in Slots : Pending(t) /\ Uses(t).guesses /\ (kept[t].loaded \/ Uses(t).seeds)

(* The writes an entry may show, and those it has to. *)
Explained == {s \in Slots : s \in db \/ Restored(s) \/ s \in restored}
Due(s) ==
  /\ Owed(s) \/ (Uses(s).touches /\ stage[s] = "done")
  /\ s \notin swallowed /\ ~Overtaken(s) /\ ~Restored(s)
Owing == {s \in Slots : Due(s)}

Right(e, explained, owing) ==
  e.loaded /\ ~e.invalid /\ e.extent # "cut" => e.shows \subseteq explained /\ owing \subseteq e.shows

(* A cache is sound when its entry is, and the entry a cancelled fetch goes back to, where
   fetches are cancelled. *)
Sound(c, explained, owing, reverts) ==
  /\ Right(c.entry, explained, owing)
  /\ reverts /\ Fetching(c) => Right(c.request.back, explained, owing)

(* The answer of a request under way is worth waiting for, and a cancelled first fetch leaves
   no data. *)
Fits(c, committed, owing) ==
  /\ c.request.shows \subseteq committed
  /\ c.request.at = "answered" => owing \subseteq c.request.shows
  /\ Fetching(c) => c.entry.loaded = c.request.back.loaded

Credible == ~Unsettled /\ ~Mislaid => Sound(cache, Explained, Owing, Refreshes(shape))

Committed ==
  \A s \in Slots :
    /\ stage[s] \in {"applied", "done", "announced", "heard"} => s \in db
    /\ answer[s] \subseteq db
    /\ Uses(s).reply = "whole" /\ stage[s] = "applied" => s \in answer[s]

(* A fetch that ends with its screen is under way only on one. *)
Watched == shape.signals /\ ~shape.warms /\ Fetching(cache) => OnScreen

(* A screen without data, fetch or error waits for the mutation that cancelled the fetch. *)
Attended ==
  OnScreen /\ ~cache.entry.loaded /\ ~Fetching(cache) =>
    cache.entry.failed \/ \E t \in Slots : Pending(t) /\ Uses(t).cancels

IInv ==
  /\ TypeOK
  /\ shape \in Shapes
  /\ Committed
  /\ Fits(cache, db, Owing)
  /\ Credible
  /\ Watched
  /\ Attended

-----------------------------------------------------------------------------
(* What the operations of the library preserve.  c is a cache, x what may be shown, o what has
   to be, d what is committed, r whether fetches are cancelled. *)

LEMMA BegunKeeps ==
  ASSUME NEW c \in CacheType, NEW seen, NEW x, NEW o, NEW d, NEW r
  PROVE  /\ Right(c.entry, x, o) => Sound(Begun(c, seen), x, o, r)
         /\ Fits(Begun(c, seen), d, o)
         /\ Begun(c, seen).request.at = "sent"
         /\ Begun(c, seen).entry.loaded = c.entry.loaded
BY DEF Begun, Sound, Right, Fits, Fetching, CacheType, EntryType

LEMMA JoinedKeeps ==
  ASSUME NEW c \in CacheType, NEW seen, NEW x, NEW o, NEW d, NEW r
  PROVE  /\ Sound(c, x, o, r) => Sound(Joined(c, seen), x, o, r)
         /\ Fits(c, d, o) => Fits(Joined(c, seen), d, o)
         /\ Fetching(Joined(c, seen))
<1>1. CASE Fetching(c)
  BY <1>1 DEF Joined
<1>2. CASE ~Fetching(c)
  BY <1>2, BegunKeeps DEF Joined, Sound, Fetching
<1> QED
  BY <1>1, <1>2

LEMMA CancelledKeeps ==
  ASSUME NEW c \in CacheType, NEW x, NEW o, NEW d, NEW r
  PROVE  /\ Sound(c, x, o, TRUE) => Sound(Cancelled(c), x, o, r)
         /\ Fits(c, d, o) => Fits(Cancelled(c), d, o)
         /\ ~Fetching(Cancelled(c))
<1>1. CASE Fetching(c)
  <2>1. Cancelled(c) = [c EXCEPT !.entry = c.request.back, !.request = NoRequest]
    BY <1>1 DEF Cancelled
  <2>2. /\ Cancelled(c).entry = c.request.back
        /\ Cancelled(c).request = NoRequest
    BY <2>1 DEF CacheType
  <2> QED
    BY <1>1, <2>2 DEF Sound, Fits, Fetching, NoRequest
<1>2. CASE ~Fetching(c)
  BY <1>2 DEF Cancelled, Sound
<1> QED
  BY <1>1, <1>2

LEMMA PutKeeps ==
  ASSUME NEW c \in CacheType, NEW shown, NEW extent, NEW x, NEW o, NEW d, NEW r
  PROVE  /\ Right(Holding(shown, extent), x, o) => Sound(Put(c, shown, extent), x, o, r)
         /\ Fits(c, d, o) => Fits(Put(c, shown, extent), d, o)
         /\ Put(c, shown, extent).entry.loaded
         /\ Fetching(Put(c, shown, extent)) = Fetching(c)
<1>1. /\ Put(c, shown, extent).entry = Holding(shown, extent)
      /\ Put(c, shown, extent).request.at = c.request.at
      /\ Put(c, shown, extent).request.shows = c.request.shows
      /\ Fetching(c) => Put(c, shown, extent).request.back = Holding(shown, extent)
  BY DEF Put, CacheType, RequestType
<1>2. Holding(shown, extent).loaded
  BY DEF Holding, Nothing
<1> QED
  BY <1>1, <1>2 DEF Sound, Fits, Fetching

LEMMA InvalidatedKeeps ==
  ASSUME NEW c \in CacheType, NEW seen, NEW x, NEW o, NEW p, NEW d, NEW r, Fits(c, d, o)
  PROVE  /\ (seen = "off" /\ r /\ Fetching(c) => Right(c.request.back, x, p))
               => Sound(Invalidated(c, seen), x, p, r)
         /\ Fits(Invalidated(c, seen), d, o)
         /\ seen # "off" => Fetching(Invalidated(c, seen))
         /\ seen = "off" => Fetching(Invalidated(c, seen)) = Fetching(c)
         /\ ~Fetching(c) \/ (seen # "off" /\ c.entry.loaded)
               => Invalidated(c, seen).request.at # "answered"
<1> DEFINE m == [c EXCEPT !.entry.invalid = TRUE]
<1>1. /\ m \in CacheType /\ m.request = c.request
      /\ m.entry.invalid /\ m.entry.loaded = c.entry.loaded
  BY MarkedType DEF CacheType, EntryType
<1>2. Right(m.entry, x, p) /\ Fits(m, d, o) /\ Fetching(m) = Fetching(c)
  BY <1>1 DEF Right, Fits, Fetching
<1> HIDE DEF m
<1>3. CASE seen = "off"
  <2>1. Invalidated(c, seen) = m
    BY <1>3 DEF Invalidated, m
  <2> QED
    BY <1>1, <1>2, <1>3, <2>1 DEF Sound, Fetching
<1>4. CASE seen # "off" /\ c.entry.loaded
  <2>1. Invalidated(c, seen) = Begun(m, seen)
    BY <1>4 DEF Invalidated, m
  <2> QED
    BY <1>1, <1>2, <1>4, <2>1, BegunKeeps DEF Fetching
<1>5. CASE seen # "off" /\ ~c.entry.loaded
  <2>1. Invalidated(c, seen) = Joined(m, seen)
    BY <1>5 DEF Invalidated, m
  <2>2. Sound(m, x, p, r)
    BY <1>1, <1>2, <1>5 DEF Sound, Right, Fits
  <2>3. ~Fetching(c) => Invalidated(c, seen).request.at # "answered"
    BY <1>1, <1>2, <2>1, BegunKeeps DEF Joined
  <2> QED
    BY <1>1, <1>2, <1>5, <2>1, <2>2, <2>3, JoinedKeeps
<1> QED
  BY <1>3, <1>4, <1>5

LEMMA RemovedKeeps ==
  ASSUME NEW seen, NEW x, NEW o, NEW d, NEW r
  PROVE  /\ Sound(Removed(seen), x, o, r)
         /\ Fits(Removed(seen), d, o)
         /\ seen = "off" => ~Fetching(Removed(seen))
         /\ seen # "off" => Fetching(Removed(seen))
<1> DEFINE empty == [entry |-> Nothing, request |-> NoRequest, tries |-> 0]
<1>1. empty \in CacheType /\ ~Fetching(empty)
  BY EntryFacts, NoRequestType, BoundsAssumption DEF CacheType, Fetching, NoRequest
<1>2. Right(empty.entry, x, o) /\ Sound(empty, x, o, r) /\ Fits(empty, d, o)
  BY <1>1 DEF Right, Sound, Nothing, Fits, NoRequest, Fetching
<1> HIDE DEF empty
<1>3. Removed(seen) = IF seen = "off" THEN empty ELSE Begun(empty, seen)
  BY DEF Removed, empty
<1> QED
  BY <1>1, <1>2, <1>3, BegunKeeps DEF Fetching

-----------------------------------------------------------------------------
(* What the steps of a write leave alone. *)

LEMMA WriteFrame ==
  ASSUME TypeOK, NEW s \in Slots, Write(s)
  PROVE  /\ shape' = shape /\ screen' = screen /\ restored' = restored
         /\ db \subseteq db' /\ db' \subseteq db \cup {s}
         /\ db' # db => stage'[s] \notin {"done", "failed", "heard"}
         /\ stage[s] \notin {"done", "failed", "heard"}
         /\ swallowed \subseteq swallowed' /\ swallowed' \subseteq swallowed \cup {s}
         /\ \A t \in Slots \ {s} : stage'[t] = stage[t] /\ kept'[t] = kept[t] /\ answer'[t] = answer[t]
         /\ stage[s] # "idle" => kept'[s] = kept[s]
<1>1. CASE Fire(s) \/ Commit(s) \/ Replay(s)
  BY <1>1 DEF Fire, Commit, Replay, TypeOK, If
<1>2. CASE Succeed(s) \/ Fail(s) \/ Deliver(s)
  BY <1>2 DEF Succeed, Fail, Deliver, Refresh, Pending, TypeOK, If
<1>3. CASE TheirWrite(s) \/ LoseEvent(s)
  BY <1>3 DEF TheirWrite, LoseEvent, TypeOK, If
<1> QED
  BY <1>1, <1>2, <1>3 DEF Write

(* No write takes away an excuse, and none but s's own end creates a claim. *)
LEMMA WriteKeepsHistory ==
  ASSUME TypeOK, NEW s \in Slots, Write(s)
  PROVE  /\ Explained \subseteq Explained'
         /\ Owing' \subseteq Owing \cup {s}
         /\ s \in Owing' => s \notin swallowed' /\ stage'[s] \in {"done", "failed", "heard"}
         /\ Mislaid => Mislaid'
<1>1. ASSUME NEW t \in Slots, Restored(t), t \in db <=> t \in db'
      PROVE  Restored(t)'
  <2>1. PICK g \in Slots :
          /\ stage[g] = "failed" /\ Uses(g).guesses /\ ~Uses(g).onSettled
          /\ kept[g].loaded /\ (t \in kept[g].shows) # (t \in db)
    BY <1>1 DEF Restored
  <2>2. g # s /\ stage'[g] = stage[g] /\ kept'[g] = kept[g]
    BY <2>1, WriteFrame
  <2> QED
    BY <1>1, <2>1, <2>2, WriteFrame DEF Restored, Uses
<1>2. ASSUME NEW t \in Slots, Overtaken(t)
      PROVE  Overtaken(t)'
  <2>1. PICK g \in Slots :
          /\ stage[g] = "done" /\ Uses(g).reply = "whole" /\ ~Uses(g).onSuccess /\ ~Uses(g).onSettled
          /\ t \notin answer[g]
    BY <1>2 DEF Overtaken
  <2>2. g # s /\ stage'[g] = stage[g] /\ answer'[g] = answer[g]
    BY <2>1, WriteFrame
  <2> QED
    BY <2>1, <2>2, WriteFrame DEF Overtaken, Uses
<1>3. ASSUME NEW t \in Explained PROVE t \in Explained'
  BY <1>1, <1>3, WriteFrame DEF Explained
<1>4. ASSUME NEW t \in Owing', t # s PROVE t \in Owing
  <2>1. t \in Slots /\ stage'[t] = stage[t] /\ (t \in db <=> t \in db')
    BY <1>4, WriteFrame DEF Owing
  <2>2. ~Restored(t) /\ ~Overtaken(t) /\ t \notin swallowed
    BY <1>1, <1>2, <1>4, <2>1, WriteFrame DEF Owing, Due
  <2>3. Owed(t) \/ (Uses(t).touches /\ stage[t] = "done")
    BY <1>4, <2>1, WriteFrame DEF Owing, Due, Owed, Uses
  <2> QED
    BY <2>1, <2>2, <2>3 DEF Owing, Due
<1>5. s \in Owing' => s \notin swallowed' /\ stage'[s] \in {"done", "failed", "heard"}
  BY DEF Owing, Due, Owed
<1>6. Mislaid => Mislaid'
  BY WriteFrame DEF Mislaid, Uses
<1> QED
  BY <1>3, <1>4, <1>5, <1>6

LEMMA OwingCommitted == TypeOK /\ Committed => Owing \subseteq db
BY DEF Owing, Due, Owed, Committed, TypeOK

(* Unless s is what unsettles it, the cache is as unsettled after a write as before. *)
LEMMA SettledBefore ==
  ASSUME TypeOK, NEW s \in Slots, Write(s), ~Unsettled',
         ~(Pending(s) /\ Uses(s).guesses /\ (kept[s].loaded \/ Uses(s).seeds))
  PROVE  ~Unsettled
<1> SUFFICES ASSUME NEW t \in Slots,
                    Pending(t) /\ Uses(t).guesses /\ (kept[t].loaded \/ Uses(t).seeds)
             PROVE  Unsettled'
  BY DEF Unsettled
<1>1. t # s /\ stage'[t] = stage[t] /\ kept'[t] = kept[t] /\ shape' = shape
  BY WriteFrame
<1> QED
  BY <1>1 DEF Unsettled, Pending, Uses

(* A larger set of excuses and a smaller one of claims. *)
LEMMA SoundMonotone ==
  ASSUME NEW c, NEW x, NEW o, NEW y, NEW p, NEW r, x \subseteq y, p \subseteq o
  PROVE  Sound(c, x, o, r) => Sound(c, y, p, r)
BY DEF Sound, Right

LEMMA FitsMonotone ==
  ASSUME NEW c, NEW d, NEW o, NEW e, NEW p, d \subseteq e, p \subseteq o
  PROVE  Fits(c, d, o) => Fits(c, e, p)
BY DEF Fits

-----------------------------------------------------------------------------
(* The last thing a callback does. *)

LEMMA RefreshKeeps ==
  ASSUME NEW s \in Slots, NEW asked \in BOOLEAN, NEW c \in CacheType, Refresh(s, asked, c),
         NEW d, NEW o, NEW p, NEW x, NEW r, screen \in Screens,
         Fits(c, d, o), p \subseteq o \cup {s}, s \in p => s \notin swallowed'
  PROVE  /\ Fits(cache', d, p)
         /\ /\ asked \/ Right(c.entry, x, p)
            /\ r /\ Fetching(c) /\ ~(asked /\ OnScreen) => Right(c.request.back, x, p)
            => Sound(cache', x, p, r)
         /\ asked /\ OnScreen => Fetching(cache')
         /\ ~OnScreen \/ ~asked => Fetching(cache') = Fetching(c)
<1>1. Fits(c, d, o \cap p)
  BY FitsMonotone DEF Fits
<1>2. s \in p => ~Fetching(c) \/ (asked /\ OnScreen /\ c.entry.loaded)
  BY DEF Refresh, If
<1>3. CASE asked
  <2>1. cache' = Invalidated(c, screen)
    BY <1>3 DEF Refresh, If
  <2>2. Fits(cache', d, o \cap p)
    BY <1>1, <2>1, InvalidatedKeeps
  <2>3. s \in p => cache'.request.at # "answered"
    BY <1>1, <1>2, <2>1, InvalidatedKeeps DEF OnScreen
  <2>4. Fits(cache', d, p)
    BY <2>2, <2>3 DEF Fits
  <2> QED
    BY <1>1, <1>3, <2>1, <2>4, InvalidatedKeeps DEF OnScreen
<1>4. CASE ~asked
  <2>1. cache' = c
    BY <1>4 DEF Refresh, If
  <2>2. s \in p => c.request.at # "answered"
    BY <1>2, <1>4 DEF Fetching
  <2>3. Fits(cache', d, p)
    BY <1>1, <2>1, <2>2 DEF Fits
  <2> QED
    BY <1>4, <2>1, <2>3 DEF Sound
<1> QED
  BY <1>3, <1>4

-----------------------------------------------------------------------------
(* The invariant holds at the start, and every step keeps it. *)

LEMMA CacheInit == Init => IInv
<1> SUFFICES ASSUME Init PROVE IInv
  OBVIOUS
<1>1. TypeOK
  BY CacheInitType
<1> DEFINE fresh == Holding(restored, "all")
<1>0. PICK e \in {fresh, [fresh EXCEPT !.aged = TRUE], Nothing} :
        cache = [entry |-> e, request |-> NoRequest, tries |-> 0]
  BY DEF Init
<1>2. shape \in Shapes /\ ~Fetching(cache) /\ cache.request = NoRequest /\ screen = "off"
  BY <1>0 DEF Init, Fetching, NoRequest
<1>3. restored \subseteq Explained /\ Owing = {} /\ Committed
  <2>1. \A s \in Slots : stage[s] \in {"idle", "orphaned"} /\ answer[s] = {}
    BY DEF Init, If
  <2> QED
    BY <1>1, <2>1 DEF TypeOK, Explained, Owing, Due, Owed, Committed
<1>4. cache.entry.shows \subseteq restored
  <2>1. fresh.shows = restored /\ [fresh EXCEPT !.aged = TRUE].shows = restored
    BY DEF Holding, Nothing
  <2>2. Nothing.shows = {}
    BY DEF Nothing
  <2> QED
    BY <1>0, <2>1, <2>2
<1>5. Fits(cache, db, Owing) /\ Sound(cache, Explained, Owing, Refreshes(shape))
  BY <1>2, <1>3, <1>4 DEF Fits, Sound, Right, NoRequest, Fetching
<1> QED
  BY <1>1, <1>2, <1>3, <1>5 DEF IInv, Credible, Watched, Attended, OnScreen

LEMMA TwoDisciplines == IInv => (Refreshes(shape) \/ RollsBack(shape)) /\ ShowsOwnWrites(shape)
BY HooksAssumption DEF IInv

(* Only an end of a write, a guess or a commit changes what may and has to be shown. *)
LEMMA SameHistory ==
  ASSUME UNCHANGED <<shape, restored, db, stage, answer, kept, swallowed>>
  PROVE  /\ Explained' = Explained /\ Owing' = Owing /\ Refreshes(shape)' = Refreshes(shape)
         /\ Unsettled' = Unsettled /\ Mislaid' = Mislaid /\ Committed' = Committed
         /\ \A t \in Slots : Pending(t)' = Pending(t) /\ Uses(t)' = Uses(t)
<1>1. \A t \in Slots : Pending(t)' = Pending(t) /\ Uses(t)' = Uses(t)
  BY DEF Pending, Uses
<1>2. Explained' = Explained
  BY DEF Explained, Restored, Uses
<1>3. Owing' = Owing
  BY DEF Owing, Due, Owed, Overtaken, Restored, Uses
<1>4. Unsettled' = Unsettled
  BY DEF Unsettled, Pending, Uses
<1>5. Mislaid' = Mislaid /\ Committed' = Committed
  BY DEF Mislaid, Committed, Uses
<1> QED
  BY <1>1, <1>2, <1>3, <1>4, <1>5 DEF Refreshes

(* What is left to show of a step that leaves the writes alone. *)
LEMMA CacheStep ==
  ASSUME IInv, TypeOK', UNCHANGED <<shape, restored, db, stage, answer, kept, swallowed>>,
         Fits(cache', db, Owing),
         Sound(cache, Explained, Owing, Refreshes(shape))
           => Sound(cache', Explained, Owing, Refreshes(shape)),
         Watched', Attended'
  PROVE  IInv'
<1>1. Credible'
  BY SameHistory DEF Credible, IInv
<1> QED
  BY <1>1, SameHistory DEF IInv, Fits

LEMMA MountKeeps == ASSUME IInv, Mount PROVE IInv'
<1>1. TypeOK /\ cache \in CacheType /\ TypeOK'
  BY MountType DEF IInv, TypeOK
<1>2. screen' # "off"
  BY DEF Mount, If
<1>3. CASE Stale(cache.entry)
  <2>1. cache' = Joined(cache, screen')
    BY <1>3 DEF Mount, If
  <2> QED
    BY <1>1, <1>2, <2>1, JoinedKeeps, CacheStep DEF Mount, Watched, Attended, OnScreen, IInv
<1>4. CASE ~Stale(cache.entry)
  <2>1. cache' = cache /\ cache.entry.loaded
    BY <1>4 DEF Mount, If, Stale
  <2> QED
    BY <1>1, <1>2, <2>1, CacheStep DEF Mount, Watched, Attended, OnScreen, IInv
<1> QED
  BY <1>3, <1>4

LEMMA UnmountKeeps == ASSUME IInv, Unmount PROVE IInv'
<1>1. TypeOK /\ cache \in CacheType /\ TypeOK'
  BY MoveType DEF IInv, TypeOK
<1>2. CASE shape.signals
  <2>1. cache' = Cancelled(cache) /\ Refreshes(shape)
    BY <1>2, TwoDisciplines DEF Unmount, If, RollsBack
  <2> QED
    BY <1>1, <2>1, CancelledKeeps, CacheStep DEF Unmount, Watched, Attended, OnScreen, IInv
<1>3. CASE ~shape.signals
  BY <1>1, <1>3, CacheStep DEF Unmount, If, Watched, Attended, OnScreen, IInv
<1> QED
  BY <1>2, <1>3

LEMMA AgeKeeps == ASSUME IInv, Age PROVE IInv'
<1>1. TypeOK /\ cache \in CacheType /\ TypeOK'
  BY MoveType DEF IInv, TypeOK
<1>2. /\ cache'.request = cache.request /\ cache'.entry.loaded = cache.entry.loaded
      /\ cache'.entry.shows = cache.entry.shows /\ cache'.entry.invalid = cache.entry.invalid
      /\ cache'.entry.extent = cache.entry.extent /\ cache'.entry.failed = cache.entry.failed
  BY <1>1 DEF Age, CacheType, EntryType
<1>3. Fits(cache', db, Owing)
  BY <1>2 DEF IInv, Fits, Fetching
<1>4. Sound(cache, Explained, Owing, Refreshes(shape)) => Sound(cache', Explained, Owing, Refreshes(shape))
  BY <1>2 DEF Sound, Right, Fetching
<1>5. Watched' /\ Attended'
  BY <1>2 DEF Age, IInv, Watched, Attended, OnScreen, Fetching
<1> QED
  BY <1>1, <1>3, <1>4, <1>5, CacheStep DEF Age

LEMMA RefetchKeeps == ASSUME IInv, Refetch \/ Pull \/ Prefetch PROVE IInv'
<1>1. TypeOK /\ cache \in CacheType /\ TypeOK'
  BY MoveType DEF IInv, TypeOK
<1>2. cache' = Begun(cache, screen) \/ cache' = Joined(cache, screen)
  BY DEF Refetch, Pull, Prefetch, If
<1>3. Fetching(cache') /\ Fits(cache', db, Owing)
  BY <1>1, <1>2, BegunKeeps, JoinedKeeps DEF Fetching, IInv
<1>4. Sound(cache, Explained, Owing, Refreshes(shape)) => Sound(cache', Explained, Owing, Refreshes(shape))
  BY <1>1, <1>2, BegunKeeps, JoinedKeeps DEF Sound
<1>5. OnScreen' \/ shape'.warms
  BY DEF Refetch, Pull, Prefetch, OnScreen
<1>6. UNCHANGED <<shape, restored, db, stage, answer, kept, swallowed>>
  BY DEF Refetch, Pull, Prefetch
<1> QED
  BY <1>1, <1>3, <1>4, <1>5, <1>6, CacheStep DEF Watched, Attended

LEMMA FetchKeeps == ASSUME IInv, Fetch PROVE IInv'
<1>1. TypeOK /\ cache \in CacheType /\ TypeOK' /\ Owing \subseteq db /\ db \subseteq Explained
  BY FetchType, OwingCommitted DEF IInv, TypeOK, Explained
<1>2. /\ UNCHANGED <<shape, db, stage, answer, kept, swallowed, screen>>
      /\ restored' = restored \/ Fetched
  BY DEF Fetch, ServeFetch, Fetched, FetchFails
<1>3. CASE ServeFetch
  <2>0. restored' = restored
    BY <1>3 DEF ServeFetch
  <2>1. /\ cache'.entry = cache.entry /\ cache'.request.back = cache.request.back
        /\ cache'.request.shows = db /\ Fetching(cache) /\ Fetching(cache')
    BY <1>1, <1>3 DEF ServeFetch, CacheType, RequestType, Fetching
  <2>2. Fits(cache', db, Owing)
    BY <1>1, <2>1 DEF Fits, IInv
  <2> QED
    BY <1>1, <1>2, <2>0, <2>1, <2>2, CacheStep DEF IInv, Sound, Watched, Attended, OnScreen
<1>4. CASE Fetched
  <2>1. /\ cache'.entry = Holding(cache.request.shows, cache.request.extent)
        /\ cache'.request = NoRequest /\ cache.request.at = "answered"
    BY <1>4 DEF Fetched
  <2>2. /\ cache'.entry.shows = cache.request.shows /\ cache'.entry.loaded
        /\ ~Fetching(cache') /\ Fits(cache', db, Owing)
    BY <2>1 DEF Holding, Nothing, NoRequest, Fetching, Fits
  <2>3. db \subseteq Explained' /\ Owing' = Owing /\ Committed'
    BY <1>1, <1>2 DEF Explained, Owing, Due, Owed, Overtaken, Restored, Uses, TypeOK, IInv, Committed
  <2>4. Sound(cache', Explained', Owing', Refreshes(shape)')
    BY <1>1, <2>1, <2>2, <2>3 DEF Sound, Right, IInv, Fits
  <2> QED
    BY <1>1, <1>2, <2>2, <2>3, <2>4 DEF IInv, Credible, Fits, Watched, Attended
<1>5. CASE FetchFails
  <2>0. restored' = restored
    BY <1>5 DEF FetchFails
  <2>1. CASE cache' = [entry |-> Holding(cache.request.shows, "cut"), request |-> NoRequest, tries |-> 0]
    <3>1. /\ cache'.entry = Holding(cache.request.shows, "cut")
          /\ cache'.request = NoRequest
      BY <2>1
    <3>2. /\ cache'.entry.extent = "cut" /\ cache'.entry.loaded
          /\ ~Fetching(cache') /\ Fits(cache', db, Owing)
      BY <3>1 DEF Holding, Nothing, NoRequest, Fetching, Fits
    <3> QED
      BY <1>1, <1>2, <2>0, <3>2, CacheStep DEF Sound, Right, Watched, Attended
  <2>2. CASE cache' = [cache EXCEPT !.request.at = "sent", !.request.shows = {}, !.tries = @ + 1]
    <3>1. /\ cache'.entry = cache.entry /\ cache'.request.back = cache.request.back
          /\ cache'.request.shows = {} /\ cache'.request.at = "sent" /\ Fetching(cache)
      BY <1>1, <1>5, <2>2 DEF FetchFails, Fetching, CacheType, RequestType
    <3>2. Fits(cache', db, Owing) /\ Fetching(cache')
      BY <3>1 DEF Fits, IInv, Fetching
    <3> QED
      BY <1>1, <1>2, <2>0, <3>1, <3>2, CacheStep DEF IInv, Sound, Watched, Attended, OnScreen
  <2>3. CASE cache' = [entry |-> [cache.entry EXCEPT !.invalid = TRUE, !.failed = TRUE],
                       request |-> NoRequest, tries |-> 0]
    <3>1. /\ cache'.entry.invalid /\ cache'.entry.failed /\ cache'.request = NoRequest
      BY <1>1, <2>3 DEF CacheType, EntryType
    <3>2. ~Fetching(cache') /\ Fits(cache', db, Owing)
      BY <3>1 DEF NoRequest, Fetching, Fits
    <3> QED
      BY <1>1, <1>2, <2>0, <3>1, <3>2, CacheStep DEF Sound, Right, Watched, Attended
  <2> QED
    BY <1>5, <2>1, <2>2, <2>3, FailedFetch
<1> QED
  BY <1>3, <1>4, <1>5 DEF Fetch

(* The steps of a write that commits, replays, or is announced leave the cache alone. *)
LEMMA QuietWriteKeeps ==
  ASSUME IInv, NEW s \in Slots, Commit(s) \/ Replay(s) \/ TheirWrite(s) \/ LoseEvent(s)
  PROVE  IInv'
<1>1. TypeOK /\ TypeOK' /\ Write(s) /\ UNCHANGED <<shape, restored, cache, screen, kept, swallowed>>
  BY WriteType DEF IInv, Write, Commit, Replay, TheirWrite, LoseEvent
<1>2. stage'[s] \notin {"done", "failed", "heard"} /\ (Pending(s) => Pending(s)')
  BY <1>1 DEF Commit, Replay, TheirWrite, LoseEvent, TypeOK, If, Pending, Uses
<1>3. Owing' \subseteq Owing /\ Explained \subseteq Explained' /\ db \subseteq db'
  BY <1>1, <1>2, WriteKeepsHistory, WriteFrame
<1>4. Unsettled => Unsettled'
  BY <1>1, <1>2, WriteFrame DEF Unsettled, Pending, Uses
<1>5. Mislaid' = Mislaid /\ Refreshes(shape)' = Refreshes(shape)
  BY <1>1 DEF Mislaid, Uses, Refreshes
<1>6. Credible'
  BY <1>1, <1>3, <1>4, <1>5, SoundMonotone DEF Credible, IInv
<1>7. Fits(cache, db, Owing)'
  BY <1>1, <1>3, FitsMonotone DEF IInv
<1>8. Committed'
  <2>1. /\ stage'[s] \in {"applied", "done", "announced", "heard"} => s \in db'
        /\ answer'[s] \subseteq db'
        /\ Uses(s).reply = "whole" /\ stage'[s] = "applied" => s \in answer'[s]
    BY <1>1, <1>3 DEF IInv, Committed, Commit, Replay, TheirWrite, LoseEvent, TypeOK, If
  <2>2. \A t \in Slots \ {s} :
          /\ stage'[t] \in {"applied", "done", "announced", "heard"} => t \in db'
          /\ answer'[t] \subseteq db'
          /\ Uses(t).reply = "whole" /\ stage'[t] = "applied" => t \in answer'[t]
    BY <1>1, <1>3, WriteFrame DEF IInv, Committed
  <2> QED
    BY <1>1, <2>1, <2>2 DEF Committed, Uses
<1>9. Attended'
  <2>1. ASSUME NEW t \in Slots, Pending(t), Uses(t).cancels PROVE Pending(t)' /\ Uses(t)'.cancels
    BY <1>1, <1>2, <2>1, WriteFrame DEF Pending, Uses
  <2> QED
    BY <1>1, <2>1 DEF IInv, Attended, OnScreen
<1> QED
  BY <1>1, <1>6, <1>7, <1>8, <1>9 DEF IInv, Watched, OnScreen

LEMMA FireKeeps == ASSUME IInv, NEW s \in Slots, Fire(s) PROVE IInv'
<1> DEFINE u == Uses(s)
           c == If(u.cancels, Cancelled(cache), cache)
           puts == u.guesses /\ (c.entry.loaded \/ u.seeds)
<1>1. /\ TypeOK /\ TypeOK' /\ Write(s) /\ cache \in CacheType
      /\ UNCHANGED <<shape, restored, db, screen, answer, swallowed>>
  BY FireType DEF IInv, TypeOK, Write, Fire
<1>2. /\ stage[s] = "idle" /\ stage'[s] = "sent" /\ Pending(s)' /\ Uses(s)' = u
      /\ u.guesses => kept'[s] = c.entry
      /\ cache' = IF puts THEN Put(c, c.entry.shows \cup {s}, c.entry.extent) ELSE c
  BY <1>1 DEF Fire, TypeOK, Pending, Uses, If
<1>3. c \in CacheType /\ (c = cache \/ (u.cancels /\ c = Cancelled(cache)))
  BY <1>1, CancelledType DEF If
<1> HIDE DEF c
<1>4. Owing' \subseteq Owing /\ Explained \subseteq Explained'
  BY <1>1, <1>2, WriteKeepsHistory
<1>5. Fits(c, db, Owing)
  BY <1>1, <1>3, CancelledKeeps DEF IInv
<1>6. Fits(cache, db, Owing)'
  BY <1>1, <1>2, <1>3, <1>4, <1>5, PutKeeps, FitsMonotone
<1>7. Credible'
  <2>1. CASE puts
    BY <1>2, <2>1 DEF Credible, Unsettled
  <2>2. CASE ~puts
    <3>1. Refreshes(shape)' = Refreshes(shape) /\ Mislaid' = Mislaid
      BY <1>1 DEF Refreshes, Mislaid, Uses
    <3>2. ~Unsettled' => ~Unsettled
      BY <1>1, <1>2, SettledBefore DEF Pending
    <3>3. u.cancels => Refreshes(shape)
      BY TwoDisciplines DEF RollsBack, Uses
    <3>4. ~Unsettled /\ ~Mislaid => Sound(c, Explained, Owing, Refreshes(shape))
      BY <1>1, <1>3, <3>3, CancelledKeeps DEF IInv, Credible
    <3> QED
      BY <1>2, <1>4, <2>2, <3>1, <3>2, <3>4, SoundMonotone DEF Credible
  <2> QED
    BY <2>1, <2>2
<1>8. Committed'
  <2>1. \A t \in Slots \ {s} : stage'[t] = stage[t]
    BY <1>1, WriteFrame
  <2> QED
    BY <1>1, <1>2, <2>1 DEF IInv, Committed, Uses
<1>9. Fetching(cache') => Fetching(cache)
  BY <1>1, <1>2, <1>3, PutKeeps, CancelledKeeps
<1>10. Attended'
  <2>1. CASE u.cancels
    BY <1>2, <2>1 DEF Attended
  <2>2. CASE ~u.cancels
    <3>1. c = cache /\ (cache' = cache \/ cache'.entry.loaded)
      BY <1>2, <1>3, <2>2, PutKeeps
    <3>2. ASSUME NEW t \in Slots, Pending(t), Uses(t).cancels PROVE Pending(t)' /\ Uses(t)'.cancels
      BY <1>1, <1>2, <3>2, WriteFrame DEF Pending, Uses
    <3> QED
      BY <1>1, <3>1, <3>2 DEF IInv, Attended, OnScreen
  <2> QED
    BY <2>1, <2>2
<1> QED
  BY <1>1, <1>6, <1>7, <1>8, <1>9, <1>10 DEF IInv, Watched, OnScreen

(* The end of a write: c is the cache when its callbacks have put in what they put in. *)
LEMMA EndKeeps ==
  ASSUME IInv, TypeOK', NEW s \in Slots, Write(s),
         NEW asked \in BOOLEAN, NEW c \in CacheType, Refresh(s, asked, c),
         UNCHANGED <<shape, restored, db, screen, answer, kept>>,
         stage'[s] \notin {"sent", "applied"},
         stage'[s] \in {"done", "announced", "heard"} => s \in db,
         Fits(c, db, Owing),
         Fetching(c) => Fetching(cache) \/ OnScreen,
         ~asked => ~(Pending(s) /\ Uses(s).cancels),
         c = cache \/ c.entry.loaded \/ (OnScreen => Fetching(c)),
         ~Unsettled' /\ ~Mislaid' =>
            /\ asked \/ Right(c.entry, Explained', Owing')
            /\ Refreshes(shape) /\ Fetching(c) /\ ~(asked /\ OnScreen)
                 => Right(c.request.back, Explained', Owing')
  PROVE  IInv'
<1>1. screen \in Screens /\ TypeOK
  BY DEF IInv, TypeOK, Screens
<1>2. Owing' \subseteq Owing \cup {s} /\ (s \in Owing' => s \notin swallowed')
  BY <1>1, WriteKeepsHistory
<1>3. /\ Fits(cache', db, Owing')
      /\ ~Unsettled' /\ ~Mislaid' => Sound(cache', Explained', Owing', Refreshes(shape))
      /\ asked /\ OnScreen => Fetching(cache')
      /\ ~OnScreen \/ ~asked => Fetching(cache') = Fetching(c)
  BY <1>1, <1>2, RefreshKeeps
<1>4. Credible'
  BY <1>3 DEF Credible, Refreshes
<1>5. Committed'
  <2>1. \A t \in Slots \ {s} : stage'[t] = stage[t]
    BY <1>1, WriteFrame
  <2> QED
    BY <2>1 DEF IInv, Committed, Uses
<1>6. Watched'
  <2>1. Fetching(cache') => Fetching(cache) \/ OnScreen
    BY <1>3
  <2> QED
    BY <2>1 DEF IInv, Watched, OnScreen
<1>7. Attended'
  <2>1. CASE asked
    BY <1>3, <2>1 DEF Attended, OnScreen
  <2>2. CASE ~asked
    <3>1. cache' = c
      BY <2>2 DEF Refresh, If
    <3>2. ASSUME NEW t \in Slots, Pending(t), Uses(t).cancels PROVE Pending(t)' /\ Uses(t)'.cancels
      BY <1>1, <2>2, <3>2, WriteFrame DEF Pending, Uses
    <3> QED
      BY <3>1, <3>2 DEF IInv, Attended, OnScreen
  <2> QED
    BY <2>1, <2>2
<1> QED
  BY <1>3, <1>4, <1>5, <1>6, <1>7 DEF IInv

(* An end that puts nothing in. *)
LEMMA PlainEndKeeps ==
  ASSUME IInv, TypeOK', NEW s \in Slots, Write(s),
         NEW asked \in BOOLEAN, Refresh(s, asked, cache),
         UNCHANGED <<shape, restored, db, screen, answer, kept>>,
         stage'[s] \notin {"sent", "applied"},
         stage'[s] \in {"done", "announced", "heard"} => s \in db,
         ~asked => ~(Pending(s) /\ Uses(s).cancels),
         s \in Owing' => asked,
         asked \/ ~(Pending(s) /\ Uses(s).guesses /\ (kept[s].loaded \/ Uses(s).seeds)),
         Refreshes(shape) /\ Fetching(cache) /\ ~OnScreen /\ ~Mislaid' => ~Uses(s).guesses
  PROVE  IInv'
<1>1. TypeOK /\ cache \in CacheType
  BY DEF IInv, TypeOK
<1>2. /\ Explained \subseteq Explained' /\ Owing' \subseteq Owing \cup {s}
      /\ s \in Owing' => s \notin swallowed'
      /\ Mislaid => Mislaid'
  BY <1>1, WriteKeepsHistory
<1>3. ASSUME ~Unsettled', ~Mislaid', ~(asked /\ OnScreen), ~Uses(s).guesses \/ ~asked
      PROVE  Sound(cache, Explained, Owing, Refreshes(shape))
  BY <1>1, <1>2, <1>3, SettledBefore DEF IInv, Credible
<1>4. Fetching(cache) /\ ~(asked /\ OnScreen) => s \in swallowed'
  BY DEF Refresh, If
<1>5. ASSUME ~Unsettled', ~Mislaid'
      PROVE  /\ asked \/ Right(cache.entry, Explained', Owing')
             /\ Refreshes(shape) /\ Fetching(cache) /\ ~(asked /\ OnScreen)
                  => Right(cache.request.back, Explained', Owing')
  BY <1>2, <1>3, <1>4, <1>5 DEF Sound, Right
<1> QED
  BY <1>1, <1>5, EndKeeps DEF IInv

(* An end that puts a reply, or what a guess was made over, into the entry. *)
LEMMA PutEndKeeps ==
  ASSUME IInv, TypeOK', NEW s \in Slots, Write(s),
         NEW asked \in BOOLEAN, NEW shown \in SUBSET Slots, NEW extent \in Extents,
         Refresh(s, asked, Put(cache, shown, extent)),
         UNCHANGED <<shape, restored, db, screen, answer, kept>>,
         stage'[s] \notin {"sent", "applied"},
         stage'[s] \in {"done", "announced", "heard"} => s \in db,
         ~asked => ~(Pending(s) /\ Uses(s).cancels),
         Uses(s).guesses \/ Uses(s).reply # "none",
         asked \/ Right(Holding(shown, extent), Explained', Owing')
  PROVE  IInv'
<1> DEFINE c == Put(cache, shown, extent)
<1>1. TypeOK /\ cache \in CacheType
  BY DEF IInv, TypeOK
<1>2. /\ c \in CacheType /\ Fits(c, db, Owing) /\ c.entry.loaded /\ Fetching(c) = Fetching(cache)
      /\ c.entry = Holding(shown, extent)
      /\ Fetching(c) => c.request.back = Holding(shown, extent)
  <2>1. /\ c.entry = Holding(shown, extent)
        /\ Fetching(c) => c.request.back = Holding(shown, extent)
    BY <1>1 DEF Put, CacheType, RequestType, Fetching
  <2> QED
    BY <1>1, <2>1, PutType, PutKeeps DEF IInv
<1>3. Refresh(s, asked, c)
  OBVIOUS
<1> HIDE DEF c
<1>4. ASSUME ~Mislaid', Refreshes(shape), Fetching(c), ~(asked /\ OnScreen)
      PROVE  Right(c.request.back, Explained', Owing')
  <2>1. s \in swallowed'
    BY <1>3, <1>4 DEF Refresh, If
  <2>2. ~shape.warms
    BY <1>4, <2>1 DEF Mislaid, Uses
  <2>3. OnScreen
    BY <1>2, <1>4, <2>2 DEF IInv, Watched, Refreshes
  <2> QED
    BY <1>2, <1>4, <2>3
<1> QED
  BY <1>2, <1>3, <1>4, EndKeeps

LEMMA DeliverKeeps == ASSUME IInv, NEW s \in Slots, Deliver(s) PROVE IInv'
<1>1. /\ TypeOK /\ TypeOK' /\ Write(s) /\ stage[s] = "announced" /\ stage'[s] = "heard"
      /\ Refresh(s, TRUE, cache) /\ ~Pending(s)
      /\ UNCHANGED <<shape, restored, db, screen, answer, kept>>
  BY WriteType DEF IInv, Write, Deliver, TypeOK, Pending
<1>2. s \in db
  BY <1>1 DEF IInv, Committed
<1>3. Refreshes(shape) /\ Fetching(cache) /\ ~OnScreen /\ ~Mislaid' => ~Uses(s).guesses
  <2>1. ~OnScreen /\ Fetching(cache) => s \in swallowed'
    BY <1>1 DEF Refresh, If
  <2>2. Refreshes(shape) /\ Fetching(cache) /\ ~OnScreen => shape.warms
    BY DEF IInv, Watched, Refreshes
  <2> QED
    BY <1>1, <2>1, <2>2 DEF Mislaid, Uses
<1> QED
  BY <1>1, <1>2, <1>3, PlainEndKeeps

LEMMA FailKeeps == ASSUME IInv, NEW s \in Slots, Fail(s) PROVE IInv'
<1> DEFINE u == Uses(s)
           undone == If(u.guesses /\ kept[s].loaded, Put(cache, kept[s].shows, kept[s].extent), cache)
<1>1. /\ TypeOK /\ TypeOK' /\ Write(s) /\ Pending(s) /\ stage'[s] = "failed"
      /\ Refresh(s, u.onSettled, undone)
      /\ UNCHANGED <<shape, restored, db, screen, answer, kept>>
  BY FailType DEF IInv, Write, Fail, TypeOK
<1>2. /\ u.onSettled \in BOOLEAN /\ kept[s].shows \in SUBSET Slots /\ kept[s].extent \in Extents
      /\ Uses(s)' = u
  BY <1>1, UsesType DEF EffectType, TypeOK, EntryType, Uses
<1>3. u.cancels => u.onSettled
  BY TwoDisciplines DEF Refreshes, RollsBack, Uses
<1>4. u.guesses => u.onSettled \/ ~u.seeds
  BY TwoDisciplines DEF Refreshes, RollsBack, Uses
<1>5. CASE u.guesses /\ kept[s].loaded
  <2>1. undone = Put(cache, kept[s].shows, kept[s].extent)
    BY <1>5 DEF If
  <2>2. ASSUME ~u.onSettled
        PROVE  Right(Holding(kept[s].shows, kept[s].extent), Explained', Owing')
    <3>1. \A t \in Slots : ~Restored(t)' => (t \in kept[s].shows) = (t \in db)
      BY <1>1, <1>2, <1>5, <2>2 DEF Restored
    <3>2. kept[s].shows \subseteq Explained'
      BY <1>1, <1>2, <3>1 DEF Explained
    <3>3. Owing' \subseteq kept[s].shows
      <4>1. \A t \in Owing' : t \in Slots /\ ~Restored(t)'
        BY DEF Owing, Due
      <4>2. Owing' \subseteq db
        <5>1. \A t \in Owing' : t # s => t \in Owing
          BY <1>1, WriteKeepsHistory
        <5>2. s \notin Owing'
          BY <1>1, <1>2, <2>2 DEF Owing, Due, Owed
        <5> QED
          BY <1>1, <5>1, <5>2, OwingCommitted DEF IInv
      <4> QED
        BY <3>1, <4>1, <4>2
    <3>4. Holding(kept[s].shows, kept[s].extent).shows = kept[s].shows
      BY DEF Holding, Nothing
    <3> QED
      BY <3>2, <3>3, <3>4 DEF Right
  <2> QED
    BY <1>1, <1>2, <1>3, <1>5, <2>1, <2>2, PutEndKeeps
<1>6. CASE ~(u.guesses /\ kept[s].loaded)
  <2>1. undone = cache
    BY <1>6 DEF If
  <2>2. s \in Owing' => u.onSettled
    BY <1>1, <1>2 DEF Owing, Due, Owed
  <2>3. Refreshes(shape) /\ Fetching(cache) /\ ~OnScreen /\ ~Mislaid' => ~u.guesses
    <3>1. ~OnScreen /\ Fetching(cache) => s \in swallowed'
      BY <1>1, <2>1 DEF Refresh, If
    <3>2. Refreshes(shape) /\ Fetching(cache) /\ ~OnScreen => shape.warms
      BY DEF IInv, Watched, Refreshes
    <3> QED
      BY <1>1, <3>1, <3>2 DEF Mislaid, Uses
  <2> QED
    BY <1>1, <1>2, <1>3, <1>4, <1>6, <2>1, <2>2, <2>3, PlainEndKeeps
<1> QED
  BY <1>5, <1>6

LEMMA SucceedKeeps == ASSUME IInv, NEW s \in Slots, Succeed(s) PROVE IInv'
<1> DEFINE u == Uses(s)
           e == cache.entry
           asked == u.onSuccess \/ u.onSettled
           put == CASE u.reply = "whole" -> Put(cache, answer[s], "all")
                    [] u.reply = "part" /\ (e.loaded \/ u.seeds) -> Put(cache, e.shows \cup {s}, e.extent)
                    [] OTHER -> cache
           left == If(u.removes, Removed(screen), put)
<1>1. /\ TypeOK /\ TypeOK' /\ Write(s) /\ u.mine /\ Pending(s)
      /\ \/ stage[s] = "applied" /\ stage'[s] = "done"
         \/ u.queues /\ stage'[s] = "queued"
      /\ Refresh(s, asked, left)
      /\ UNCHANGED <<shape, restored, db, screen, answer, kept>>
  BY SucceedType DEF IInv, Write, Succeed, TypeOK, Pending
<1>2. asked \in BOOLEAN /\ Uses(s)' = u
  BY <1>1 DEF Uses
<1>3. /\ u.guesses \/ u.cancels \/ u.reply = "part" => asked
      /\ u.queues => u.reply = "none"
      /\ u.touches => asked \/ u.reply = "whole" \/ u.removes
  BY TwoDisciplines DEF Refreshes, RollsBack, ShowsOwnWrites, Uses
<1>4. stage'[s] = "done" => s \in db
  BY <1>1 DEF IInv, Committed
<1>5. CASE u.removes
  <2>1. left = Removed(screen) /\ screen \in Screens
    BY <1>1, <1>5 DEF If, TypeOK, Screens
  <2>2. /\ left \in CacheType /\ Fits(left, db, Owing)
        /\ Fetching(left) <=> OnScreen
        /\ Sound(left, Explained', Owing', Refreshes(shape))
    <3>1. left \in CacheType /\ Fits(left, db, Owing)
      BY <2>1, RemovedType, RemovedKeeps
    <3>2. Fetching(left) <=> OnScreen
      BY <2>1, RemovedKeeps DEF OnScreen
    <3>3. Sound(Removed(screen), Explained', Owing', Refreshes(shape))
      BY RemovedKeeps
    <3> QED
      BY <2>1, <3>1, <3>2, <3>3
  <2> HIDE DEF left
  <2> QED
    BY <1>1, <1>2, <1>3, <1>4, <2>2, EndKeeps DEF Sound
<1>6. CASE ~u.removes /\ (u.reply = "whole" \/ (u.reply = "part" /\ (e.loaded \/ u.seeds)))
  <2>1. PICK shown \in SUBSET Slots, extent \in Extents :
          left = Put(cache, shown, extent) /\ (u.reply = "whole" => shown = answer[s])
    <3>1. answer[s] \in SUBSET Slots /\ e.shows \cup {s} \in SUBSET Slots /\ e.extent \in Extents
      BY <1>1 DEF TypeOK, CacheType, EntryType
    <3> QED
      BY <1>6, <3>1 DEF If, Extents
  <2>2. ASSUME ~asked
        PROVE  Right(Holding(shown, extent), Explained', Owing')
    <3>1. shown = answer[s] /\ u.reply = "whole" /\ stage'[s] = "done" /\ stage[s] = "applied"
      BY <1>1, <1>3, <1>6, <2>1, <2>2
    <3>2. shown \subseteq Explained'
      BY <1>1, <3>1 DEF IInv, Committed, Explained
    <3>3. Owing' \subseteq shown
      <4>1. \A t \in Owing' : ~Overtaken(t)'
        BY DEF Owing, Due
      <4> QED
        BY <1>1, <1>2, <2>2, <3>1, <4>1 DEF Overtaken
    <3>4. Holding(shown, extent).shows = shown
      BY DEF Holding, Nothing
    <3> QED
      BY <3>2, <3>3, <3>4 DEF Right
  <2> HIDE DEF left
  <2> QED
    BY <1>1, <1>2, <1>3, <1>4, <1>6, <2>1, <2>2, PutEndKeeps
<1>7. CASE ~u.removes /\ u.reply # "whole" /\ ~(u.reply = "part" /\ (e.loaded \/ u.seeds))
  <2>1. left = cache
    BY <1>7 DEF If
  <2>2. s \in Owing' => asked
    BY <1>1, <1>2, <1>3, <1>7 DEF Owing, Due, Owed
  <2>3. Refreshes(shape) /\ Fetching(cache) /\ ~OnScreen /\ ~Mislaid' => ~u.guesses
    <3>1. ~OnScreen /\ Fetching(cache) => s \in swallowed'
      BY <1>1, <2>1 DEF Refresh, If
    <3>2. Refreshes(shape) /\ Fetching(cache) /\ ~OnScreen => shape.warms
      BY DEF IInv, Watched, Refreshes
    <3> QED
      BY <1>1, <3>1, <3>2 DEF Mislaid, Uses
  <2> QED
    BY <1>1, <1>2, <1>3, <1>4, <2>1, <2>2, <2>3, PlainEndKeeps
<1> QED
  BY <1>5, <1>6, <1>7

-----------------------------------------------------------------------------
THEOREM CacheInvariant == Spec => []IInv
<1>1. ASSUME IInv, [Next]_vars PROVE IInv'
  <2>1. CASE Fetch
    BY <1>1, <2>1, FetchKeeps
  <2>2. CASE Mount \/ Unmount \/ Age \/ Refetch \/ Pull \/ Prefetch
    BY <1>1, <2>2, MountKeeps, UnmountKeeps, AgeKeeps, RefetchKeeps
  <2>3. ASSUME NEW s \in Slots, Write(s) PROVE IInv'
    BY <1>1, <2>3, FireKeeps, QuietWriteKeeps, SucceedKeeps, FailKeeps, DeliverKeeps DEF Write
  <2>4. CASE UNCHANGED vars
    <3>1. TypeOK' /\ Watched' /\ Attended'
      BY <1>1, <2>4, SameHistory DEF vars, IInv, TypeOK, Watched, Attended, OnScreen
    <3> QED
      BY <1>1, <2>4, <3>1, CacheStep DEF vars, IInv
  <2> QED
    BY <1>1, <2>1, <2>2, <2>3, <2>4 DEF Next
<1> QED
  BY <1>1, CacheInit, PTL DEF Spec

(* With nothing pending, what nobody doubts is as the writes say. *)
LEMMA QuietIsRight ==
  ASSUME IInv, Quiet, Answered, ~Mislaid
  PROVE  cache.entry.shows \subseteq Explained /\ Owing \subseteq cache.entry.shows
BY DEF IInv, Credible, Quiet, Unsettled, Answered, Trusted, Sound, Right

(* When no mutation and no fetch is under way, data nobody doubts reflects only writes the
   server took: the guesses of useUpdateTask and its like, however they overlapped with each
   other, with fetches and with screens that come and go, are gone when refused. *)
THEOREM CacheNoGhosts == Spec => []NoGhosts
<1>1. IInv => NoGhosts
  BY QuietIsRight DEF NoGhosts, Explained
<1> QED
  BY <1>1, CacheInvariant, PTL

(* A refresh that onSuccess, onSettled or the activity stream asked for is not lost to an older
   answer, guess or rollback. *)
THEOREM CachePromisesKept == Spec => []PromisesKept
<1>1. IInv => PromisesKept
  <2> SUFFICES ASSUME IInv, Quiet /\ Answered /\ ~Mislaid, NEW s \in Slots,
                      Owed(s) /\ s \notin swallowed /\ ~Overtaken(s) /\ ~Restored(s)
               PROVE  s \in cache.entry.shows
    BY DEF PromisesKept
  <2>1. s \in Owing
    BY DEF Owing, Due
  <2> QED
    BY <2>1, QuietIsRight
<1> QED
  BY <1>1, CacheInvariant, PTL

(* A page shows what was done on it. *)
THEOREM CacheOwnWritesShown == Spec => []OwnWritesShown
<1>1. IInv => OwnWritesShown
  <2> SUFFICES ASSUME IInv, Quiet /\ Answered /\ ~Mislaid, NEW s \in Slots,
                      Uses(s).touches /\ stage[s] = "done",
                      s \notin swallowed /\ ~Overtaken(s) /\ ~Restored(s)
               PROVE  s \in cache.entry.shows
    BY DEF OwnWritesShown
  <2>1. s \in Owing
    BY DEF Owing, Due
  <2> QED
    BY <2>1, QuietIsRight
<1> QED
  BY <1>1, CacheInvariant, PTL

(* Cancelling a query's first fetch for an optimistic update leaves no screen waiting for ever:
   the end of the mutation starts another. *)
THEOREM CacheNeverStranded == Spec => []NeverStranded
<1>1. IInv => NeverStranded
  BY DEF IInv, Attended, NeverStranded, Quiet
<1> QED
  BY <1>1, CacheInvariant, PTL
====
