---- MODULE CacheTerms ----
(***************************************************************************)
(* The words in which the Web modules and MobileScreens say what a client  *)
(* does to its cached data; QueryCache says what they mean.  Both clients  *)
(* use TanStack Query.                                                     *)
(*                                                                         *)
(* A query caches one answer of the server under a key.  A key is a path,  *)
(* and a filter names every key it is a prefix of.  A mutation sends one   *)
(* write, and cancels fetches, guesses the answers before the server has   *)
(* replied, puts in what the reply says, marks queries for a refetch, or   *)
(* removes them.  The resource a row reads or writes is the one of its     *)
(* URL.                                                                    *)
(***************************************************************************)
EXTENDS Sequences

(* A query as lib/query.ts sets it up: it is retried unless its error is a 4xx or it says
   retry: false, its queryFn passes the signal on, and a failed request is an error. *)
Query(resource, key) ==
  [reads |-> resource, key |-> key, polls |-> FALSE, retries |-> "unless refused", narrow |-> FALSE,
   signals |-> TRUE, swallows |-> FALSE, pulls |-> FALSE]

(* A mutation that leaves the cache alone. *)
Writes(resource) ==
  [writes |-> resource, cancels |-> {}, guesses |-> {}, seeds |-> {}, replies |-> {},
   merges |-> {}, onSuccess |-> {}, onSettled |-> {}, removes |-> {}, queues |-> FALSE]

(* invalidateQueries when the write has succeeded, and when it has ended either way. *)
Refreshing(resource, keys) == [Writes(resource) EXCEPT !.onSuccess = keys]
Settling(resource, keys) == [Writes(resource) EXCEPT !.onSettled = keys]

(* A part of a screen shows queries and offers controls, its own and those of the parts it holds. *)
Part(shows, does, holds) ==
  [shows |-> shows \cup UNION {p.shows : p \in holds},
   does |-> does \cup UNION {p.does : p \in holds}]

(* A control and whether it takes a press while its last write is pending. *)
Control(mutation, disabled) == [mutation |-> mutation, refuses |-> disabled = "pending"]

(* The ui package's Button: disabled ?? loading.  A disabled of its own, false included, is
   all that counts: the spinner does not close the button. *)
Button(disabled, loading) == IF disabled = "absent" THEN loading ELSE disabled

(* disabled={mutation.isPending}, or a handler that returns while it is. *)
Once(mutation) == Control(mutation, "pending")
(* <Button loading={mutation.isPending}> *)
Loading(mutation) == Control(mutation, Button("absent", "pending"))
(* <Button loading={mutation.isPending} disabled={the form is incomplete}> *)
Busy(mutation) == Control(mutation, Button("form", "pending"))
(* Nothing stops a second press. *)
Free(mutation) == Control(mutation, "never")

(* One part per row of a list, each with a mutation of its own: while one row's write is
   pending, the others take presses. *)
Each(part) == [part EXCEPT !.does = {[c EXCEPT !.refuses = FALSE] : c \in @}]
====
