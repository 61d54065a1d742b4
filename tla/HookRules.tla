---- MODULE HookRules ----
(***************************************************************************)
(* What the hooks of the two clients keep to, as a condition on the shapes *)
(* alone.  The theorems about the cache rest on it, and on nothing else of *)
(* the tables; TLC evaluates it on the tables that are translated.         *)
(***************************************************************************)
EXTENDS QueryCache

(* What the web's hooks have in common, whatever the query: a query that is guessed at, or whose
   fetches are cancelled, is refreshed when the mutation is over, failed or not, and so is one
   that part of a reply is put into when it has succeeded.  Its client passes the signal on. *)
Refreshes(sh) ==
  /\ sh.signals
  /\ \A s \in Slots :
       LET u == sh.uses[s] IN
       /\ u.guesses \/ u.cancels => u.onSettled
       /\ u.reply = "part" => u.onSuccess \/ u.onSettled
       /\ u.queues => u.reply = "none"

(* What the mobile app's have: no fetch is ever cancelled, no reply put in, and a guess over
   data that is there is refreshed when its write has succeeded, and rolled back when not. *)
RollsBack(sh) ==
  /\ ~sh.signals /\ ~sh.warms
  /\ \A s \in Slots :
       LET u == sh.uses[s] IN
       ~u.cancels /\ u.reply = "none" /\ ~u.seeds /\ (u.guesses => u.onSuccess)

(* A hook that writes what the page shows refreshes it, puts its reply in whole, or drops it. *)
ShowsOwnWrites(sh) ==
  \A s \in Slots :
    LET u == sh.uses[s] IN
    u.touches => u.mine /\ (u.onSuccess \/ u.onSettled \/ u.reply = "whole" \/ u.removes)

ASSUME HooksAssumption == \A sh \in Shapes : (Refreshes(sh) \/ RollsBack(sh)) /\ ShowsOwnWrites(sh)
====
