----------------------------- MODULE PlanOffer -----------------------------
(***************************************************************************)
(* What a user can rely on in a hosted portfolio, without its books: a     *)
(* plan is an offer for one version of one account.  It is made while the  *)
(* account has that version, replaces the offer before it, and is gone     *)
(* with the first change of the account - which may be the one paper       *)
(* action recorded from it.  CloudAccount implements this.                 *)
(***************************************************************************)
EXTENDS Naturals

CONSTANTS Accounts, Tickers, None

VARIABLES
  version,   \* of every account there is
  offer,     \* the plan each account can act on, or None
  issued,    \* plans are numbered 1, 2, ... as they are saved
  filled     \* <<plan, ticker>> of every recorded action

vars == <<version, offer, issued, filled>>

Init ==
  /\ version = [a \in {} |-> 1]
  /\ offer = [a \in Accounts |-> None]
  /\ issued = 0
  /\ filled = {}

Open(a) ==
  /\ a \notin DOMAIN version
  /\ version' = [b \in DOMAIN version \union {a} |-> IF b = a THEN 1 ELSE version[b]]
  /\ UNCHANGED <<offer, issued, filled>>

Issue(a) ==
  /\ issued' = issued + 1
  /\ offer' = [offer EXCEPT ![a] = issued + 1]
  /\ UNCHANGED <<version, filled>>

Change(a) ==
  /\ version' = [version EXCEPT ![a] = @ + 1]
  /\ offer' = [offer EXCEPT ![a] = None]
  /\ UNCHANGED <<issued, filled>>

Fill(a, t) ==
  /\ offer[a] # None
  /\ filled' = filled \union {<<offer[a], t>>}
  /\ version' = [version EXCEPT ![a] = @ + 1]
  /\ offer' = [offer EXCEPT ![a] = None]
  /\ UNCHANGED issued

Next ==
  \/ \E a \in Accounts : Open(a)
  \/ \E a \in DOMAIN version : Issue(a) \/ Change(a) \/ \E t \in Tickers : Fill(a, t)

Spec == Init /\ [][Next]_vars
=============================================================================
