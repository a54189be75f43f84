--------------------------- MODULE AccountDeletion ---------------------------
(***************************************************************************)
(* Deleting a hosted account (src/api/account_deletion.py): a review that  *)
(* hands out a short-lived challenge, and a confirmation that uses it up.  *)
(* The challenges live in the memory of one process; a handler runs until  *)
(* it awaits the identity provider, so a step is what runs between awaits. *)
(***************************************************************************)
EXTENDS Naturals, FiniteSets

CONSTANTS
  Users, Sessions,   \* signed-in users; access tokens each of them may hold
  Handlers,          \* requests being handled
  MaxChallenges,     \* MAX_CHALLENGES
  MaxReviews         \* bound: challenges ever handed out

ASSUME DeletionAssumption == MaxChallenges \in Nat \ {0} /\ MaxReviews \in Nat

VARIABLES
  review,     \* every challenge so far: whose it is, [user, session]
  challenges, \* _challenges: the challenges the process knows
  expired,    \* those past CHALLENGE_SECONDS
  handler,    \* [at, user, session, challenge] of every request
  deletes,    \* history: DELETE requests sent for each challenge
  removed,    \* users the provider has deleted
  told        \* users who were told their account is deleted

delVars == <<review, challenges, expired, handler, deletes, removed, told>>

-----------------------------------------------------------------------------
Reviews == DOMAIN review
Idle == [at |-> "idle"]
Move(h, place) == handler' = [handler EXCEPT ![h].at = place]
Drop(h) == handler' = [handler EXCEPT ![h] = Idle]

DelInit ==
  /\ review = << >> /\ challenges = {} /\ expired = {}
  /\ handler = [h \in Handlers |-> Idle]
  /\ deletes = << >> /\ removed = {} /\ told = {}

(* preview_deletion until its first await.                                 *)
Preview(h, u, s) ==
  /\ handler[h] = Idle
  /\ handler' = [handler EXCEPT ![h] = [at |-> "reviewing", user |-> u, session |-> s]]
  /\ UNCHANGED <<review, challenges, expired, deletes, removed, told>>

(* The login is recent and the archive was read: what has expired and what *)
(* this user held goes, then a new challenge enters unless all are taken.  *)
Remaining(u) == {c \in challenges \ expired : review[c].user # u}
Challenge(h) ==
  LET p == handler[h]
      next == Cardinality(Reviews) + 1
  IN /\ p.at = "reviewing" /\ p.user \notin removed
     /\ \/ /\ Cardinality(Remaining(p.user)) < MaxChallenges /\ next <= MaxReviews
           /\ review' = [c \in Reviews \cup {next} |->
                IF c = next THEN [user |-> p.user, session |-> p.session] ELSE review[c]]
           /\ challenges' = Remaining(p.user) \cup {next}
           /\ deletes' = [c \in Reviews \cup {next} |-> IF c = next THEN 0 ELSE deletes[c]]
        \/ /\ Cardinality(Remaining(p.user)) >= MaxChallenges
           /\ challenges' = Remaining(p.user) /\ UNCHANGED <<review, deletes>>
     /\ Drop(h)
     /\ UNCHANGED <<expired, removed, told>>

(* confirm_deletion until its first await: the challenge must be this      *)
(* user's and this session's, and is consumed.                             *)
Valid(c, u, s) == c \in challenges \ expired /\ review[c] = [user |-> u, session |-> s]
KeepChallenge(c) == UNCHANGED challenges     \* mutant: consumed by nobody
Consume(c) == challenges' = challenges \ {c}
Confirm(h, u, s, c) ==
  /\ handler[h] = Idle
  /\ Valid(c, u, s)
  /\ Consume(c)
  /\ handler' = [handler EXCEPT ![h] =
       [at |-> "verifying", user |-> u, session |-> s, challenge |-> c]]
  /\ UNCHANGED <<review, expired, deletes, removed, told>>

(* The login is still recent: the DELETE goes out.                         *)
SendDelete(h) ==
  /\ handler[h].at = "verifying" /\ handler[h].user \notin removed
  /\ deletes' = [deletes EXCEPT ![handler[h].challenge] = @ + 1]
  /\ Move(h, "deleting")
  /\ UNCHANGED <<review, challenges, expired, removed, told>>

(* The provider deletes the user; its answer may be lost.                  *)
ProviderDeletes(h) ==
  /\ handler[h].at = "deleting" /\ handler[h].user \notin removed
  /\ removed' = removed \cup {handler[h].user}
  /\ Move(h, "deleted")
  /\ UNCHANGED <<review, challenges, expired, deletes, told>>

Answered(h) ==
  /\ handler[h].at = "deleted"
  /\ told' = told \cup {handler[h].user}
  /\ Drop(h)
  /\ UNCHANGED <<review, challenges, expired, deletes, removed>>

(* An old login, a provider error, a lost answer or a time limit: the      *)
(* handler ends and nothing is put back.                                   *)
Fail(h) ==
  /\ handler[h] # Idle
  /\ Drop(h)
  /\ UNCHANGED <<review, challenges, expired, deletes, removed, told>>

Expiry(c) ==
  /\ c \in challenges \ expired
  /\ expired' = expired \cup {c}
  /\ UNCHANGED <<review, challenges, handler, deletes, removed, told>>

DelRestart ==
  /\ challenges # {}
  /\ challenges' = {} /\ handler' = [h \in Handlers |-> Idle]
  /\ UNCHANGED <<review, expired, deletes, removed, told>>

DelNext ==
  \/ \E h \in Handlers :
       \/ \E u \in Users, s \in Sessions :
            Preview(h, u, s) \/ \E c \in Reviews : Confirm(h, u, s, c)
       \/ Challenge(h) \/ SendDelete(h) \/ ProviderDeletes(h) \/ Answered(h) \/ Fail(h)
  \/ \E c \in Reviews : Expiry(c)
  \/ DelRestart

DelSpec == DelInit /\ [][DelNext]_delVars

-----------------------------------------------------------------------------
(* The shape of every variable of the deletion.                            *)
DelTypeOK ==
  /\ Reviews = 1..Cardinality(Reviews)
  /\ \A c \in Reviews : review[c] \in [user : Users, session : Sessions]
  /\ challenges \subseteq Reviews /\ expired \subseteq Reviews
  /\ Cardinality(challenges) <= MaxChallenges
  /\ DOMAIN deletes = Reviews
  /\ removed \subseteq Users /\ told \subseteq removed

(* One review sends at most one DELETE, however its confirmations and      *)
(* their awaits overlap; it is sent for the user and the session that made *)
(* the review, and while it is on its way the challenge is gone from the   *)
(* book, which holds one for a user (account_deletion.py:97).              *)
DeletedOnceAsReviewed ==
  /\ \A c \in Reviews : deletes[c] <= 1
  /\ \A h \in Handlers : handler[h].at \in {"verifying", "deleting", "deleted"} =>
       /\ review[handler[h].challenge] = [user |-> handler[h].user, session |-> handler[h].session]
       /\ handler[h].challenge \notin challenges
  /\ \A c, d \in challenges : review[c].user = review[d].user => c = d
=============================================================================
