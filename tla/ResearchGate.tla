---------------------------- MODULE ResearchGate ----------------------------
(***************************************************************************)
(* Filing research (src/api/external_research.py): every request to the    *)
(* provider passes one gate, spaced in time, with caches of successes and  *)
(* of failures; each caller waits a limited time and may disconnect.       *)
(*                                                                         *)
(* Time is counted in steps of the provider's spacing.  A request is       *)
(* cancelled wherever it awaits.  Two kinds of request use the gate: the   *)
(* filings of a stock (_sec) and its company facts (get_company_facts).    *)
(* The cache never reaches its 128 entries here, so nothing is evicted.    *)
(***************************************************************************)
EXTENDS Integers, FiniteSets

CONSTANTS
  Fetchers,      \* requests, each made once
  Tickers,
  SuccessTtl, FailureTtl, MappingTtl,   \* in steps of the spacing
  Horizon        \* bound: the last moment of the clock

ASSUME GateAssumption ==
  /\ {SuccessTtl, FailureTtl, MappingTtl} \subseteq Nat \ {0} /\ Horizon \in Nat
  /\ "free" \notin Fetchers

VARIABLES
  now,          \* time.monotonic()
  gate,         \* _gate: the fetcher that holds it, or "free"
  cache,        \* _cache: a set of [key, value, expiry], one for each key
  nextRequest,  \* _next_request
  fetch,        \* [at, kind, ticker, reply] of every request
  sent          \* history: the times of provider requests, in no order

gateVars == <<now, gate, cache, nextRequest, fetch, sent>>

-----------------------------------------------------------------------------
Kinds == {"filings", "facts"}
MappingKey == <<"mapping">>
Key(f) == <<fetch[f].kind, fetch[f].ticker>>
Awaiting == {"waiting", "mapping", "answer"}

GateInit ==
  /\ now = 0 /\ gate = "free" /\ cache = {} /\ nextRequest = 0 /\ sent = {}
  /\ fetch = [f \in Fetchers |-> [at |-> "new"]]

(* _get: an entry that has not expired.                                    *)
Cached(key) == {e \in cache : e.key = key /\ now < e.expiry}
CachedValue(key) == (CHOOSE e \in Cached(key) : TRUE).value

(* _put with the time to live the value earns.                             *)
Lifetime(key, value) ==
  IF value # "ok" THEN FailureTtl ELSE IF key = MappingKey THEN MappingTtl ELSE SuccessTtl
PutBeside(c, key, value) ==   \* mutant: the old entry stays
  c \cup {[key |-> key, value |-> value, expiry |-> now + Lifetime(key, value)]}
Put(c, key, value) ==
  {e \in c : e.key # key} \cup {[key |-> key, value |-> value, expiry |-> now + Lifetime(key, value)]}

Proceed(f, at, reply) ==
  fetch' = [fetch EXCEPT ![f] = [at |-> at, kind |-> @.kind, ticker |-> @.ticker, reply |-> reply]]
Reply(f, value) ==
  /\ Proceed(f, "done", value)
  /\ gate' = IF gate = f THEN "free" ELSE gate

(* The caller spins until the gate is free.                                *)
Ask(f, kind, t) ==
  /\ fetch[f].at = "new"
  /\ fetch' = [fetch EXCEPT ![f] = [at |-> "waiting", kind |-> kind, ticker |-> t, reply |-> "none"]]
  /\ UNCHANGED <<now, gate, cache, nextRequest, sent>>

(* Facts never load the mapping: a filings request has to have done so.    *)
NeedsMapping(f) == fetch[f].kind = "filings" /\ Cached(MappingKey) = {}
Mapped == Cached(MappingKey) # {} /\ CachedValue(MappingKey) = "ok"

(* The gate is taken.  A cached reply, a mapping that failed or, for the   *)
(* facts, none at all ends the request before its next await; the facts    *)
(* remember no missing mapping.                                            *)
Enter(f) ==
  /\ fetch[f].at = "waiting" /\ gate = "free"
  /\ IF Cached(Key(f)) # {} THEN Reply(f, CachedValue(Key(f))) /\ UNCHANGED cache
     ELSE IF NeedsMapping(f) \/ Mapped
          THEN /\ gate' = f
               /\ Proceed(f, IF NeedsMapping(f) THEN "mapping" ELSE "answer", "none")
               /\ UNCHANGED cache
          ELSE /\ Reply(f, "fail")
               /\ cache' = IF fetch[f].kind = "filings" THEN Put(cache, Key(f), "fail") ELSE cache
  /\ UNCHANGED <<now, nextRequest, sent>>

(* _json: sleep until the spacing allows, then send.                       *)
Sending(f) == fetch[f].at \in {"mapping", "answer"} /\ fetch[f].reply = "none"
SendAtOnce(f) ==              \* mutant: nobody looks at _next_request
  /\ Sending(f)
  /\ nextRequest' = now + 1
  /\ sent' = sent \cup {<<f, fetch[f].at, now>>}
  /\ Proceed(f, fetch[f].at, "sent")
  /\ UNCHANGED <<now, gate, cache>>
Send(f) ==
  /\ Sending(f) /\ now >= nextRequest
  /\ nextRequest' = now + 1
  /\ sent' = sent \cup {<<f, fetch[f].at, now>>}
  /\ Proceed(f, fetch[f].at, "sent")
  /\ UNCHANGED <<now, gate, cache>>

(* The provider's answer, or a failure before or after it was sent.  A     *)
(* filings request that fails to load the mapping remembers both failures. *)
CanEnd(f, value) == fetch[f].reply = "sent" \/ (fetch[f].reply = "none" /\ value = "fail")
MappingLost(f) == Put(Put(cache, MappingKey, "fail"), Key(f), "fail")
MappingArrives(f, value) ==
  /\ fetch[f].at = "mapping" /\ CanEnd(f, value)
  /\ IF value = "ok"
     THEN /\ cache' = Put(cache, MappingKey, "ok")
          /\ Proceed(f, "answer", "none")
          /\ UNCHANGED gate
     ELSE cache' = MappingLost(f) /\ Reply(f, "fail")
  /\ UNCHANGED <<now, nextRequest, sent>>

(* Good filings bring the company's profile with them.                     *)
AnswerArrives(f, value) ==
  /\ fetch[f].at = "answer" /\ CanEnd(f, value)
  /\ LET profiled == IF value = "ok" /\ fetch[f].kind = "filings"
                     THEN Put(cache, <<"profile", fetch[f].ticker>>, "ok") ELSE cache
     IN cache' = Put(profiled, Key(f), value)
  /\ Reply(f, value)
  /\ UNCHANGED <<now, nextRequest, sent>>

(* The time limit or a disconnect.  While it waits for the gate nothing is *)
(* remembered; later the failure is, and the gate is released.             *)
Cancel(f) ==
  /\ fetch[f].at \in Awaiting
  /\ cache' = CASE fetch[f].at = "waiting" -> cache
                [] fetch[f].at = "answer" -> Put(cache, Key(f), "fail")
                [] fetch[f].at = "mapping" -> MappingLost(f)
  /\ Reply(f, "cancelled")
  /\ UNCHANGED <<now, nextRequest, sent>>

Tick ==
  /\ now < Horizon /\ now' = now + 1
  /\ UNCHANGED <<gate, cache, nextRequest, fetch, sent>>

GateNext ==
  \/ \E f \in Fetchers :
       \/ \E kind \in Kinds, t \in Tickers : Ask(f, kind, t)
       \/ Enter(f) \/ Send(f) \/ Cancel(f)
       \/ \E value \in {"ok", "fail"} : MappingArrives(f, value) \/ AnswerArrives(f, value)
  \/ Tick

GateSpec == GateInit /\ [][GateNext]_gateVars

-----------------------------------------------------------------------------
(* The shape of the research state.                                        *)
GateTypeOK ==
  /\ now \in 0..Horizon /\ nextRequest \in 0..Horizon + 1
  /\ gate \in Fetchers \cup {"free"}
  /\ \A d, e \in cache : d.key = e.key => d = e
  /\ \A e \in cache : e.value \in {"ok", "fail"} /\ e.expiry > 0

(* The provider never sees two requests closer than the spacing, whoever   *)
(* sent them and however the ones before ended, and only the gate's holder *)
(* has one under way (external_research.py, _json "called only under       *)
(* _gate").                                                                *)
ProviderSpaced ==
  /\ \A r, s \in sent : r # s => r[3] # s[3]
  /\ \A f \in Fetchers : fetch[f].at \in {"mapping", "answer"} <=> gate = f
=============================================================================
