----------------------------- MODULE CoreClient -----------------------------
(***************************************************************************)
(* CoreIntegrationService: how every instance asks Core, another service,  *)
(* about relationships and users.  Lookups of one actor go through a cache *)
(* in the process; a batch of users goes past it and fills it; a page of   *)
(* the users' list is never kept.  A request is attempted again while Core *)
(* wakes up.                                                               *)
(*                                                                         *)
(* Time passes in Ticks, and every duration is a number of Ticks left.     *)
(* What Core says of one actor's relationships is a set of people per      *)
(* role; what it says of a user is whether messaging is enabled for them.  *)
(***************************************************************************)
EXTENDS Integers, FiniteSets, FiniteSetsExt

CONSTANTS
  Instance,        \* processes of the service
  Call,            \* handler executions that ask Core
  Person,          \* everybody but the actor, as numbers in id order
  Role,            \* roles whose relationships Core knows
  CacheTtl,        \* CACHE_TTL_MS
  RequestTimeout,  \* REQUEST_TIMEOUT_MS
  MaxRetries,      \* MAX_RETRIES
  WakeTime,        \* the longest Core takes to wake up
  MaxChanges       \* bound on changes of Core's data

\* 2 ** n
Power[n \in Nat] == IF n = 0 THEN 1 ELSE 2 * Power[n - 1]

\* "6 retries at base 1s doubling comfortably covers the 30-60s to wake".
ASSUME CoreClientAssumption ==
  /\ Person \subseteq Nat \ {0} /\ IsFiniteSet(Person)
  /\ CacheTtl \in Nat \ {0} /\ RequestTimeout \in Nat \ {0}
  /\ MaxRetries \in Nat /\ MaxChanges \in Nat
  /\ WakeTime \in 0..(Power[MaxRetries] - 1)

VARIABLES
  related,  \* Core: whom the actor is related to, per role
  enabled,  \* Core: people who may use messaging
  asleep,   \* Core: Ticks until it is awake
  changes,  \* changes of Core's data so far
  cache,    \* per instance: the entries of its cache
  req,      \* per call: the request it waits for
  news      \* history, per person: Ticks until what Core last changed about
            \* them must be known everywhere

coreVars == <<related, enabled, asleep, changes, cache, req, news>>

\* An entry that has expired is as good as none.
NothingCached == [who |-> {}, left |-> 0]
Kept(who, left) == IF left = 0 THEN NothingCached ELSE [who |-> who, left |-> left]

\* What a call may ask: getParentRelationships and its like, getUserProjection,
\* getUserProjectionsBatch, listMessagingUsers.
Relationships(r) == [kind |-> "relationships", role |-> r]
User(p) == [kind |-> "user", id |-> p]
Batch(ids) == [kind |-> "batch", ids |-> ids]
Page(after, limit) == [kind |-> "list", after |-> after, limit |-> limit]
NoQuestion == [kind |-> "none"]

\* st: off, sent to Core, answered and on its way, waiting to try again, and
\* got or failed once the caller's await is over.  ttl: what is left of the
\* validity of the entry the answer will make.  up, hurt (history): Core was
\* awake when the attempt was made; an attempt failed for another reason than
\* Core's sleep.
NoRequest ==
  [st |-> "off", ask |-> NoQuestion, at |-> 0, attempt |-> 0, timer |-> 0,
   ttl |-> 0, who |-> {}, next |-> 0, up |-> FALSE, hurt |-> FALSE]

InFlight(c) == req[c].st \in {"sent", "travelling", "backoff"}
Answered(c) == req[c].st = "got"
Refused(c) == req[c].st = "failed"

-----------------------------------------------------------------------------
\* Core, which is not in the repository, as the client uses it

FirstOf(n, S) == {p \in S : Cardinality({q \in S : q < p}) < n}

\* What Core may answer.  The list is ordered by id; a page that is full may
\* come with a cursor even if nothing follows, and 0 is no cursor.
Answers(ask) ==
  CASE ask.kind = "relationships" -> {[who |-> related[ask.role], next |-> 0]}
    [] ask.kind = "user" -> {[who |-> enabled \cap {ask.id}, next |-> 0]}
    [] ask.kind = "batch" -> {[who |-> enabled \cap ask.ids, next |-> 0]}
    [] ask.kind = "list" ->
         LET rest == {p \in enabled : p > ask.after}
             page == FirstOf(ask.limit, rest)
         IN {[who |-> page, next |-> n] :
               n \in IF page # rest THEN {Max(page)}
                     ELSE {0} \cup (IF Cardinality(page) = ask.limit THEN {Max(page)}
                                                                     ELSE {})}

\* How long a change may stay unknown: an entry made by cached is counted from
\* before the request, one made by a batch from after it.
RelationshipLag == CacheTtl
UserLag == CacheTtl + RequestTimeout

Changed(p, lag) ==
  /\ changes < MaxChanges
  /\ changes' = changes + 1
  /\ news' = [news EXCEPT ![p] = IF @ > lag THEN @ ELSE lag]
  /\ UNCHANGED <<asleep, cache, req>>

\* A relationship begins or ends.
Relate(p, r) ==
  /\ related' = [related EXCEPT ![r] = IF p \in @ THEN @ \ {p} ELSE @ \cup {p}]
  /\ Changed(p, RelationshipLag)
  /\ UNCHANGED enabled

\* Messaging is enabled for a person, or disabled.
Enable(p) ==
  /\ enabled' = IF p \in enabled THEN enabled \ {p} ELSE enabled \cup {p}
  /\ Changed(p, UserLag)
  /\ UNCHANGED related

-----------------------------------------------------------------------------
\* cached

Cached(i, ask) ==
  CASE ask.kind = "relationships" -> cache[i].lists[ask.role]
    [] ask.kind = "user" -> cache[i].users[ask.id]
    [] OTHER -> NothingCached

\* cached is around the lookups of one actor only.
Keeps(ask) == ask.kind \in {"relationships", "user"}

\* entry.expiresAt > now
Valid(e) == e.left > 0

\* One attempt of request's loop.
Attempt(r, n) ==
  [r EXCEPT !.st = "sent", !.attempt = n, !.timer = RequestTimeout, !.up = asleep = 0]

\* The request a call waits for from now on: an entry that is valid answers it
\* at once, and otherwise Core is asked.
Asking(i, ask) ==
  LET r == [NoRequest EXCEPT !.ask = ask, !.at = i,
                             !.ttl = IF Keeps(ask) THEN CacheTtl ELSE 0] IN
  IF Valid(Cached(i, ask)) THEN [r EXCEPT !.st = "got", !.who = Cached(i, ask).who]
                           ELSE Attempt(r, 0)

\* (Mutant of Stored: the time is taken again after the answer.)
StoredLate(r) ==
  CASE r.ask.kind = "relationships" ->
         [cache[r.at] EXCEPT !.lists[r.ask.role] = Kept(r.who, CacheTtl)]
    [] r.ask.kind = "user" ->
         [cache[r.at] EXCEPT !.users[r.ask.id] = Kept(r.who, CacheTtl)]
    [] OTHER -> cache[r.at]

\* What the answer to r leaves in its instance's cache: the batch takes the
\* time again, cached keeps the one it took before it asked.
Stored(r) ==
  CASE r.ask.kind = "relationships" ->
         [cache[r.at] EXCEPT !.lists[r.ask.role] = Kept(r.who, r.ttl)]
    [] r.ask.kind = "user" ->
         [cache[r.at] EXCEPT !.users[r.ask.id] = Kept(r.who, r.ttl)]
    [] r.ask.kind = "batch" ->
         [cache[r.at] EXCEPT !.users =
            [p \in Person |-> IF p \in r.ask.ids
                                THEN Kept(r.who \cap {p}, CacheTtl)
                                ELSE @[p]]]
    [] r.ask.kind = "list" -> cache[r.at]

-----------------------------------------------------------------------------
\* request

\* Core evaluates the question; its answer is on its way.
CoreAnswers(c) ==
  /\ req[c].st = "sent" /\ asleep = 0
  /\ \E a \in Answers(req[c].ask) :
       req' = [req EXCEPT ![c].st = "travelling", ![c].who = a.who, ![c].next = a.next]
  /\ UNCHANGED <<related, enabled, asleep, changes, cache, news>>

\* The body has been read; the value is kept and the await ends.
Deliver(c) ==
  /\ req[c].st = "travelling"
  /\ req' = [req EXCEPT ![c].st = "got"]
  /\ cache' = [cache EXCEPT ![req[c].at] = Stored(req[c])]
  /\ UNCHANGED <<related, enabled, asleep, changes, news>>

\* (Mutant of Backoff: the delay does not double.)
BackoffFlat(n) == 1

\* RETRY_BASE_DELAY_MS * 2 ** attempt
Backoff(n) == Power[n]

\* A retryable status or our own timeout: the next attempt after a delay, or
\* CoreIntegrationUnavailableError after the last.
TryAgain(r) ==
  LET after == [r EXCEPT !.who = {}, !.next = 0, !.hurt = @ \/ r.up] IN
  IF r.attempt < MaxRetries
    THEN [after EXCEPT !.st = "backoff", !.timer = Backoff(r.attempt)]
    ELSE [after EXCEPT !.st = "failed"]

\* (Mutant of Aborts: nobody aborts a request that hangs.)
AbortsNever(r) == FALSE

\* The AbortController's timer, which runs until the body has been read.
Aborts(r) == r.st \in {"sent", "travelling"} /\ r.timer = 0

\* 429, 502, 503 or 504, from Core or from the proxy in front of it.
Rejected(c) ==
  /\ req[c].st = "sent"
  /\ req' = [req EXCEPT ![c] = TryAgain(@)]
  /\ UNCHANGED <<related, enabled, asleep, changes, cache, news>>

TimesOut(c) ==
  /\ Aborts(req[c])
  /\ req' = [req EXCEPT ![c] = TryAgain(@)]
  /\ UNCHANGED <<related, enabled, asleep, changes, cache, news>>

\* Any other failure ends the request at once: another status, a broken
\* connection, a body that is not JSON.
Fails(c) ==
  /\ req[c].st \in {"sent", "travelling"}
  /\ req' = [req EXCEPT ![c].st = "failed", ![c].who = {}, ![c].next = 0, ![c].hurt = TRUE]
  /\ UNCHANGED <<related, enabled, asleep, changes, cache, news>>

\* sleep(delay) is over.
BackoffOver(c) == req[c].st = "backoff" /\ req[c].timer = 0

Retry(c) ==
  /\ BackoffOver(c)
  /\ req' = [req EXCEPT ![c] = Attempt(@, @.attempt + 1)]
  /\ UNCHANGED <<related, enabled, asleep, changes, cache, news>>

-----------------------------------------------------------------------------
\* Time

Less(n) == IF n = 0 THEN 0 ELSE n - 1
Older(e) == Kept(e.who, Less(e.left))

\* A timer that is due goes off, and a call does what it has to between two
\* awaits, before time passes.
MayTick ==
  \A c \in Call : ~Answered(c) /\ ~Refused(c) /\ ~Aborts(req[c]) /\ ~BackoffOver(c)

Tick ==
  /\ MayTick
  /\ asleep' = Less(asleep)
  /\ news' = [p \in Person |-> Less(news[p])]
  /\ cache' = [i \in Instance |->
                 [lists |-> [r \in Role |-> Older(cache[i].lists[r])],
                  users |-> [p \in Person |-> Older(cache[i].users[p])]]]
  /\ req' = [c \in Call |->
               IF InFlight(c) THEN [req[c] EXCEPT !.timer = Less(@), !.ttl = Less(@)]
                              ELSE req[c]]
  /\ UNCHANGED <<related, enabled, changes>>

=============================================================================
