-------------------------- MODULE DirectoryProofs ---------------------------
(***************************************************************************)
(* Proofs that no decision is older than the caches allow (DecisionInv),   *)
(* that a request outlasts Core's sleep (WakeInv), and that a walk shows   *)
(* everybody (WalkInv, which is inductive together with DecisionInv).      *)
(* First these inductive invariants: what is always true of the caches, of *)
(* the requests to Core, of the handlers that wait for them and of a       *)
(* client's walk.                                                          *)
(***************************************************************************)
EXTENDS Directory, FiniteSetTheorems, WellFoundedInduction, TLAPS

\* The people about whom who, as an answer to ask, is not what Core would say now.
Wrong(ask, who) ==
  {p \in Person :
     \/ ask.kind = "relationships" /\ (p \in who <=> p \notin related[ask.role])
     \/ ask.kind = "user" /\ p = ask.id /\ (p \in who <=> p \notin enabled)
     \/ ask.kind = "batch" /\ p \in ask.ids /\ (p \in who <=> p \notin enabled)}

IsQuestion(ask) ==
  /\ ask.kind \in {"relationships", "user", "batch", "list"}
  /\ ask.kind = "relationships" => ask.role \in Role
  /\ ask.kind = "user" => ask.id \in Person
  /\ ask.kind = "batch" => ask.ids \subseteq Person

-----------------------------------------------------------------------------
\* The caches

Entry == [who : SUBSET Person, left : 0..CacheTtl]

Entries == [lists : [Role -> Entry], users : [Person -> Entry]]

CoreTypeOK ==
  /\ related \in [Role -> SUBSET Person]
  /\ enabled \in SUBSET Person
  /\ news \in [Person -> 0..UserLag]
  /\ cache \in [Instance -> Entries]

\* An entry that is wrong about somebody expires before the change about them must be known.
EntriesOK(k) ==
  \A p \in Person :
    /\ \A r \in Role : p \in Wrong(Relationships(r), k.lists[r].who)
                         => k.lists[r].left <= news[p]
    /\ p \in Wrong(User(p), k.users[p].who) => k.users[p].left <= news[p]
    /\ k.users[p].who \subseteq {p}

CacheOK == \A i \in Instance : EntriesOK(cache[i])

-----------------------------------------------------------------------------
\* Requests

IsRequest(r) ==
  r = [f \in {"st", "ask", "at", "attempt", "timer", "ttl", "who", "next", "up", "hurt"} |->
         r[f]]

\* How long the entry that an answer makes may still be valid: one of the batch is counted
\* from its arrival, which the timer bounds.
Lives(r) == IF r.ask.kind = "batch" THEN CacheTtl + r.timer ELSE r.ttl

RequestOK(r) ==
  /\ IsRequest(r)
  /\ r.st # "off" => r.at \in Instance /\ IsQuestion(r.ask)
  /\ r.ttl \in 0..CacheTtl
  /\ r.st \in {"sent", "travelling"} => r.timer \in 0..RequestTimeout
  /\ r.who \subseteq Person
  /\ r.ask.kind = "user" => r.who \subseteq {r.ask.id}
  /\ r.ask.kind = "batch" => r.who \subseteq r.ask.ids
  /\ r.st = "travelling" => \A p \in Wrong(r.ask, r.who) : Lives(r) <= news[p]

-----------------------------------------------------------------------------
\* Handlers

IsTask(t) ==
  t = [f \in {"op", "pc", "at", "roles", "target", "cursor", "lists", "scope", "shown",
              "result", "next", "steady"} |-> t[f]]

TaskOK(t) ==
  /\ IsTask(t)
  /\ t.op \in {"none", "authorize", "discover"}
  /\ t.pc # "idle" => t.at \in Instance /\ t.op # "none"
  /\ t.pc = "user" => t.op = "authorize"
  /\ t.lists \subseteq Role
  /\ t.scope \subseteq Person
  /\ t.steady \subseteq Person
  /\ \A p \in t.steady : news[p] = 0

\* What the lists read so far say of the target; unread are the roles of the others.
ScopeSoFar(t, unread) ==
  /\ t.target \in t.scope => \E r \in t.roles \cap Role : t.target \in related[r]
  /\ \A r \in t.roles \cap Role :
       t.target \in related[r] => t.target \in t.scope \/ r \in unread

AwaitsUser(r, t) ==
  /\ t.pc = "user" /\ r.ask = User(t.target)
  /\ t.roles \cap MessagingRoles # {}
  /\ t.lists = t.roles \cap Role /\ t.scope = {}

AwaitsList(r, t) ==
  /\ t.pc = "scope" /\ r.ask.kind = "relationships" /\ r.ask.role \in t.roles
  /\ t.roles \cap MessagingRoles # {} /\ t.roles \cap Unbounded = {}
  /\ t.lists \subseteq t.roles
  /\ t.target \in t.steady => /\ t.target \in enabled
                              /\ ScopeSoFar(t, t.lists \cup {r.ask.role})

HasDecided(t) ==
  /\ t.pc = "done"
  /\ t.target \in t.steady => t.result \in {Rightful(t.roles, t.target), "UNAVAILABLE"}

\* A request and the handler that waits for it.
CallOK(r, t) ==
  /\ RequestOK(r)
  /\ TaskOK(t)
  /\ r.st # "off" => t.pc \notin {"idle", "done"}
  /\ r.st \in {"travelling", "got"} => Wrong(r.ask, r.who) \cap t.steady = {}
  /\ t.op = "authorize" => /\ t.target \in Person
                           /\ AwaitsUser(r, t) \/ AwaitsList(r, t) \/ HasDecided(t)

DecisionInv ==
  /\ CoreTypeOK
  /\ CacheOK
  /\ req = [c \in Call |-> req[c]] /\ task = [c \in Call |-> task[c]]
  /\ \A c \in Call : CallOK(req[c], task[c])

-----------------------------------------------------------------------------
\* Core's sleep

\* An attempt begins after as many Ticks of Core's sleep as the delays before it took, and
\* so the last one finds it awake.
WakeOK(r) ==
  /\ r.attempt \in 0..MaxRetries
  /\ r.st \in {"sent", "travelling"} =>
       /\ asleep > 0 => asleep + Power[r.attempt] - 1 <= WakeTime
       /\ r.attempt = MaxRetries => r.up = TRUE
  /\ r.st = "backoff" =>
       /\ r.attempt < MaxRetries /\ r.timer \in 0..Power[r.attempt]
       /\ asleep > 0 => asleep + 2 * Power[r.attempt] - 1 - r.timer <= WakeTime
  /\ r.st = "failed" => r.hurt = TRUE

WakeInv ==
  /\ asleep \in 0..WakeTime
  /\ \A c \in Call : WakeOK(req[c])

-----------------------------------------------------------------------------
\* The walk

IsWalk(w) ==
  w = [f \in {"st", "roles", "cursor", "failures", "steady", "shown"} |-> w[f]]

\* The people of the first phase of a walk, which is left out with unbounded scope.
InScope(p) ==
  walk.roles \cap Unbounded = {} /\ \E r \in walk.roles \cap Role : p \in related[r]

\* Whom a walk that has come to a cursor has passed.
Passed(cursor, p) ==
  CASE cursor.phase = "start" -> FALSE
    [] cursor.phase = "S" -> InScope(p) /\ p <= cursor.at
    [] cursor.phase = "C" -> InScope(p) \/ p <= cursor.at
    [] cursor.phase = "end" -> TRUE

\* At a cursor, everybody who may use messaging and was passed has been shown; once, and
\* nobody else, if nothing has changed.  The cursor in the scope names one of it, unless
\* something has changed about that one.
Shows(cursor, shown) ==
  /\ cursor.phase \in {"start", "S", "C", "end"}
  /\ cursor.at \in Nat /\ cursor.at \in Person \cup {0}
  /\ cursor.phase = "start" => cursor.at = 0
  /\ cursor.phase = "end" => cursor = End
  /\ \A p \in walk.steady \cap enabled : Passed(cursor, p) => shown[p] > 0
  /\ walk.steady = Person =>
       \A p \in Person : shown[p] = IF p \in enabled /\ Passed(cursor, p) THEN 1 ELSE 0
  /\ cursor.phase = "S" /\ cursor.at \in walk.steady =>
       cursor.at \in enabled /\ InScope(cursor.at)
  /\ cursor.phase = "S" => cursor.at \in Person

Later(phase) ==
  CASE phase = "start" -> {"S", "C", "end"}
    [] phase = "S" -> {"C", "end"}
    [] phase = "C" -> {"end"}
    [] phase = "end" -> {}

\* A page takes the walk on from one cursor to another, unless it began where nobody of the
\* scope may be any more.
Onward(from, to) ==
  \/ to.phase \in Later(from.phase)
  \/ to.phase = from.phase /\ to.at > from.at
  \/ from.phase = "S" /\ from.at \notin walk.steady

WalkOK ==
  /\ IsWalk(walk)
  /\ walk.shown \in [Person -> Nat]
  /\ walk.steady \subseteq Steady
  /\ walk.roles \cap MessagingRoles # {} /\ walk.st \in {"on", "ended"} =>
       Shows(walk.cursor, walk.shown)
  /\ walk.st = "on" => walk.cursor # End
  /\ walk.st = "on" /\ walk.roles \cap MessagingRoles = {} => walk.cursor = Start
  /\ walk.st = "ended" => walk.cursor = End

\* The scope as far as it has been read, the lists of unread missing.
ScopeIs(t, unread) ==
  \A p \in walk.steady :
    /\ p \in t.scope => InScope(p)
    /\ \A r \in t.roles \cap Role : p \in related[r] => p \in t.scope \/ r \in unread

ReadsScope(r, t) ==
  /\ t.pc = "scope" /\ t.roles \cap Unbounded = {} /\ t.shown = {}
  /\ r.ask.kind = "relationships" /\ r.ask.role \in t.roles
  /\ t.lists \subseteq t.roles
  /\ ScopeIs(t, t.lists \cup {r.ask.role})

ReadsUsers(r, t) ==
  /\ t.pc = "batch" /\ t.roles \cap Unbounded = {} /\ t.shown = {}
  /\ r.ask = Batch(t.scope) /\ ScopeIs(t, {})

\* What Core says of the steady people in a page after ask.after.
PageIsRight(r, t) ==
  /\ r.next \in Nat /\ (r.next # 0 => r.next \in Person /\ r.next > r.ask.after)
  /\ \A p \in t.steady :
       p \in r.who <=> /\ p \in enabled /\ p > r.ask.after
                       /\ r.next = 0 \/ p <= r.next

\* The rest of the scope is on the page, if the walk was still in it.
ReadsPage(r, t) ==
  /\ t.pc = "list" /\ t.shown \subseteq Person
  /\ r.ask.kind = "list" /\ r.ask.limit \in Nat \ {0} /\ r.ask.after = CoreCursor(t.cursor)
  /\ \A p \in walk.steady : p \in t.scope <=> InScope(p)
  /\ \A p \in walk.steady \cap enabled : InScope(p) => p \in t.shown \/ walk.shown[p] > 0
  /\ walk.steady = Person =>
       \A p \in t.shown : p \in enabled /\ InScope(p) /\ walk.shown[p] = 0
  /\ r.st \in {"travelling", "got"} => PageIsRight(r, t)

\* How often people will have been shown when the page has arrived.
WithPage(t) ==
  [p \in Person |-> IF p \in t.shown /\ walk.shown[p] < 2 THEN walk.shown[p] + 1
                                                           ELSE walk.shown[p]]

BringsPage(t) ==
  /\ t.pc = "done"
  /\ t.roles \cap MessagingRoles # {} /\ t.result # "UNAVAILABLE" =>
       Shows(t.next, WithPage(t)) /\ Onward(t.cursor, t.next)
  /\ t.roles \cap MessagingRoles = {} => t.next = End

\* A handler of the walk that is under way.
OnWalk(t) ==
  /\ t.op = "discover" /\ walk.st = "on"
  /\ t.roles = walk.roles /\ t.cursor = walk.cursor
  /\ walk.steady \subseteq t.steady

\* The page the walk waits for.
DiscoverOK(r, t) ==
  t.op = "discover" =>
    /\ OnWalk(t)
    /\ t.pc # "done" => t.roles \cap MessagingRoles # {}
    /\ ReadsScope(r, t) \/ ReadsUsers(r, t) \/ ReadsPage(r, t) \/ BringsPage(t)

WalkInv ==
  /\ WalkOK
  /\ \A c \in Call : DiscoverOK(req[c], task[c])
  /\ \A c, d \in Call : task[c].op = "discover" /\ task[d].op = "discover" => c = d


-----------------------------------------------------------------------------
(* Requests.                                                               *)

\* No request is as good as one that asks nothing.
LEMMA NoRequestOK == RequestOK(NoRequest)
  BY CoreClientAssumption DEF RequestOK, IsRequest, IsQuestion, NoRequest, NoQuestion, Wrong

\* An attempt changes neither the question nor the time its answer may be kept.
LEMMA Attempted ==
  ASSUME NEW r, NEW n, IsRequest(r), IsQuestion(r.ask), r.at \in Instance,
         r.ttl \in 0..CacheTtl, r.who \subseteq Person,
         r.ask.kind = "user" => r.who \subseteq {r.ask.id},
         r.ask.kind = "batch" => r.who \subseteq r.ask.ids
  PROVE  /\ RequestOK(Attempt(r, n))
         /\ Attempt(r, n).st = "sent" /\ Attempt(r, n).ask = r.ask
<1> DEFINE a == Attempt(r, n)
<1>1. /\ IsRequest(a) /\ a.st = "sent" /\ a.timer = RequestTimeout
      /\ a.ask = r.ask /\ a.at = r.at /\ a.ttl = r.ttl /\ a.who = r.who
  BY DEF Attempt, IsRequest
<1> HIDE DEF a
<1>2. RequestOK(a) BY <1>1, CoreClientAssumption DEF RequestOK
<1> QED BY <1>1, <1>2 DEF a

\* An attempt that went wrong leaves no answer behind.
LEMMA TriedAgain ==
  ASSUME NEW r, RequestOK(r), r.st # "off"
  PROVE  /\ RequestOK(TryAgain(r))
         /\ TryAgain(r).st \in {"backoff", "failed"} /\ TryAgain(r).ask = r.ask
<1> DEFINE a == TryAgain(r)
<1>1. /\ IsRequest(a) /\ a.st \in {"backoff", "failed"}
      /\ a.ask = r.ask /\ a.at = r.at /\ a.ttl = r.ttl /\ a.who = {}
  BY DEF TryAgain, RequestOK, IsRequest
<1> HIDE DEF a
<1>2. RequestOK(a) BY <1>1 DEF RequestOK
<1> QED BY <1>1, <1>2 DEF a

\* A question is answered by a valid entry, which is right about everybody of whom there is
\* no news, or goes to Core.
LEMMA Asked ==
  ASSUME CoreTypeOK, CacheOK, NEW i \in Instance, NEW ask, IsQuestion(ask)
  PROVE  LET a == Asking(i, ask) IN
         /\ RequestOK(a)
         /\ a.ask = ask
         /\ \/ a.st = "sent"
            \/ a.st = "got" /\ \A p \in Wrong(ask, a.who) : news[p] # 0
<1> DEFINE a == Asking(i, ask)
           e == Cached(i, ask)
           ttl == IF Keeps(ask) THEN CacheTtl ELSE 0
           r == [NoRequest EXCEPT !.ask = ask, !.at = i, !.ttl = ttl]
<1>0. ttl \in 0..CacheTtl BY CoreClientAssumption
<1>1. a = IF Valid(e) THEN [r EXCEPT !.st = "got", !.who = e.who] ELSE Attempt(r, 0)
  BY DEF Asking
<1> HIDE DEF ttl
<1>2. IsRequest(r) /\ r.ask = ask /\ r.at = i /\ r.ttl = ttl /\ r.who = {}
  BY NoRequestOK DEF RequestOK, IsRequest, NoRequest
<1>3. CASE ~Valid(e)
  <2>1. a = Attempt(r, 0) BY <1>1, <1>3
  <2> HIDE DEF r, a
  <2>2. RequestOK(a) /\ a.ask = ask /\ a.st = "sent" BY <1>0, <1>2, <2>1, Attempted
  <2> QED BY <2>2 DEF a
<1>4. CASE Valid(e)
  <2>1. /\ e.who \subseteq Person
        /\ ask.kind = "user" => e.who \subseteq {ask.id}
        /\ ask.kind # "batch"
        /\ e.left \in Nat /\ \A p \in Wrong(ask, e.who) : e.left <= news[p]
    <3>1. CASE ask.kind = "relationships"
      <4>1. e = cache[i].lists[ask.role] /\ ask.role \in Role
        BY <3>1 DEF Cached, IsQuestion
      <4>2. e \in Entry BY <4>1 DEF CoreTypeOK, Entries
      <4>3. Wrong(ask, e.who) = Wrong(Relationships(ask.role), e.who)
        BY <3>1 DEF Wrong, Relationships
      <4>4. \A p \in Wrong(ask, e.who) : p \in Person BY DEF Wrong
      <4>5. \A p \in Wrong(ask, e.who) : e.left <= news[p]
        BY <4>1, <4>3, <4>4 DEF CacheOK, EntriesOK
      <4> QED BY <3>1, <4>2, <4>5, CoreClientAssumption DEF Entry
    <3>2. CASE ask.kind = "user"
      <4>1. e = cache[i].users[ask.id] /\ ask.id \in Person
        BY <3>2 DEF Cached, IsQuestion
      <4>2. e \in Entry BY <4>1 DEF CoreTypeOK, Entries
      <4>3. \A p \in Wrong(ask, e.who) : p = ask.id /\ p \in Wrong(User(p), e.who)
        BY <3>2 DEF Wrong, User
      <4>4. e.who \subseteq {ask.id} /\ \A p \in Wrong(ask, e.who) : e.left <= news[p]
        BY <4>1, <4>3 DEF CacheOK, EntriesOK
      <4> QED BY <3>2, <4>2, <4>4, CoreClientAssumption DEF Entry
    <3>3. CASE ask.kind \notin {"relationships", "user"}
      BY <1>4, <3>3 DEF Cached, NothingCached, Valid
    <3> QED BY <3>1, <3>2, <3>3
  <2>2. \A p \in Wrong(ask, e.who) : news[p] # 0
    BY <1>4, <2>1 DEF Valid
  <2>3. a = [r EXCEPT !.st = "got", !.who = e.who] BY <1>1, <1>4
  <2> HIDE DEF r, e, a
  <2>4. /\ IsRequest(a) /\ a.st = "got" /\ a.who = e.who
        /\ a.ask = ask /\ a.at = i /\ a.ttl = ttl
    BY <1>2, <2>3 DEF IsRequest
  <2>5. RequestOK(a) BY <1>0, <2>1, <2>4 DEF RequestOK
  <2> QED BY <2>2, <2>4, <2>5 DEF a
<1> QED BY <1>3, <1>4

-----------------------------------------------------------------------------
(* Steps of one call, which leave Core, the caches and time alone.          *)

Local == UNCHANGED <<related, enabled, cache, news>>

\* What is true of a call does not change unless Core, the call or time does.
LEMMA SameCore ==
  ASSUME UNCHANGED <<related, enabled, news>>, NEW r, NEW t
  PROVE  /\ RequestOK(r)' = RequestOK(r)
         /\ TaskOK(t)' = TaskOK(t)
         /\ CallOK(r, t)' <=> CallOK(r, t)
<1>1. \A ask, who : Wrong(ask, who)' = Wrong(ask, who) BY DEF Wrong
<1>2. RequestOK(r)' = RequestOK(r) BY <1>1 DEF RequestOK
<1>3. TaskOK(t)' = TaskOK(t) BY DEF TaskOK
<1>4. \A roles, p : Rightful(roles, p)' = Rightful(roles, p) BY DEF Rightful
<1>5. /\ AwaitsUser(r, t)' <=> AwaitsUser(r, t)
      /\ AwaitsList(r, t)' <=> AwaitsList(r, t)
      /\ HasDecided(t)' <=> HasDecided(t)
  BY <1>4 DEF AwaitsUser, AwaitsList, ScopeSoFar, HasDecided
<1> QED BY <1>1, <1>2, <1>3, <1>5 DEF CallOK

\* A step of one call keeps the invariant if what it makes of that call and of the caches
\* is sound.
LEMMA CallsStep ==
  ASSUME DecisionInv, UNCHANGED <<related, enabled, news>>, CoreTypeOK', CacheOK',
         NEW c \in Call, NEW r, NEW t, CallOK(r, t),
         req' = [req EXCEPT ![c] = r], task' = [task EXCEPT ![c] = t]
  PROVE  DecisionInv'
<1>1. req' = [d \in Call |-> req'[d]] /\ task' = [d \in Call |-> task'[d]]
  BY DEF DecisionInv
<1>2. \A d \in Call : \/ d # c /\ req'[d] = req[d] /\ task'[d] = task[d]
                      \/ d = c /\ req'[d] = r /\ task'[d] = t
  BY DEF DecisionInv
<1>3. \A d \in Call : CallOK(req[d], task[d]) BY DEF DecisionInv
<1>4. \A d \in Call : CallOK(req'[d], task'[d]) BY <1>2, <1>3
<1>5. ASSUME NEW d \in Call PROVE CallOK(req[d], task[d])'
  <2>1. PICK x, y : x = req'[d] /\ y = task'[d] OBVIOUS
  <2>2. CallOK(x, y) BY <1>4, <2>1
  <2>3. CallOK(x, y)' BY <2>2, SameCore
  <2> QED BY <2>1, <2>3
<1> QED BY <1>1, <1>5 DEF DecisionInv

\* A step of one call that changes neither Core, nor a cache, nor the time.
LEMMA LocalStep ==
  ASSUME DecisionInv, Local, NEW c \in Call, NEW r, NEW t, CallOK(r, t),
         req' = [req EXCEPT ![c] = r], task' = [task EXCEPT ![c] = t]
  PROVE  DecisionInv'
<1>1. CoreTypeOK' BY DEF DecisionInv, CoreTypeOK, Local
<1>2. \A ask, who : Wrong(ask, who)' = Wrong(ask, who) BY DEF Wrong, Local
<1>3. CacheOK' BY <1>2 DEF DecisionInv, CacheOK, EntriesOK, Local
<1> QED BY <1>1, <1>3, CallsStep DEF Local

\* A handler that has begun.
Works(t) == TaskOK(t) /\ t.at \in Instance /\ t.op # "none"

\* A handler that awaits an answer knows nothing wrong by it.
LEMMA Awaited ==
  ASSUME DecisionInv, NEW c \in Call, NEW t, NEW ask, Await(c, t, ask),
         Works(t), t.pc \notin {"idle", "done"}, IsQuestion(ask),
         t.op = "authorize" =>
           /\ t.target \in Person
           /\ \A r : r.ask = ask => AwaitsUser(r, t) \/ AwaitsList(r, t)
  PROVE  DecisionInv'
<1>1. CoreTypeOK /\ CacheOK BY DEF DecisionInv
<1>2. PICK r : r = Asking(t.at, ask) OBVIOUS
<1>3. /\ RequestOK(r) /\ r.ask = ask
      /\ \/ r.st = "sent"
         \/ r.st = "got" /\ \A p \in Wrong(ask, r.who) : news[p] # 0
  BY <1>1, <1>2, Asked DEF Works
<1>4. r.st \in {"travelling", "got"} => Wrong(r.ask, r.who) \cap t.steady = {}
  BY <1>3 DEF Works, TaskOK
<1>5. CallOK(r, t) BY <1>3, <1>4 DEF Works, CallOK
<1>6. req' = [req EXCEPT ![c] = r] /\ task' = [task EXCEPT ![c] = t] /\ Local
  BY <1>2 DEF Await, Local
<1> QED BY <1>5, <1>6, LocalStep

\* A handler that is over waits for nothing.
LEMMA Returned ==
  ASSUME DecisionInv, NEW c \in Call, NEW t, Return(c, t),
         Works(t),
         t.op = "authorize" =>
           /\ t.target \in Person
           /\ t.target \in t.steady => t.result \in {Rightful(t.roles, t.target), "UNAVAILABLE"}
  PROVE  DecisionInv'
<1> DEFINE h == [t EXCEPT !.pc = "done", !.lists = {}, !.scope = {}]
<1>1. /\ IsTask(h) /\ h.pc = "done" /\ h.lists = {} /\ h.scope = {} /\ h.op = t.op
      /\ h.at = t.at /\ h.roles = t.roles /\ h.target = t.target /\ h.steady = t.steady
      /\ h.result = t.result
  BY DEF Works, TaskOK, IsTask
<1>2. req' = [req EXCEPT ![c] = NoRequest] /\ task' = [task EXCEPT ![c] = h] /\ Local
  BY DEF Return, Local
<1> HIDE DEF h
<1>3. TaskOK(h) BY <1>1 DEF Works, TaskOK
<1>4. t.op = "authorize" => HasDecided(h) BY <1>1 DEF HasDecided
<1>5. NoRequest.st = "off" BY DEF NoRequest
<1>6. CallOK(NoRequest, h) BY <1>1, <1>3, <1>4, <1>5, NoRequestOK DEF CallOK
<1> QED BY <1>2, <1>6, LocalStep

\* A decision that is the right one, or that nothing can be decided, ends the handler.
LEMMA Decided ==
  ASSUME DecisionInv, NEW c \in Call, NEW t, NEW d, Decide(c, t, d),
         Works(t),
         t.op = "authorize" =>
           /\ t.target \in Person
           /\ t.target \in t.steady => d \in {Rightful(t.roles, t.target), "UNAVAILABLE"}
  PROVE  DecisionInv'
<1> DEFINE h == [t EXCEPT !.result = d]
<1>1. /\ IsTask(h) /\ h.pc = t.pc /\ h.lists = t.lists /\ h.scope = t.scope /\ h.op = t.op
      /\ h.at = t.at /\ h.roles = t.roles /\ h.target = t.target /\ h.steady = t.steady
      /\ h.result = d
  BY DEF Works, TaskOK, IsTask
<1>2. Return(c, h) BY DEF Decide
<1> HIDE DEF h
<1>3. Works(h) BY <1>1 DEF Works, TaskOK
<1> QED BY <1>1, <1>2, <1>3, Returned

\* What a handler was, it is still while its invariant holds.
LEMMA CallFacts ==
  ASSUME DecisionInv, NEW c \in Call
  PROVE  /\ CallOK(req[c], task[c]) /\ RequestOK(req[c]) /\ TaskOK(task[c])
         /\ task[c].pc # "idle" => Works(task[c])
         /\ req[c].st # "off" => req[c].at \in Instance
  BY DEF DecisionInv, CallOK, Works, TaskOK, RequestOK

\* The handler of authorizeMessaging goes on to the next list, or decides by the lists it has read.
LEMMA ScopeStep ==
  ASSUME DecisionInv, NEW c \in Call, NEW t, GetDirectScope(c, t), t.op = "authorize",
         Works(t), t.target \in Person, t.lists \subseteq t.roles,
         t.roles \cap MessagingRoles # {}, t.roles \cap Unbounded = {},
         t.target \in t.steady => t.target \in enabled /\ ScopeSoFar(t, t.lists)
  PROVE  DecisionInv'
<1>1. CASE t.lists = {}
  <2>1. HasScope(c, t) BY <1>1 DEF GetDirectScope
  <2>2. PICK d : d = IF t.target \in t.scope THEN "ALLOW_DIRECT" ELSE "REQUIRE_REQUEST"
    OBVIOUS
  <2>3. Decide(c, t, d) BY <2>1, <2>2, t.op = "authorize" DEF HasScope
  <2>4. t.target \in t.steady => d = Rightful(t.roles, t.target)
    BY <1>1, <2>2 DEF Rightful, ScopeSoFar
  <2> QED BY <2>3, <2>4, Decided
<1>2. CASE t.lists # {}
  <2>1. PICK r \in t.lists :
          Await(c, [t EXCEPT !.pc = "scope", !.lists = @ \ {r}], Relationships(r))
    BY <1>2 DEF GetDirectScope
  <2> DEFINE h == [t EXCEPT !.pc = "scope", !.lists = @ \ {r}]
  <2>2. /\ IsTask(h) /\ h.pc = "scope" /\ h.lists = t.lists \ {r} /\ h.scope = t.scope
        /\ h.op = t.op /\ h.at = t.at /\ h.roles = t.roles /\ h.target = t.target
        /\ h.steady = t.steady
    BY DEF Works, TaskOK, IsTask
  <2>3. Await(c, h, Relationships(r)) BY <2>1
  <2> HIDE DEF h
  <2>4. Works(h) BY <2>2 DEF Works, TaskOK
  <2>5. IsQuestion(Relationships(r)) BY DEF IsQuestion, Relationships, Works, TaskOK
  <2>6. Relationships(r).kind = "relationships" /\ Relationships(r).role = r
    BY DEF Relationships
  <2>7. ASSUME NEW q, q.ask = Relationships(r) PROVE AwaitsList(q, h)
    <3>1. h.lists \cup {r} = t.lists BY <2>2
    <3>2. h.target \in h.steady => h.target \in enabled /\ ScopeSoFar(h, h.lists \cup {r})
      BY <2>2, <3>1 DEF ScopeSoFar
    <3> QED BY <2>2, <2>6, <2>7, <3>2 DEF AwaitsList
  <2> QED BY <2>2, <2>3, <2>4, <2>5, <2>7, Awaited
<1> QED BY <1>1, <1>2

-----------------------------------------------------------------------------
(* The handler of discover, which decides nothing.                          *)

\* A page is returned, or the rest of it is asked of Core.
LEMMA PageStep ==
  ASSUME DecisionInv, NEW c \in Call, NEW t, Works(t), t.op = "discover",
         NEW users, PageOf(c, t, users)
  PROVE  DecisionInv'
<1>1. PICK shown : \/ \E next : Return(c, [t EXCEPT !.shown = shown, !.next = next])
                   \/ \E after, limit :
                        Await(c, [t EXCEPT !.pc = "list", !.shown = shown], Page(after, limit))
  BY DEF PageOf
<1>2. ASSUME NEW next, Return(c, [t EXCEPT !.shown = shown, !.next = next])
      PROVE  DecisionInv'
  <2> DEFINE h == [t EXCEPT !.shown = shown, !.next = next]
  <2>1. /\ IsTask(h) /\ h.op = t.op /\ h.pc = t.pc /\ h.at = t.at /\ h.lists = t.lists
        /\ h.scope = t.scope /\ h.steady = t.steady
    BY DEF Works, TaskOK, IsTask
  <2>2. Return(c, h) BY <1>2
  <2> HIDE DEF h
  <2>3. Works(h) BY <2>1 DEF Works, TaskOK
  <2> QED BY <2>1, <2>2, <2>3, Returned
<1>3. ASSUME NEW after, NEW limit,
             Await(c, [t EXCEPT !.pc = "list", !.shown = shown], Page(after, limit))
      PROVE  DecisionInv'
  <2> DEFINE h == [t EXCEPT !.pc = "list", !.shown = shown]
  <2>1. /\ IsTask(h) /\ h.op = t.op /\ h.pc = "list" /\ h.at = t.at /\ h.lists = t.lists
        /\ h.scope = t.scope /\ h.steady = t.steady
    BY DEF Works, TaskOK, IsTask
  <2>2. Await(c, h, Page(after, limit)) BY <1>3
  <2> HIDE DEF h
  <2>3. Works(h) BY <2>1 DEF Works, TaskOK
  <2>4. IsQuestion(Page(after, limit)) BY DEF IsQuestion, Page
  <2> QED BY <2>1, <2>2, <2>3, <2>4, Awaited
<1> QED BY <1>1, <1>2, <1>3

\* discover goes on to the next list, to the projections of its scope, or to its page.
LEMMA DiscoverStep ==
  ASSUME DecisionInv, NEW c \in Call, NEW t, Works(t), t.op = "discover",
         GetDirectScope(c, t)
  PROVE  DecisionInv'
<1>1. CASE t.lists # {}
  <2>1. PICK r \in t.lists :
          Await(c, [t EXCEPT !.pc = "scope", !.lists = @ \ {r}], Relationships(r))
    BY <1>1 DEF GetDirectScope
  <2> DEFINE h == [t EXCEPT !.pc = "scope", !.lists = @ \ {r}]
  <2>2. /\ IsTask(h) /\ h.op = t.op /\ h.pc = "scope" /\ h.at = t.at
        /\ h.lists = t.lists \ {r} /\ h.scope = t.scope /\ h.steady = t.steady
    BY DEF Works, TaskOK, IsTask
  <2>3. Await(c, h, Relationships(r)) BY <2>1
  <2> HIDE DEF h
  <2>4. Works(h) BY <2>2 DEF Works, TaskOK
  <2>5. IsQuestion(Relationships(r)) BY DEF IsQuestion, Relationships, Works, TaskOK
  <2> QED BY <2>2, <2>3, <2>4, <2>5, Awaited
<1>2. CASE t.lists = {} /\ t.scope = {}
  <2>1. PageOf(c, t, {}) BY <1>2 DEF GetDirectScope, HasScope, ReadProjections
  <2> QED BY <2>1, PageStep
<1>3. CASE t.lists = {} /\ t.scope # {}
  <2> DEFINE h == [t EXCEPT !.pc = "batch"]
  <2>1. Await(c, h, Batch(t.scope)) BY <1>3 DEF GetDirectScope, HasScope, ReadProjections
  <2>2. /\ IsTask(h) /\ h.op = t.op /\ h.pc = "batch" /\ h.at = t.at
        /\ h.lists = t.lists /\ h.scope = t.scope /\ h.steady = t.steady
    BY DEF Works, TaskOK, IsTask
  <2> HIDE DEF h
  <2>3. Works(h) BY <2>2 DEF Works, TaskOK
  <2>4. IsQuestion(Batch(t.scope)) BY DEF IsQuestion, Batch, Works, TaskOK
  <2> QED BY <2>1, <2>2, <2>3, <2>4, Awaited
<1> QED BY <1>1, <1>2, <1>3

\* A handler that awaits projections or Core's list is one of discover.
LEMMA OfDiscover ==
  ASSUME DecisionInv, NEW c \in Call, task[c].pc \in {"batch", "list"}
  PROVE  Works(task[c]) /\ task[c].op = "discover"
<1> DEFINE t == task[c]
<1>1. CallOK(req[c], t) /\ Works(t) BY CallFacts
<1> QED BY <1>1 DEF CallOK, AwaitsUser, AwaitsList, HasDecided, Works, TaskOK

\* discover goes on with the projections of the scope.
LEMMA ProjectionsReadStep ==
  ASSUME DecisionInv, NEW c \in Call, ProjectionsRead(c)
  PROVE  DecisionInv'
<1>1. task[c].pc \in {"batch", "list"} /\ PageOf(c, task[c], req[c].who)
  BY DEF ProjectionsRead, HasRead
<1> QED BY <1>1, OfDiscover, PageStep

\* discover returns with the page of Core's list.
LEMMA PageReadStep ==
  ASSUME DecisionInv, NEW c \in Call, PageRead(c)
  PROVE  DecisionInv'
<1> DEFINE t == task[c]
<1>1. t.pc = "list" BY DEF PageRead, HasRead
<1>2. PICK shown, next : Return(c, [t EXCEPT !.shown = shown, !.next = next])
  BY DEF PageRead
<1>3. Works(t) /\ t.op = "discover" BY <1>1, OfDiscover
<1> HIDE DEF t
<1> DEFINE h == [t EXCEPT !.shown = shown, !.next = next]
<1>4. /\ IsTask(h) /\ h.op = t.op /\ h.pc = t.pc /\ h.at = t.at /\ h.lists = t.lists
      /\ h.scope = t.scope /\ h.steady = t.steady
  BY <1>3 DEF Works, TaskOK, IsTask
<1> HIDE DEF h
<1>5. Works(h) BY <1>3, <1>4 DEF Works, TaskOK
<1>6. Return(c, h) BY <1>2 DEF h
<1> QED BY <1>3, <1>4, <1>5, <1>6, Returned

-----------------------------------------------------------------------------
(* The handlers of authorizeMessaging.                                      *)

\* A handler begins with the people of whom there is no news as the steady ones.
LEMMA Begun ==
  ASSUME DecisionInv, NEW op \in {"authorize", "discover"}, NEW i \in Instance, NEW roles
  PROVE  LET t == NewTask(op, i, roles) IN
         /\ Works(t) /\ t.op = op /\ t.pc = "idle" /\ t.at = i /\ t.roles = roles
         /\ t.lists = roles \cap Role /\ t.scope = {}
<1> DEFINE t == NewTask(op, i, roles)
<1>1. IsTask(NoTask) BY DEF IsTask, NoTask
<1>2. /\ IsTask(t) /\ t.op = op /\ t.pc = "idle" /\ t.at = i /\ t.roles = roles
      /\ t.lists = roles \cap Role /\ t.scope = {} /\ t.steady = Steady
  BY <1>1 DEF NewTask, IsTask, NoTask
<1> HIDE DEF t
<1>3. Works(t) BY <1>2 DEF Works, TaskOK, Steady
<1> QED BY <1>2, <1>3 DEF t

\* authorizeMessaging refuses a role that has no messaging, or asks for the target.
LEMMA AuthorizeStep ==
  ASSUME DecisionInv, NEW c \in Call, NEW i \in Instance, NEW roles, NEW p \in Person,
         Authorize(c, i, roles, p)
  PROVE  DecisionInv'
<1> DEFINE n == NewTask("authorize", i, roles)
           t == [n EXCEPT !.target = p]
<1>1. /\ Works(n) /\ n.op = "authorize" /\ n.pc = "idle" /\ n.at = i /\ n.roles = roles
      /\ n.lists = roles \cap Role /\ n.scope = {}
  BY Begun
<1>2. \/ roles \cap MessagingRoles = {} /\ Decide(c, t, "DENY")
      \/ roles \cap MessagingRoles # {} /\ Await(c, [t EXCEPT !.pc = "user"], User(p))
  BY DEF Authorize
<1> HIDE DEF n
<1>3. /\ IsTask(t) /\ t.op = "authorize" /\ t.pc = "idle" /\ t.at = i /\ t.roles = roles
      /\ t.lists = roles \cap Role /\ t.scope = {} /\ t.steady = n.steady /\ t.target = p
  BY <1>1 DEF Works, TaskOK, IsTask
<1> DEFINE u == [t EXCEPT !.pc = "user"]
<1> HIDE DEF t
<1>4. Works(t) BY <1>1, <1>3 DEF Works, TaskOK
<1>5. CASE roles \cap MessagingRoles = {} /\ Decide(c, t, "DENY")
  <2>1. Rightful(t.roles, t.target) = "DENY" BY <1>3, <1>5 DEF Rightful
  <2> QED BY <1>3, <1>4, <1>5, <2>1, Decided
<1>6. CASE roles \cap MessagingRoles # {} /\ Await(c, u, User(p))
  <2>1. /\ IsTask(u) /\ u.op = "authorize" /\ u.pc = "user" /\ u.at = i /\ u.roles = roles
        /\ u.lists = roles \cap Role /\ u.scope = {} /\ u.steady = n.steady /\ u.target = p
    BY <1>3 DEF IsTask
  <2> HIDE DEF u
  <2>2. Works(u) BY <1>1, <2>1 DEF Works, TaskOK
  <2>3. IsQuestion(User(p)) BY DEF IsQuestion, User
  <2>4. \A q : q.ask = User(p) => AwaitsUser(q, u) BY <1>6, <2>1 DEF AwaitsUser
  <2> QED BY <1>6, <2>1, <2>2, <2>3, <2>4, Awaited
<1> QED BY <1>2, <1>5, <1>6

\* authorizeMessaging goes on with the target's projection, which is right about a steady one.
LEMMA UserReadStep ==
  ASSUME DecisionInv, NEW c \in Call, UserRead(c)
  PROVE  DecisionInv'
<1> DEFINE r == req[c]
           t == task[c]
<1>1. /\ CallOK(r, t) /\ RequestOK(r) /\ Works(t)
      /\ t.pc = "user" /\ r.st = "got"
  BY CallFacts DEF UserRead, HasRead, Answered
<1>2. \/ r.who = {} /\ Decide(c, t, "DENY")
      \/ r.who # {} /\ t.roles \cap Unbounded # {} /\ Decide(c, t, "ALLOW_DIRECT")
      \/ r.who # {} /\ t.roles \cap Unbounded = {} /\ GetDirectScope(c, t)
  BY DEF UserRead
<1> HIDE DEF r, t
<1>3. t.op = "authorize" /\ t.target \in Person /\ AwaitsUser(r, t)
  BY <1>1 DEF CallOK, AwaitsList, HasDecided, Works, TaskOK
<1>4. t.target \in t.steady => (r.who # {} <=> t.target \in enabled)
  <2> SUFFICES ASSUME t.target \in t.steady
               PROVE  r.who # {} <=> t.target \in enabled
    OBVIOUS
  <2>1. r.ask = User(t.target) /\ t.target \in Person BY <1>3 DEF AwaitsUser
  <2>2. r.ask.kind = "user" /\ r.ask.id = t.target BY <2>1 DEF User
  <2>3. t.target \notin Wrong(r.ask, r.who) BY <1>1 DEF CallOK
  <2>4. r.who \subseteq {t.target} BY <1>1, <2>2 DEF RequestOK
  <2> QED BY <2>1, <2>2, <2>3, <2>4 DEF Wrong
<1>5. CASE r.who = {} /\ Decide(c, t, "DENY")
  <2>1. t.target \in t.steady => Rightful(t.roles, t.target) = "DENY"
    BY <1>4, <1>5 DEF Rightful
  <2> QED BY <1>1, <1>3, <1>5, <2>1, Decided
<1>6. CASE r.who # {} /\ t.roles \cap Unbounded # {} /\ Decide(c, t, "ALLOW_DIRECT")
  <2>1. t.target \in t.steady => Rightful(t.roles, t.target) = "ALLOW_DIRECT"
    BY <1>3, <1>4, <1>6 DEF Rightful, AwaitsUser
  <2> QED BY <1>1, <1>3, <1>6, <2>1, Decided
<1>7. CASE r.who # {} /\ t.roles \cap Unbounded = {} /\ GetDirectScope(c, t)
  <2>1. t.target \in t.steady => t.target \in enabled /\ ScopeSoFar(t, t.lists)
    BY <1>3, <1>4, <1>7 DEF ScopeSoFar, AwaitsUser
  <2> QED BY <1>1, <1>3, <1>7, <2>1, ScopeStep DEF AwaitsUser
<1> QED BY <1>2, <1>5, <1>6, <1>7

\* getDirectScope adds a list, which is right about a steady target.
LEMMA RelationshipsReadStep ==
  ASSUME DecisionInv, NEW c \in Call, RelationshipsRead(c)
  PROVE  DecisionInv'
<1> DEFINE r == req[c]
           t == task[c]
           u == [t EXCEPT !.scope = @ \cup r.who]
<1>1. /\ CallOK(r, t) /\ RequestOK(r) /\ Works(t)
      /\ t.pc = "scope" /\ r.st = "got"
  BY CallFacts DEF RelationshipsRead, HasRead, Answered
<1>2. GetDirectScope(c, u) BY DEF RelationshipsRead
<1> HIDE DEF r, t
<1>3. /\ IsTask(u) /\ u.op = t.op /\ u.pc = t.pc /\ u.at = t.at /\ u.roles = t.roles
      /\ u.lists = t.lists /\ u.scope = t.scope \cup r.who /\ u.steady = t.steady
      /\ u.target = t.target
  BY <1>1 DEF Works, TaskOK, IsTask
<1> HIDE DEF u
<1>4. Works(u) BY <1>1, <1>3 DEF Works, TaskOK, RequestOK
<1>5. CASE t.op = "authorize"
  <2>1. AwaitsList(r, t) /\ t.target \in Person
    BY <1>1, <1>5 DEF CallOK, AwaitsUser, HasDecided
  <2>2. r.ask.role \in t.roles \cap Role BY <1>1, <2>1 DEF AwaitsList, RequestOK, IsQuestion
  <2>3. t.target \in t.steady => (t.target \in r.who <=> t.target \in related[r.ask.role])
    <3>1. t.target \in t.steady => t.target \notin Wrong(r.ask, r.who) BY <1>1 DEF CallOK
    <3> QED BY <2>1, <3>1 DEF Wrong, AwaitsList
  <2>4. u.target \in u.steady => u.target \in enabled /\ ScopeSoFar(u, u.lists)
    BY <1>3, <2>1, <2>2, <2>3 DEF AwaitsList, ScopeSoFar
  <2> QED BY <1>2, <1>3, <1>4, <1>5, <2>1, <2>4, ScopeStep DEF AwaitsList
<1>6. CASE t.op = "discover"
  BY <1>2, <1>3, <1>4, <1>6, DiscoverStep
<1> QED BY <1>1, <1>5, <1>6 DEF Works, TaskOK

\* A request that failed leaves its handler without a decision.
LEMMA UnavailableStep ==
  ASSUME DecisionInv, NEW c \in Call, Unavailable(c)
  PROVE  DecisionInv'
<1> DEFINE t == task[c]
<1>1. Decide(c, t, "UNAVAILABLE") /\ req[c].st = "failed" BY DEF Unavailable, Refused
<1>2. CallOK(req[c], t) BY CallFacts
<1>3. Works(t) BY <1>1, CallFacts DEF CallOK
<1> HIDE DEF t
<1> QED BY <1>1, <1>2, <1>3, Decided DEF CallOK

-----------------------------------------------------------------------------
(* The network and Core.                                                    *)

\* A request that gets no answer keeps its handler waiting for the same question.
LEMMA AttemptEnds ==
  ASSUME DecisionInv, NEW c \in Call, NEW r, req' = [req EXCEPT ![c] = r],
         Local, UNCHANGED task, RequestOK(r), req[c].st # "off", r.st \notin {"travelling", "got"},
         r.ask = req[c].ask
  PROVE  DecisionInv'
<1> DEFINE t == task[c]
<1>1. CallOK(req[c], t) BY CallFacts
<1>2. task' = [task EXCEPT ![c] = t] BY DEF DecisionInv
<1> HIDE DEF t
<1>3. CallOK(r, t) BY <1>1 DEF CallOK, AwaitsUser, AwaitsList
<1> QED BY <1>2, <1>3, LocalStep

\* An attempt that is rejected or times out, and the next one, leave the question as it is.
LEMMA TryAgainStep ==
  ASSUME DecisionInv, NEW c \in Call, Rejected(c) \/ TimesOut(c), UNCHANGED task
  PROVE  DecisionInv'
<1> DEFINE r == req[c]
<1>1. r.st # "off" /\ req' = [req EXCEPT ![c] = TryAgain(r)] /\ Local
  BY DEF Rejected, TimesOut, Aborts, Local
<1>2. RequestOK(r) /\ r.at \in Instance BY <1>1, CallFacts
<1> HIDE DEF r
<1>3. /\ RequestOK(TryAgain(r)) /\ TryAgain(r).st \in {"backoff", "failed"}
      /\ TryAgain(r).ask = r.ask
  BY <1>1, <1>2, TriedAgain
<1>4. PICK a : a = TryAgain(r) OBVIOUS
<1> QED BY <1>1, <1>3, <1>4, AttemptEnds DEF r

\* The next attempt asks the same.
LEMMA RetryStep ==
  ASSUME DecisionInv, NEW c \in Call, Retry(c), UNCHANGED task
  PROVE  DecisionInv'
<1> DEFINE r == req[c]
           n == r.attempt + 1
<1>1. r.st # "off" /\ req' = [req EXCEPT ![c] = Attempt(r, n)] /\ Local
  BY DEF Retry, BackoffOver, Local
<1>2. RequestOK(r) /\ r.at \in Instance BY <1>1, CallFacts
<1> HIDE DEF r, n
<1>3. /\ RequestOK(Attempt(r, n)) /\ Attempt(r, n).st = "sent" /\ Attempt(r, n).ask = r.ask
  BY <1>1, <1>2, Attempted DEF RequestOK
<1>4. PICK a : a = Attempt(r, n) OBVIOUS
<1> QED BY <1>1, <1>3, <1>4, AttemptEnds DEF r

\* A request that fails at once leaves no answer behind.
LEMMA FailsStep ==
  ASSUME DecisionInv, NEW c \in Call, Fails(c), UNCHANGED task
  PROVE  DecisionInv'
<1> DEFINE r == req[c]
           a == [r EXCEPT !.st = "failed", !.who = {}, !.next = 0, !.hurt = TRUE]
<1>0. RequestOK(r) BY CallFacts
<1>1. r.st # "off" /\ req' = [req EXCEPT ![c] = a] /\ Local
  BY <1>0 DEF Fails, Local, DecisionInv
<1>2. r.at \in Instance BY <1>1, CallFacts
<1> HIDE DEF r
<1>3. /\ IsRequest(a) /\ a.st = "failed" /\ a.ask = r.ask /\ a.at = r.at
      /\ a.ttl = r.ttl /\ a.who = {}
  BY <1>0 DEF RequestOK, IsRequest
<1> HIDE DEF a
<1>4. RequestOK(a) BY <1>0, <1>1, <1>2, <1>3 DEF RequestOK
<1> QED BY <1>1, <1>3, <1>4, AttemptEnds DEF r

\* Core's answer is right when it is given.
LEMMA CoreAnswersStep ==
  ASSUME DecisionInv, NEW c \in Call, CoreAnswers(c), UNCHANGED task
  PROVE  DecisionInv'
<1> DEFINE r == req[c]
           t == task[c]
<1>1. /\ CallOK(r, t) /\ RequestOK(r) /\ r.at \in Instance /\ r.st = "sent" /\ Local
  BY CallFacts DEF CoreAnswers, Local
<1>2. PICK a \in Answers(r.ask) :
        req' = [req EXCEPT ![c] = [r EXCEPT !.st = "travelling", !.who = a.who, !.next = a.next]]
  BY DEF CoreAnswers, DecisionInv
<1> DEFINE q == [r EXCEPT !.st = "travelling", !.who = a.who, !.next = a.next]
<1>3. req' = [req EXCEPT ![c] = q] /\ task' = [task EXCEPT ![c] = t]
  BY <1>2 DEF DecisionInv
<1> HIDE DEF r, t
<1>4. /\ IsRequest(q) /\ q.st = "travelling" /\ q.ask = r.ask /\ q.at = r.at
      /\ q.ttl = r.ttl /\ q.timer = r.timer /\ q.who = a.who
  BY <1>1 DEF RequestOK, IsRequest
<1> HIDE DEF q
<1>0. enabled \subseteq Person /\ related \in [Role -> SUBSET Person] /\ IsQuestion(r.ask)
  BY <1>1 DEF DecisionInv, CoreTypeOK, RequestOK
<1>5. /\ Wrong(r.ask, a.who) = {} /\ a.who \subseteq Person
      /\ r.ask.kind = "user" => a.who \subseteq {r.ask.id}
      /\ r.ask.kind = "batch" => a.who \subseteq r.ask.ids
  <2>1. CASE r.ask.kind = "relationships"
    <3>1. a.who = related[r.ask.role] BY <1>2, <2>1 DEF Answers
    <3> QED BY <1>0, <2>1, <3>1 DEF Wrong, IsQuestion
  <2>2. CASE r.ask.kind = "user"
    <3>1. a.who = enabled \cap {r.ask.id} BY <1>2, <2>2 DEF Answers
    <3> QED BY <1>0, <2>2, <3>1 DEF Wrong, IsQuestion
  <2>3. CASE r.ask.kind = "batch"
    <3>1. a.who = enabled \cap r.ask.ids BY <1>2, <2>3 DEF Answers
    <3> QED BY <1>0, <2>3, <3>1 DEF Wrong, IsQuestion
  <2>4. CASE r.ask.kind = "list"
    <3>1. a.who = FirstOf(r.ask.limit, {p \in enabled : p > r.ask.after})
      BY <1>2, <2>4 DEF Answers
    <3>2. \A n, S : FirstOf(n, S) \subseteq S BY DEF FirstOf
    <3>3. a.who \subseteq enabled BY <3>1, <3>2
    <3> QED BY <1>0, <2>4, <3>3 DEF Wrong
  <2> QED BY <1>0, <2>1, <2>2, <2>3, <2>4 DEF IsQuestion
<1>7. RequestOK(q) BY <1>1, <1>4, <1>5 DEF RequestOK
<1>8. CallOK(q, t) BY <1>1, <1>4, <1>5, <1>7 DEF CallOK, AwaitsUser, AwaitsList
<1> QED BY <1>1, <1>3, <1>8, LocalStep

\* What an answer leaves in the cache is as old as its question, or, if a batch asked, no
\* older than the timeout.
LEMMA StoredOK ==
  ASSUME CoreTypeOK, CacheOK, NEW r, RequestOK(r), r.st = "travelling"
  PROVE  Stored(r) \in Entries /\ EntriesOK(Stored(r))
<1> DEFINE k == cache[r.at]
<1>1. /\ k \in Entries /\ EntriesOK(k)
      /\ IsQuestion(r.ask) /\ r.ttl \in 0..CacheTtl /\ r.who \subseteq Person
      /\ \A p \in Wrong(r.ask, r.who) : Lives(r) <= news[p]
      /\ \A p \in Person : news[p] \in Nat
  BY CoreClientAssumption DEF RequestOK, CoreTypeOK, CacheOK, UserLag
<1>2. \A who, left : who \subseteq Person /\ left \in 0..CacheTtl =>
        /\ Kept(who, left) \in Entry
        /\ Kept(who, left).left = left
        /\ left # 0 => Kept(who, left).who = who
        /\ Kept(who, left).who \subseteq who
  BY CoreClientAssumption DEF Kept, NothingCached, Entry
<1> HIDE DEF k
<1>3. CASE r.ask.kind = "relationships"
  <2> DEFINE q == r.ask.role
             e == Kept(r.who, r.ttl)
             s == [k EXCEPT !.lists[q] = e]
  <2>1. e \in Entry /\ e.left = r.ttl /\ (r.ttl # 0 => e.who = r.who) BY <1>1, <1>2
  <2>2. q \in Role BY <1>1, <1>3 DEF IsQuestion
  <2>3. Stored(r) = s BY <1>3 DEF Stored, k
  <2> HIDE DEF e
  <2>4. s \in Entries /\ s.users = k.users /\ s.lists = [k.lists EXCEPT ![q] = e]
    BY <1>1, <2>1 DEF Entries
  <2>5. \A p \in Wrong(Relationships(q), r.who) : r.ttl <= news[p]
    BY <1>1, <1>3 DEF Wrong, Relationships, Lives
  <2> HIDE DEF s, q
  <2>6. \A p \in Person : p \in Wrong(Relationships(q), e.who) => e.left <= news[p]
    BY <1>1, <2>1, <2>5
  <2>7. \A p \in Person, x \in Role : p \in Wrong(Relationships(x), s.lists[x].who)
                                        => s.lists[x].left <= news[p]
    <3>1. k.lists \in [Role -> Entry] BY <1>1 DEF Entries
    <3>2. \A x \in Role : s.lists[x] = IF x = q THEN e ELSE k.lists[x] BY <2>4, <3>1
    <3> QED BY <1>1, <2>6, <3>2 DEF EntriesOK
  <2> QED BY <1>1, <2>3, <2>4, <2>7 DEF EntriesOK
<1>4. CASE r.ask.kind = "user"
  <2> DEFINE q == r.ask.id
             e == Kept(r.who, r.ttl)
             s == [k EXCEPT !.users[q] = e]
  <2>1. /\ e \in Entry /\ e.left = r.ttl /\ (r.ttl # 0 => e.who = r.who)
        /\ e.who \subseteq {q}
    BY <1>1, <1>2, <1>4 DEF RequestOK
  <2>2. q \in Person BY <1>1, <1>4 DEF IsQuestion
  <2>3. Stored(r) = s BY <1>4 DEF Stored, k
  <2> HIDE DEF e
  <2>4. s \in Entries /\ s.lists = k.lists /\ s.users = [k.users EXCEPT ![q] = e]
    BY <1>1, <2>1 DEF Entries
  <2>5. q \in Wrong(User(q), r.who) => r.ttl <= news[q]
    BY <1>1, <1>4 DEF Wrong, User, Lives
  <2> HIDE DEF s, q
  <2>6. q \in Wrong(User(q), e.who) => e.left <= news[q]
    BY <1>1, <2>1, <2>2, <2>5
  <2>7. \A p \in Person : s.users[p] = IF p = q THEN e ELSE k.users[p]
    <3>1. k.users \in [Person -> Entry] BY <1>1 DEF Entries
    <3> QED BY <2>4, <3>1
  <2> QED BY <1>1, <2>1, <2>3, <2>4, <2>6, <2>7 DEF EntriesOK
<1>5. CASE r.ask.kind = "batch"
  <2> DEFINE e(p) == Kept(r.who \cap {p}, CacheTtl)
             s == [k EXCEPT !.users = [p \in Person |-> IF p \in r.ask.ids THEN e(p) ELSE @[p]]]
  <2>1. \A p \in Person : /\ e(p) \in Entry /\ e(p).left = CacheTtl
                          /\ e(p).who = r.who \cap {p}
    BY <1>1, <1>2, CoreClientAssumption
  <2>2. Stored(r) = s BY <1>5 DEF Stored, k
  <2>3. r.timer \in Nat BY CoreClientAssumption DEF RequestOK
  <2> HIDE DEF e
  <2>4. /\ s \in Entries /\ s.lists = k.lists
        /\ \A p \in Person : s.users[p] = IF p \in r.ask.ids THEN e(p) ELSE k.users[p]
    BY <1>1, <2>1 DEF Entries
  <2>5. \A p \in Person : p \in r.ask.ids /\ p \in Wrong(r.ask, r.who) => CacheTtl <= news[p]
    BY <1>1, <1>5, <2>3, CoreClientAssumption DEF Lives
  <2>6. \A p \in Person : p \in r.ask.ids /\ p \in Wrong(User(p), e(p).who)
                            => p \in Wrong(r.ask, r.who)
    BY <1>5, <2>1 DEF Wrong, User
  <2> HIDE DEF s
  <2> QED BY <1>1, <2>1, <2>2, <2>4, <2>5, <2>6 DEF EntriesOK
<1>6. CASE r.ask.kind = "list"
  BY <1>1, <1>6 DEF Stored, k
<1> QED BY <1>1, <1>3, <1>4, <1>5, <1>6 DEF IsQuestion

\* An answer is handed over and kept as long as the caches allow.
LEMMA DeliverStep ==
  ASSUME DecisionInv, NEW c \in Call, Deliver(c), UNCHANGED task
  PROVE  DecisionInv'
<1> DEFINE r == req[c]
           t == task[c]
           q == [r EXCEPT !.st = "got"]
<1>1. /\ CallOK(r, t) /\ RequestOK(r) /\ r.at \in Instance /\ r.st = "travelling"
      /\ UNCHANGED <<related, enabled, news>> /\ CoreTypeOK /\ CacheOK
  BY CallFacts DEF Deliver, DecisionInv
<1>2. /\ req' = [req EXCEPT ![c] = q] /\ task' = [task EXCEPT ![c] = t]
      /\ cache' = [cache EXCEPT ![r.at] = Stored(r)]
  BY DEF Deliver, DecisionInv
<1> HIDE DEF r, t
<1>3. Stored(r) \in Entries /\ EntriesOK(Stored(r)) BY <1>1, StoredOK
<1>4. CoreTypeOK' BY <1>1, <1>2, <1>3 DEF CoreTypeOK
<1>5. CacheOK'
  <2>1. \A ask, who : Wrong(ask, who)' = Wrong(ask, who) BY <1>1 DEF Wrong
  <2>2. \A k : EntriesOK(k)' <=> EntriesOK(k) BY <1>1, <2>1 DEF EntriesOK
  <2>3. \A i \in Instance : cache'[i] = Stored(r) \/ cache'[i] = cache[i]
    BY <1>1, <1>2 DEF CoreTypeOK
  <2>4. ASSUME NEW i \in Instance PROVE EntriesOK(cache[i])'
    <3>1. PICK k : k = cache'[i] OBVIOUS
    <3>2. EntriesOK(k) BY <1>1, <1>3, <2>3, <3>1 DEF CacheOK
    <3> QED BY <2>2, <3>1, <3>2
  <2> QED BY <2>4 DEF CacheOK
<1>6. /\ IsRequest(q) /\ q.st = "got" /\ q.ask = r.ask /\ q.at = r.at /\ q.ttl = r.ttl
      /\ q.who = r.who
  BY <1>1 DEF RequestOK, IsRequest
<1> HIDE DEF q
<1>7. RequestOK(q) BY <1>1, <1>6 DEF RequestOK
<1>8. CallOK(q, t) BY <1>1, <1>6, <1>7 DEF CallOK, AwaitsUser, AwaitsList
<1> QED BY <1>1, <1>2, <1>4, <1>5, <1>8, CallsStep

-----------------------------------------------------------------------------
(* The client, time, and changes of Core's data.                            *)

\* A handler whose result has been used is none.
LEMMA ForgottenStep ==
  ASSUME DecisionInv, NEW c \in Call, task[c].pc = "done",
         task' = [task EXCEPT ![c] = NoTask], UNCHANGED coreVars
  PROVE  DecisionInv'
<1> DEFINE r == req[c]
<1>1. CallOK(r, task[c]) BY CallFacts
<1>2. RequestOK(r) /\ r.st = "off" BY <1>1 DEF CallOK
<1>3. req' = [req EXCEPT ![c] = r] /\ Local BY DEF DecisionInv, coreVars, Local
<1> HIDE DEF r
<1>4. TaskOK(NoTask) /\ NoTask.op = "none" BY DEF TaskOK, IsTask, NoTask
<1>5. CallOK(r, NoTask) BY <1>2, <1>4 DEF CallOK
<1>6. PICK t : t = NoTask OBVIOUS
<1> QED BY <1>3, <1>5, <1>6, LocalStep

\* discover begins.
LEMMA NextPageStep ==
  ASSUME DecisionInv, NEW c \in Call, NEW i \in Instance, NextPage(c, i)
  PROVE  DecisionInv'
<1> DEFINE n == NewTask("discover", i, walk.roles)
           t == [n EXCEPT !.cursor = walk.cursor]
           u == [t EXCEPT !.lists = {}]
<1>1. Works(n) /\ n.op = "discover" /\ n.pc = "idle" BY Begun
<1>2. Return(c, t) \/ PageOf(c, u, {}) \/ GetDirectScope(c, t) BY DEF NextPage
<1> HIDE DEF n
<1>3. /\ IsTask(t) /\ t.op = "discover" /\ t.pc = "idle" /\ t.at = n.at /\ t.lists = n.lists
      /\ t.scope = n.scope /\ t.steady = n.steady
  BY <1>1 DEF Works, TaskOK, IsTask
<1> HIDE DEF t
<1>4. /\ IsTask(u) /\ u.op = "discover" /\ u.pc = "idle" /\ u.at = n.at /\ u.lists = {}
      /\ u.scope = n.scope /\ u.steady = n.steady
  BY <1>3 DEF IsTask
<1> HIDE DEF u
<1>5. Works(t) /\ Works(u) BY <1>1, <1>3, <1>4 DEF Works, TaskOK
<1>6. CASE Return(c, t) BY <1>3, <1>5, <1>6, Returned
<1>7. CASE PageOf(c, u, {}) BY <1>4, <1>5, <1>7, PageStep
<1>8. CASE GetDirectScope(c, t) BY <1>3, <1>5, <1>8, DiscoverStep
<1> QED BY <1>2, <1>6, <1>7, <1>8

\* A Tick takes as much from what an entry or an answer may still live as from the news.
LEMMA TickStep ==
  ASSUME DecisionInv, Pass
  PROVE  DecisionInv'
<1>1. /\ CoreTypeOK /\ CacheOK /\ \A c \in Call : CallOK(req[c], task[c])
      /\ UNCHANGED <<related, enabled, task>> /\ MayTick
      /\ news' = [p \in Person |-> Less(news[p])]
  BY DEF DecisionInv, Pass, Tick
<1>2. \A n \in Nat : Less(n) \in Nat /\ Less(n) <= n /\ (n # 0 => Less(n) = n - 1)
                     /\ (n = 0 => Less(n) = 0)
  BY DEF Less
<1>3. /\ \A p \in Person : news[p] \in Nat /\ news'[p] = Less(news[p])
      /\ news' \in [Person -> 0..UserLag]
  <2>1. \A p \in Person : news[p] \in 0..UserLag BY <1>1 DEF CoreTypeOK
  <2>2. UserLag \in Nat BY CoreClientAssumption DEF UserLag
  <2> QED BY <1>1, <1>2, <2>1, <2>2
<1>4. \A ask, who : Wrong(ask, who)' = Wrong(ask, who) BY <1>1 DEF Wrong
<1>5. CoreTypeOK' /\ CacheOK'
  <2>1. \A e \in Entry : /\ Older(e) \in Entry /\ Older(e).left = Less(e.left)
                         /\ Older(e).left # 0 => Older(e).who = e.who
                         /\ Older(e).who \subseteq e.who
    BY <1>2, CoreClientAssumption DEF Older, Kept, NothingCached, Entry
  <2> DEFINE Aged(k) == [lists |-> [r \in Role |-> Older(k.lists[r])],
                         users |-> [p \in Person |-> Older(k.users[p])]]
  <2>2. cache' = [i \in Instance |-> Aged(cache[i])] BY DEF Pass, Tick
  <2>3. ASSUME NEW k \in Entries, EntriesOK(k)
        PROVE  /\ Aged(k) \in Entries
               /\ \A p \in Person :
                    /\ \A r \in Role : p \in Wrong(Relationships(r), Aged(k).lists[r].who)
                                         => Aged(k).lists[r].left <= news'[p]
                    /\ p \in Wrong(User(p), Aged(k).users[p].who)
                         => Aged(k).users[p].left <= news'[p]
                    /\ Aged(k).users[p].who \subseteq {p}
    <3>1. k.lists \in [Role -> Entry] /\ k.users \in [Person -> Entry] BY DEF Entries
    <3>2. Aged(k) \in Entries BY <2>1, <3>1 DEF Entries
    <3>3. \A n, m \in Nat : n <= m => Less(n) <= Less(m) BY DEF Less
    <3>4. \A e \in Entry : e.left \in Nat BY CoreClientAssumption DEF Entry
    <3>5. ASSUME NEW p \in Person, NEW r \in Role,
                 p \in Wrong(Relationships(r), Aged(k).lists[r].who)
          PROVE  Aged(k).lists[r].left <= news'[p]
      <4>1. PICK e \in Entry : e = k.lists[r] BY <3>1
      <4>2. Aged(k).lists[r] = Older(e) BY <4>1
      <4>3. CASE Older(e).left = 0 BY <1>2, <1>3, <4>2, <4>3
      <4>4. CASE Older(e).left # 0
        <5>1. p \in Wrong(Relationships(r), e.who) BY <2>1, <3>5, <4>2, <4>4
        <5>2. e.left <= news[p] BY <4>1, <5>1, <2>3 DEF EntriesOK
        <5> QED BY <1>3, <2>1, <3>3, <3>4, <4>2, <5>2
      <4> QED BY <4>3, <4>4
    <3>6. ASSUME NEW p \in Person
          PROVE  /\ p \in Wrong(User(p), Aged(k).users[p].who) => Aged(k).users[p].left <= news'[p]
                 /\ Aged(k).users[p].who \subseteq {p}
      <4>1. PICK e \in Entry : e = k.users[p] BY <3>1
      <4>2. Aged(k).users[p] = Older(e) BY <4>1
      <4>3. CASE Older(e).left = 0 BY <1>2, <1>3, <2>1, <2>3, <4>1, <4>2, <4>3 DEF EntriesOK
      <4>4. CASE Older(e).left # 0
        <5>1. Older(e).who = e.who BY <2>1, <4>4
        <5>2. p \in Wrong(User(p), e.who) => e.left <= news[p]
          BY <2>3, <4>1 DEF EntriesOK
        <5> QED BY <1>3, <2>1, <2>3, <3>3, <3>4, <4>1, <4>2, <5>1, <5>2 DEF EntriesOK
      <4> QED BY <4>3, <4>4
    <3> QED BY <3>2, <3>5, <3>6
  <2> HIDE DEF Aged
  <2>4. \A i \in Instance : cache[i] \in Entries /\ EntriesOK(cache[i])
    BY <1>1 DEF CoreTypeOK, CacheOK
  <2>5. CoreTypeOK' BY <1>1, <1>3, <2>2, <2>3, <2>4 DEF CoreTypeOK
  <2>6. CacheOK' BY <1>4, <2>2, <2>3, <2>4 DEF CacheOK, EntriesOK
  <2> QED BY <2>5, <2>6
<1>6. ASSUME NEW c \in Call PROVE CallOK(req[c], task[c])'
  <2>1. PICK r, t, q : r = req[c] /\ t = task[c] /\ q = req'[c] OBVIOUS
  <2>2. CallOK(r, t) /\ RequestOK(r) /\ TaskOK(t) BY <1>1, <2>1 DEF CallOK
  <2>3. r.st # "got" /\ (r.st = "travelling" => r.timer # 0)
    BY <1>1, <2>1 DEF MayTick, Answered, Aborts
  <2>4. q = IF r.st \in {"sent", "travelling", "backoff"}
              THEN [r EXCEPT !.timer = Less(@), !.ttl = Less(@)] ELSE r
    BY <2>1 DEF Pass, Tick, InFlight
  <2>5. /\ IsRequest(q) /\ q.st = r.st /\ q.ask = r.ask /\ q.at = r.at /\ q.who = r.who
        /\ q.ttl \in {r.ttl, Less(r.ttl)}
        /\ r.st \in {"sent", "travelling"} => q.timer = Less(r.timer)
        /\ r.st = "travelling" => q.ttl = Less(r.ttl)
    BY <2>2, <2>4 DEF RequestOK, IsRequest
  <2>6. q.ttl \in 0..CacheTtl
    BY <1>2, <2>2, <2>5, CoreClientAssumption DEF RequestOK
  <2>7. r.st \in {"sent", "travelling"} => q.timer \in 0..RequestTimeout
    BY <1>2, <2>2, <2>5, CoreClientAssumption DEF RequestOK
  <2>8. ASSUME r.st = "travelling", NEW p \in Wrong(r.ask, r.who)
        PROVE  Lives(q) <= news'[p]
    <3>1. p \in Person /\ Lives(r) <= news[p] /\ r.timer \in Nat /\ r.timer # 0 /\ r.ttl \in Nat
      BY <2>2, <2>3, <2>8, CoreClientAssumption DEF RequestOK, Wrong
    <3>2. q.timer = r.timer - 1 /\ q.ttl = Less(r.ttl) BY <1>2, <2>5, <2>8, <3>1
    <3>3. news[p] \in Nat /\ news'[p] = Less(news[p]) BY <1>3, <3>1
    <3>4. CASE r.ask.kind = "batch"
      <4>1. Lives(r) = CacheTtl + r.timer /\ Lives(q) = CacheTtl + q.timer
        BY <2>5, <3>4 DEF Lives
      <4> QED BY <3>1, <3>2, <3>3, <4>1, CoreClientAssumption DEF Less
    <3>5. CASE r.ask.kind # "batch"
      <4>1. Lives(r) = r.ttl /\ Lives(q) = q.ttl BY <2>5, <3>5 DEF Lives
      <4> QED BY <3>1, <3>2, <3>3, <4>1 DEF Less
    <3> QED BY <3>4, <3>5
  <2>9. RequestOK(q)' BY <1>4, <2>2, <2>5, <2>6, <2>7, <2>8 DEF RequestOK, Lives
  <2>10. TaskOK(t)' BY <1>2, <1>3, <2>2 DEF TaskOK
  <2>11. \A roles, p : Rightful(roles, p)' = Rightful(roles, p) BY <1>1 DEF Rightful
  <2>12. /\ AwaitsUser(r, t) => AwaitsUser(q, t)'
         /\ AwaitsList(r, t) => AwaitsList(q, t)'
         /\ HasDecided(t) => HasDecided(t)'
    BY <1>1, <2>5, <2>11 DEF AwaitsUser, AwaitsList, ScopeSoFar, HasDecided
  <2>13. CallOK(q, t)' BY <1>4, <2>2, <2>5, <2>9, <2>10, <2>12 DEF CallOK
  <2>14. t = task'[c] BY <1>1, <2>1
  <2> QED BY <2>1, <2>13, <2>14
<1>7. req' = [c \in Call |-> req'[c]] BY DEF Pass, Tick
<1> QED BY <1>1, <1>5, <1>6, <1>7 DEF DecisionInv

\* What changes about p is news for as long as any entry or answer may live; about the others
\* nothing changes.
LEMMA NewsOfChange ==
  ASSUME CoreTypeOK, NEW p \in Person, Change(p)
  PROVE  /\ related' \in [Role -> SUBSET Person] /\ enabled' \in SUBSET Person
         /\ UNCHANGED <<cache, req>>
         /\ news' \in [Person -> 0..UserLag]
         /\ \A x \in Person : news[x] <= news'[x] /\ (x # p => news'[x] = news[x])
         /\ CacheTtl <= news'[p]
         /\ UNCHANGED enabled \/ UserLag <= news'[p]
         /\ \A x \in Person : x # p => /\ x \in enabled' <=> x \in enabled
                                       /\ \A r \in Role : x \in related'[r] <=> x \in related[r]
<1>1. /\ related \in [Role -> SUBSET Person] /\ enabled \in SUBSET Person
      /\ \A x \in Person : news[x] \in 0..UserLag
      /\ news = [x \in Person |-> news[x]]
  BY DEF CoreTypeOK
<1>2. /\ CacheTtl \in Nat /\ UserLag \in Nat /\ CacheTtl <= UserLag
      /\ RelationshipLag = CacheTtl
  BY CoreClientAssumption DEF UserLag, RelationshipLag
<1>3. ASSUME NEW lag \in {CacheTtl, UserLag}, Changed(p, lag)
      PROVE  /\ UNCHANGED <<cache, req>>
             /\ news' \in [Person -> 0..UserLag]
             /\ \A x \in Person : news[x] <= news'[x] /\ (x # p => news'[x] = news[x])
             /\ lag <= news'[p]
  <2>1. UNCHANGED <<cache, req>> /\ news' = [news EXCEPT ![p] = IF @ > lag THEN @ ELSE lag]
    BY <1>3 DEF Changed
  <2>2. \A x \in Person : news'[x] = IF x = p THEN (IF news[p] > lag THEN news[p] ELSE lag)
                                              ELSE news[x]
    BY <1>1, <2>1
  <2>3. news' = [x \in Person |-> news'[x]] BY <1>1, <2>1
  <2> QED BY <1>1, <1>2, <2>1, <2>2, <2>3
<1>4. CASE Enable(p)
  <2>1. /\ UNCHANGED related /\ Changed(p, UserLag)
        /\ enabled' = IF p \in enabled THEN enabled \ {p} ELSE enabled \cup {p}
    BY <1>4 DEF Enable
  <2> QED BY <1>1, <1>2, <1>3, <2>1
<1>5. ASSUME NEW r \in Role, Relate(p, r)
      PROVE  /\ UNCHANGED enabled /\ Changed(p, CacheTtl)
             /\ related' \in [Role -> SUBSET Person]
             /\ \A x \in Person : x # p =>
                  \A q \in Role : x \in related'[q] <=> x \in related[q]
  <2>1. /\ related' = [related EXCEPT ![r] = IF p \in @ THEN @ \ {p} ELSE @ \cup {p}]
        /\ UNCHANGED enabled /\ Changed(p, CacheTtl)
    BY <1>2, <1>5 DEF Relate
  <2> QED BY <1>1, <2>1
<1> QED BY <1>1, <1>2, <1>3, <1>4, <1>5 DEF Change

\* A change makes wrong what was right about p; it takes p out of what handlers count on.
LEMMA ChangeStep ==
  ASSUME DecisionInv, NEW p \in Person, Change(p)
  PROVE  DecisionInv'
<1>0. CoreTypeOK /\ CacheOK /\ \A c \in Call : CallOK(req[c], task[c])
  BY DEF DecisionInv
<1>1. /\ related' \in [Role -> SUBSET Person] /\ enabled' \in SUBSET Person
      /\ UNCHANGED <<cache, req>>
      /\ news' \in [Person -> 0..UserLag]
      /\ \A x \in Person : news[x] <= news'[x] /\ (x # p => news'[x] = news[x])
      /\ CacheTtl <= news'[p]
      /\ UNCHANGED enabled \/ UserLag <= news'[p]
      /\ \A x \in Person : x # p => /\ x \in enabled' <=> x \in enabled
                                    /\ \A r \in Role : x \in related'[r] <=> x \in related[r]
  BY <1>0, NewsOfChange
<1>2. CacheTtl \in Nat /\ \A x \in Person : news[x] \in Nat /\ news'[x] \in Nat
  BY <1>0, <1>1, CoreClientAssumption DEF CoreTypeOK, UserLag
<1>3. \A ask, who : IsQuestion(ask) =>
        \A x \in Wrong(ask, who)' : /\ x \in Person
                                    /\ x # p => x \in Wrong(ask, who)
  BY <1>1 DEF Wrong, IsQuestion
<1>4. \A ask, who : p \in Wrong(ask, who)' /\ ask.kind = "batch" =>
        p \in Wrong(ask, who) \/ UserLag <= news'[p]
  BY <1>1 DEF Wrong
<1>5. CoreTypeOK' BY <1>0, <1>1 DEF CoreTypeOK
<1>6. CacheOK'
  <2>1. ASSUME NEW k \in Entries, EntriesOK(k) PROVE EntriesOK(k)'
    <3>1. k.lists \in [Role -> Entry] /\ k.users \in [Person -> Entry] BY DEF Entries
    <3>2. \A e \in Entry : e.left \in Nat /\ e.left <= CacheTtl
      BY CoreClientAssumption DEF Entry
    <3>3. ASSUME NEW x \in Person, NEW r \in Role,
                 x \in Wrong(Relationships(r), k.lists[r].who)'
          PROVE  k.lists[r].left <= news'[x]
      <4>1. PICK e \in Entry : e = k.lists[r] BY <3>1
      <4>2. x # p => x \in Wrong(Relationships(r), e.who)
        BY <1>3, <3>3, <4>1 DEF IsQuestion, Relationships
      <4>3. x # p => e.left <= news[x] BY <2>1, <4>1, <4>2 DEF EntriesOK
      <4> QED BY <1>1, <1>2, <3>2, <4>1, <4>3
    <3>4. ASSUME NEW x \in Person, x \in Wrong(User(x), k.users[x].who)'
          PROVE  k.users[x].left <= news'[x]
      <4>1. PICK e \in Entry : e = k.users[x] BY <3>1
      <4>2. x # p => x \in Wrong(User(x), e.who)
        BY <1>3, <3>4, <4>1 DEF IsQuestion, User
      <4>3. x # p => e.left <= news[x] BY <2>1, <4>1, <4>2 DEF EntriesOK
      <4> QED BY <1>1, <1>2, <3>2, <4>1, <4>3
    <3> QED BY <2>1, <3>3, <3>4 DEF EntriesOK
  <2>2. ASSUME NEW i \in Instance PROVE EntriesOK(cache[i])'
    <3>1. PICK k : k = cache[i] OBVIOUS
    <3>2. k = cache'[i] BY <1>1, <3>1
    <3>3. k \in Entries /\ EntriesOK(k) BY <1>0, <3>1 DEF CoreTypeOK, CacheOK
    <3> QED BY <2>1, <3>2, <3>3
  <2> QED BY <2>2 DEF CacheOK
<1>7. ASSUME NEW c \in Call PROVE CallOK(req[c], task[c])'
  <2>1. PICK r, t, u : r = req[c] /\ t = task[c] /\ u = task'[c] OBVIOUS
  <2>2. CallOK(r, t) /\ RequestOK(r) /\ TaskOK(t) BY <1>0, <2>1 DEF CallOK
  <2>3. u = [t EXCEPT !.steady = @ \ {p}] BY <2>1 DEF Change
  <2>4. /\ IsTask(u) /\ u.op = t.op /\ u.pc = t.pc /\ u.at = t.at /\ u.roles = t.roles
        /\ u.target = t.target /\ u.lists = t.lists /\ u.scope = t.scope
        /\ u.result = t.result /\ u.steady = t.steady \ {p}
    BY <2>2, <2>3 DEF TaskOK, IsTask
  <2>5. ASSUME r.st = "travelling", NEW x \in Wrong(r.ask, r.who)'
        PROVE  Lives(r) <= news'[x]
    <3>1. /\ IsQuestion(r.ask) /\ r.ttl \in 0..CacheTtl /\ r.timer \in 0..RequestTimeout
          /\ \A y \in Wrong(r.ask, r.who) : Lives(r) <= news[y]
      BY <2>2, <2>5 DEF RequestOK
    <3>2. x \in Person /\ (x # p => x \in Wrong(r.ask, r.who)) BY <1>3, <2>5, <3>1
    <3>3. Lives(r) \in Int BY <3>1, CoreClientAssumption DEF Lives
    <3>4. CASE x \in Wrong(r.ask, r.who) BY <1>1, <1>2, <3>1, <3>2, <3>3, <3>4
    <3>5. CASE x = p /\ r.ask.kind # "batch"
      <4>1. Lives(r) = r.ttl BY <3>5 DEF Lives
      <4> QED BY <1>1, <1>2, <3>1, <3>5, <4>1, CoreClientAssumption
    <3>6. CASE x = p /\ r.ask.kind = "batch" /\ x \notin Wrong(r.ask, r.who)
      <4>1. UserLag <= news'[p] BY <1>4, <2>5, <3>6
      <4>2. Lives(r) = CacheTtl + r.timer BY <3>6 DEF Lives
      <4> QED BY <1>2, <3>1, <3>6, <4>1, <4>2, CoreClientAssumption DEF UserLag
    <3> QED BY <3>2, <3>4, <3>5, <3>6
  <2>6. RequestOK(r)' BY <2>2, <2>5 DEF RequestOK
  <2>7. TaskOK(u)'
    <3>1. \A x \in u.steady : news'[x] = 0 BY <1>1, <2>2, <2>4 DEF TaskOK
    <3> QED BY <2>2, <2>4, <3>1 DEF TaskOK
  <2>8. r.st \in {"travelling", "got"} => Wrong(r.ask, r.who)' \cap u.steady = {}
    <3>1. r.st \in {"travelling", "got"} =>
            IsQuestion(r.ask) /\ Wrong(r.ask, r.who) \cap t.steady = {}
      BY <2>2 DEF CallOK, RequestOK
    <3> QED BY <1>3, <2>4, <3>1
  <2>9. ASSUME u.op = "authorize"
        PROVE  /\ u.target \in Person
               /\ AwaitsUser(r, u)' \/ AwaitsList(r, u)' \/ HasDecided(u)'
    <3>1. t.target \in Person /\ (AwaitsUser(r, t) \/ AwaitsList(r, t) \/ HasDecided(t))
      BY <2>2, <2>4, <2>9 DEF CallOK
    <3>2. u.target \in u.steady =>
            /\ t.target \in t.steady
            /\ t.target \in enabled' <=> t.target \in enabled
            /\ \A q \in Role : t.target \in related'[q] <=> t.target \in related[q]
      BY <1>1, <2>4, <3>1
    <3>3. AwaitsUser(r, t) => AwaitsUser(r, u)' BY <2>4 DEF AwaitsUser
    <3>4. AwaitsList(r, t) => AwaitsList(r, u)'
      BY <2>4, <3>2 DEF AwaitsList, ScopeSoFar
    <3>5. HasDecided(t) => HasDecided(u)'
      <4>1. u.target \in u.steady =>
              Rightful(u.roles, u.target)' = Rightful(t.roles, t.target)
        BY <2>4, <3>2 DEF Rightful
      <4> QED BY <2>4, <3>2, <4>1 DEF HasDecided
    <3> QED BY <2>4, <3>1, <3>3, <3>4, <3>5
  <2>10. CallOK(r, u)' BY <2>2, <2>4, <2>6, <2>7, <2>8, <2>9 DEF CallOK
  <2> QED BY <1>1, <2>1, <2>10
<1>8. req' = [c \in Call |-> req'[c]] BY <1>1 DEF DecisionInv
<1>9. task' = [c \in Call |-> task'[c]] BY DEF Change
<1> QED BY <1>5, <1>6, <1>7, <1>8, <1>9 DEF DecisionInv

-----------------------------------------------------------------------------
(* The specification.                                                       *)

\* Nothing is cached, nobody asks, and nothing is news.
LEMMA DecisionInit == DirectoryInit => DecisionInv
<1> SUFFICES ASSUME DirectoryInit PROVE DecisionInv OBVIOUS
<1> USE DEF DirectoryInit
<1>1. 0 \in 0..CacheTtl /\ 0 \in 0..UserLag BY CoreClientAssumption DEF UserLag
<1>2. NothingCached \in Entry /\ NothingCached.left = 0 /\ NothingCached.who = {}
  BY <1>1 DEF NothingCached, Entry
<1>3. \A p \in Person : news[p] = 0 OBVIOUS
<1> DEFINE k == [lists |-> [r \in Role |-> NothingCached],
                 users |-> [p \in Person |-> NothingCached]]
<1>4. k \in Entries BY <1>2 DEF Entries
<1>5. EntriesOK(k) BY <1>2, <1>3 DEF EntriesOK
<1>6. cache = [i \in Instance |-> k] OBVIOUS
<1> HIDE DEF k
<1>7. CoreTypeOK BY <1>1, <1>4, <1>6 DEF CoreTypeOK
<1>8. CacheOK BY <1>5, <1>6 DEF CacheOK
<1>9. TaskOK(NoTask) /\ NoTask.op = "none" BY DEF TaskOK, IsTask, NoTask
<1>10. RequestOK(NoRequest) /\ NoRequest.st = "off" BY NoRequestOK DEF NoRequest
<1>11. CallOK(NoRequest, NoTask) BY <1>9, <1>10 DEF CallOK
<1> QED BY <1>7, <1>8, <1>11 DEF DecisionInv

\* Every action keeps the invariant.
LEMMA DecisionStep == DecisionInv /\ [DirectoryNext]_directoryVars => DecisionInv'
<1> SUFFICES ASSUME DecisionInv, [DirectoryNext]_directoryVars PROVE DecisionInv' OBVIOUS
<1>1. ASSUME UNCHANGED <<coreVars, task>> PROVE DecisionInv'
  BY <1>1 DEF coreVars, DecisionInv, CoreTypeOK, CacheOK, EntriesOK, Wrong, CallOK, RequestOK,
     TaskOK, AwaitsUser, AwaitsList, HasDecided, ScopeSoFar, Rightful
<1>2. ASSUME NEW c \in Call, CallStep(c) PROVE DecisionInv'
  <2>1. CASE UserRead(c) BY <2>1, UserReadStep
  <2>2. CASE RelationshipsRead(c) BY <2>2, RelationshipsReadStep
  <2>3. CASE ProjectionsRead(c) BY <2>3, ProjectionsReadStep
  <2>4. CASE PageRead(c) BY <2>4, PageReadStep
  <2>5. CASE Unavailable(c) BY <2>5, UnavailableStep
  <2>6. CASE TimerStep(c) BY <2>6, TryAgainStep, RetryStep DEF TimerStep
  <2> QED BY <1>2, <2>1, <2>2, <2>3, <2>4, <2>5, <2>6 DEF CallStep, HandlerStep
<1>3. ASSUME NEW c \in Call, NetworkStep(c) PROVE DecisionInv'
  BY <1>3, CoreAnswersStep, DeliverStep, TryAgainStep, FailsStep DEF NetworkStep
<1>4. ASSUME NEW c \in Call, WalkStep(c) PROVE DecisionInv'
  <2>1. CASE \E i \in Instance : NextPage(c, i) BY <2>1, NextPageStep
  <2>2. CASE PageArrives(c) \/ PageLost(c)
    BY <2>2, ForgottenStep DEF PageArrives, PageLost, HasPage, Done
  <2> QED BY <1>4, <2>1, <2>2 DEF WalkStep
<1>5. ASSUME NEW c \in Call, Forget(c) PROVE DecisionInv'
  BY <1>5, ForgottenStep DEF Forget, Done
<1>6. ASSUME NEW c \in Call, NEW i \in Instance, NEW roles \in RoleSets, NEW p \in Person,
             Authorize(c, i, roles, p)
      PROVE  DecisionInv'
  BY <1>6, AuthorizeStep
<1>7. ASSUME NEW roles \in RoleSets, StartWalk(roles) PROVE DecisionInv'
  BY <1>1, <1>7 DEF StartWalk
<1>8. ASSUME NEW p \in Person, Change(p) PROVE DecisionInv' BY <1>8, ChangeStep
<1>9. CASE Pass BY <1>9, TickStep
<1>10. CASE UNCHANGED directoryVars BY <1>1, <1>10 DEF directoryVars
<1> QED BY <1>2, <1>3, <1>4, <1>5, <1>6, <1>7, <1>8, <1>9, <1>10 DEF DirectoryNext

\* No cache of any instance and no answer under way is wrong about somebody for longer than
\* the change about them may stay unknown, and what a handler has put together so far is
\* right about everybody who did not change.
THEOREM DecisionInvariance == DirectorySpec => []DecisionInv
<1>1. DirectoryInit => DecisionInv BY DecisionInit
<1>2. DecisionInv /\ [DirectoryNext]_directoryVars => DecisionInv' BY DecisionStep
<1> QED BY <1>1, <1>2, PTL DEF DirectorySpec

\* authorizeMessaging never says what was right before a change that is older than the
\* caches' validity: it says what Core's data call for, or fails.
THEOREM DecisionsAreCurrent == DirectorySpec => []DecisionIsCurrent
<1>1. DecisionInv => DecisionIsCurrent
  <2> SUFFICES ASSUME DecisionInv, NEW c \in Call, task[c].op = "authorize", Done(c),
                      task[c].target \in task[c].steady
               PROVE  task[c].result \in {Rightful(task[c].roles, task[c].target),
                                          "UNAVAILABLE"}
    BY DEF DecisionIsCurrent
  <2>1. CallOK(req[c], task[c]) BY DEF DecisionInv
  <2> QED BY <2>1 DEF CallOK, AwaitsUser, AwaitsList, HasDecided, Done
<1> QED BY <1>1, DecisionInvariance, PTL

-----------------------------------------------------------------------------
(* Powers of two.                                                           *)

\* A set of numbers that is not empty has a least one.
LEMMA LeastNumber ==
  ASSUME NEW T, T \subseteq Nat, T # {}
  PROVE  \E x \in T : \A y \in T : x <= y
<1>1. PICK x \in T : \A y \in T : ~(<<y, x>> \in OpToRel(<, Nat))
  BY WFMin, NatLessThanWellFounded
<1>2. ASSUME NEW y \in T PROVE x <= y
  <2>1. x \in Nat /\ y \in Nat OBVIOUS
  <2>2. ~(y < x) BY <1>1, <2>1 DEF OpToRel
  <2> QED BY <2>1, <2>2
<1> QED BY <1>2

\* f has the first n powers of two.
IsPower(f, n) == f \in [0..n -> Nat] /\ f[0] = 1 /\ \A i \in 1..n : f[i] = 2 * f[i - 1]

\* There is such a function for each n.
LEMMA PowerExists == \A n \in Nat : \E f : IsPower(f, n)
<1> SUFFICES ASSUME NEW m \in Nat, ~ \E f : IsPower(f, m) PROVE FALSE OBVIOUS
<1> DEFINE T == {n \in Nat : ~ \E f : IsPower(f, n)}
<1>1. PICK n \in T : \A k \in T : n <= k BY LeastNumber
<1>2. CASE n = 0
  <2> DEFINE f == [i \in 0..0 |-> 1]
  <2>1. IsPower(f, 0) BY DEF IsPower
  <2> QED BY <1>1, <1>2, <2>1
<1>3. CASE n # 0
  <2>1. n - 1 \in Nat /\ n - 1 \notin T BY <1>1, <1>3
  <2>2. PICK f : IsPower(f, n - 1) BY <2>1
  <2> DEFINE g == [i \in 0..n |-> IF i = n THEN 2 * f[n - 1] ELSE f[i]]
  <2>3. n \in Nat BY <1>1
  <2>4. IsPower(g, n) BY <2>2, <2>3, <1>3 DEF IsPower
  <2> QED BY <1>1, <2>4
<1> QED BY <1>2, <1>3

\* Two of them agree as far as they go.
LEMMA PowerUnique ==
  ASSUME NEW n \in Nat, NEW m \in Nat, NEW f, NEW g, IsPower(f, n), IsPower(g, m)
  PROVE  \A i \in Nat : i <= n /\ i <= m => f[i] = g[i]
<1> SUFFICES ASSUME NEW j \in Nat, j <= n, j <= m, f[j] # g[j] PROVE FALSE OBVIOUS
<1> DEFINE T == {i \in Nat : i <= n /\ i <= m /\ f[i] # g[i]}
<1>1. PICK i \in T : \A k \in T : i <= k BY LeastNumber
<1>2. i # 0 BY <1>1 DEF IsPower
<1>3. i - 1 \in Nat /\ i - 1 \notin T BY <1>1, <1>2
<1>4. f[i - 1] = g[i - 1] BY <1>1, <1>2, <1>3
<1>5. i \in 1..n /\ i \in 1..m BY <1>1, <1>2
<1> QED BY <1>1, <1>4, <1>5 DEF IsPower

\* Power is the function its definition says.
LEMMA PowerIs ==
  /\ Power \in [Nat -> Nat]
  /\ Power[0] = 1
  /\ \A n \in Nat : Power[n + 1] = 2 * Power[n]
<1> DEFINE F(n) == CHOOSE f : IsPower(f, n)
           h == [n \in Nat |-> F(n)[n]]
<1>1. \A n \in Nat : IsPower(F(n), n) BY PowerExists
<1> HIDE DEF F
<1>2. \A n \in Nat : h[n] \in Nat BY <1>1 DEF IsPower
<1>3. h[0] = 1 BY <1>1 DEF IsPower
<1>4. ASSUME NEW n \in Nat PROVE h[n + 1] = 2 * h[n]
  <2>1. F(n + 1)[n] = F(n)[n]
    <3>1. n + 1 \in Nat /\ n <= n + 1 /\ n <= n OBVIOUS
    <3>2. PICK f : f = F(n + 1) OBVIOUS
    <3>3. PICK g : g = F(n) OBVIOUS
    <3>4. IsPower(f, n + 1) /\ IsPower(g, n) BY <1>1, <3>1, <3>2, <3>3
    <3>5. f[n] = g[n] BY <3>1, <3>4, PowerUnique
    <3> QED BY <3>2, <3>3, <3>5
  <2>2. IsPower(F(n + 1), n + 1) BY <1>1
  <2>3. F(n + 1)[n + 1] = 2 * F(n + 1)[n] BY <2>2 DEF IsPower
  <2> QED BY <2>1, <2>3
<1>5. h = [n \in Nat |-> IF n = 0 THEN 1 ELSE 2 * h[n - 1]]
  <2>1. ASSUME NEW n \in Nat PROVE h[n] = IF n = 0 THEN 1 ELSE 2 * h[n - 1]
    <3>1. CASE n = 0 BY <1>3, <3>1
    <3>2. CASE n # 0
      <4>1. n - 1 \in Nat /\ (n - 1) + 1 = n BY <3>2
      <4> QED BY <1>4, <3>2, <4>1
    <3> QED BY <3>1, <3>2
  <2>2. h = [n \in Nat |-> h[n]] OBVIOUS
  <2> QED BY <2>1, <2>2
<1> HIDE DEF h
<1>6. Power = [n \in Nat |-> IF n = 0 THEN 1 ELSE 2 * Power[n - 1]]
  BY <1>5 DEF Power
<1>7. \A n \in Nat : Power[n] = IF n = 0 THEN 1 ELSE 2 * Power[n - 1] BY <1>6
<1>8. Power[0] = 1 /\ \A n \in Nat : Power[n + 1] = 2 * Power[n]
  <2>1. \A n \in Nat : n + 1 \in Nat /\ n + 1 # 0 /\ (n + 1) - 1 = n OBVIOUS
  <2> QED BY <1>7, <2>1
<1>9. Power \in [Nat -> Nat]
  <2>1. ASSUME NEW m \in Nat, Power[m] \notin Nat PROVE FALSE
    <3> DEFINE T == {n \in Nat : Power[n] \notin Nat}
    <3>1. PICK n \in T : \A k \in T : n <= k BY <2>1, LeastNumber
    <3>2. n # 0 BY <1>8, <3>1
    <3>3. n - 1 \in Nat /\ n - 1 \notin T BY <3>1, <3>2
    <3>4. Power[n - 1] \in Nat BY <3>3
    <3> QED BY <1>7, <3>1, <3>2, <3>4
  <2>2. Power = [n \in Nat |-> Power[n]] BY <1>6
  <2> QED BY <2>1, <2>2
<1> QED BY <1>8, <1>9

-----------------------------------------------------------------------------
(* Core's sleep.                                                            *)

\* A handler that runs asks a new question, or waits for nothing any more.
LEMMA Handled ==
  ASSUME DecisionInv, NEW c \in Call,
         \/ HandlerStep(c)
         \/ \E i \in Instance : NextPage(c, i)
         \/ \E i \in Instance, roles \in RoleSets, p \in Person : Authorize(c, i, roles, p)
  PROVE  /\ UNCHANGED asleep
         /\ \E r : /\ req' = [req EXCEPT ![c] = r]
                   /\ r = NoRequest \/ \E i, ask : r = Asking(i, ask)
<1> DEFINE Goal == /\ UNCHANGED asleep
                   /\ \E r : /\ req' = [req EXCEPT ![c] = r]
                             /\ r = NoRequest \/ \E i, ask : r = Asking(i, ask)
<1>1. \A t, ask : Await(c, t, ask) => Goal BY DEF Await
<1>2. \A t : Return(c, t) => Goal BY DEF Return
<1> SUFFICES Goal OBVIOUS
<1> HIDE DEF Goal
<1>3. \A t, d : Decide(c, t, d) => Goal BY <1>2 DEF Decide
<1>4. \A t, users : PageOf(c, t, users) => Goal BY <1>1, <1>2 DEF PageOf
<1>5. \A t : ReadProjections(c, t) => Goal BY <1>1, <1>4 DEF ReadProjections
<1>6. \A t : t.op \in {"discover", "authorize"} /\ GetDirectScope(c, t) => Goal
  BY <1>1, <1>3, <1>5 DEF GetDirectScope, HasScope
<1>7. CASE HandlerStep(c)
  <2> DEFINE t == task[c]
  <2>1. t.pc # "idle" => Works(t) BY CallFacts
  <2>2. CASE UserRead(c)
    <3>1. t.op = "authorize" BY <2>1, <2>2 DEF UserRead, HasRead, Works, TaskOK
    <3>2. (\E d : Decide(c, t, d)) \/ GetDirectScope(c, t) BY <2>2 DEF UserRead
    <3> QED BY <1>3, <1>6, <3>1, <3>2
  <2>3. CASE RelationshipsRead(c)
    <3> DEFINE u == [t EXCEPT !.scope = @ \cup req[c].who]
    <3>1. Works(t) /\ GetDirectScope(c, u) BY <2>1, <2>3 DEF RelationshipsRead, HasRead
    <3> HIDE DEF t
    <3>2. u.op = t.op BY <3>1 DEF Works, TaskOK, IsTask
    <3>3. t.op \in {"discover", "authorize"} BY <3>1 DEF Works, TaskOK
    <3> QED BY <1>6, <3>1, <3>2, <3>3
  <2>4. CASE ProjectionsRead(c) BY <1>4, <2>4 DEF ProjectionsRead
  <2>5. CASE PageRead(c) BY <1>2, <2>5 DEF PageRead
  <2>6. CASE Unavailable(c) BY <1>3, <2>6 DEF Unavailable
  <2> QED BY <1>7, <2>2, <2>3, <2>4, <2>5, <2>6 DEF HandlerStep
<1>8. ASSUME NEW i \in Instance, NextPage(c, i) PROVE Goal
  <2> DEFINE n == NewTask("discover", i, walk.roles)
             t == [n EXCEPT !.cursor = walk.cursor]
             u == [t EXCEPT !.lists = {}]
  <2>1. Works(n) /\ n.op = "discover" BY Begun
  <2>2. Return(c, t) \/ PageOf(c, u, {}) \/ GetDirectScope(c, t) BY <1>8 DEF NextPage
  <2> HIDE DEF n
  <2>3. t.op = "discover" BY <2>1 DEF Works, TaskOK, IsTask
  <2> QED BY <1>2, <1>4, <1>6, <2>2, <2>3
<1>9. ASSUME NEW i, NEW roles, NEW p, Authorize(c, i, roles, p) PROVE Goal
  BY <1>1, <1>3, <1>9 DEF Authorize
<1> QED BY <1>7, <1>8, <1>9

\* A call that asks has Core's whole sleep ahead at most; the last attempt has none of it.
LEMMA AttemptWakes ==
  ASSUME asleep \in 0..WakeTime, NEW r, NEW n \in 0..MaxRetries, IsRequest(r),
         asleep > 0 => asleep + Power[n] - 1 <= WakeTime
  PROVE  WakeOK(Attempt(r, n))
<1> DEFINE a == Attempt(r, n)
<1>1. a.st = "sent" /\ a.attempt = n /\ a.up = (asleep = 0)
  BY DEF Attempt, IsRequest
<1>2. WakeTime \in Nat /\ WakeTime <= Power[MaxRetries] - 1 /\ Power[MaxRetries] \in Nat
  BY PowerIs, CoreClientAssumption
<1>3. n = MaxRetries => asleep = 0 BY <1>2
<1> HIDE DEF a
<1>4. n = MaxRetries => a.up = TRUE BY <1>1, <1>3
<1>5. WakeOK(a) BY <1>1, <1>4 DEF WakeOK
<1> QED BY <1>5 DEF a

\* A step of one request, which takes no time.
LEMMA WakeLocal ==
  ASSUME DecisionInv, WakeInv, UNCHANGED asleep, NEW c \in Call, NEW r, WakeOK(r),
         req' = [req EXCEPT ![c] = r]
  PROVE  WakeInv'
<1>1. \A q : WakeOK(q)' <=> WakeOK(q) BY DEF WakeOK
<1>2. \A d \in Call : req'[d] = r \/ req'[d] = req[d] BY DEF DecisionInv
<1>3. ASSUME NEW d \in Call PROVE WakeOK(req[d])'
  <2>1. PICK q : q = req'[d] OBVIOUS
  <2>2. WakeOK(q) BY <1>2, <2>1 DEF WakeInv
  <2> QED BY <1>1, <2>1, <2>2
<1> QED BY <1>3 DEF WakeInv

\* Every attempt that Core's sleep undoes is followed by a delay twice the last one.
LEMMA WakeStep ==
  ASSUME DecisionInv, WakeInv, [DirectoryNext]_directoryVars
  PROVE  WakeInv'
<1>1. /\ asleep \in 0..WakeTime /\ \A c \in Call : WakeOK(req[c])
      /\ \A c \in Call : IsRequest(req[c])
      /\ WakeTime \in Nat /\ MaxRetries \in Nat
  BY PowerIs, CoreClientAssumption DEF WakeInv, DecisionInv, CallOK, RequestOK
<1>2. /\ Power[0] = 1
      /\ \A n \in Nat : Power[n] \in Nat /\ Power[n + 1] = 2 * Power[n]
  BY PowerIs
<1>3. WakeOK(NoRequest) BY <1>1 DEF WakeOK, NoRequest
<1>4. ASSUME UNCHANGED <<asleep, req>> PROVE WakeInv'
  BY <1>1, <1>4 DEF WakeInv, WakeOK
<1>5. ASSUME NEW c \in Call,
             \/ HandlerStep(c)
             \/ \E i \in Instance : NextPage(c, i)
             \/ \E i \in Instance, roles \in RoleSets, p \in Person : Authorize(c, i, roles, p)
      PROVE  WakeInv'
  <2>1. /\ UNCHANGED asleep
        /\ \E r : /\ req' = [req EXCEPT ![c] = r]
                  /\ r = NoRequest \/ \E i, ask : r = Asking(i, ask)
    BY <1>5, Handled
  <2>2. PICK r : /\ req' = [req EXCEPT ![c] = r]
                 /\ r = NoRequest \/ \E i, ask : r = Asking(i, ask)
    BY <2>1
  <2>3. ASSUME NEW i, NEW ask PROVE WakeOK(Asking(i, ask))
    <3> DEFINE e == Cached(i, ask)
               ttl == IF Keeps(ask) THEN CacheTtl ELSE 0
               q == [NoRequest EXCEPT !.ask = ask, !.at = i, !.ttl = ttl]
    <3>1. IsRequest(q) /\ q.attempt = 0 /\ q.st = "off" BY DEF IsRequest, NoRequest
    <3>2. Asking(i, ask) = IF Valid(e) THEN [q EXCEPT !.st = "got", !.who = e.who]
                                       ELSE Attempt(q, 0)
      BY DEF Asking
    <3> HIDE DEF q, e
    <3>3. CASE Valid(e)
      <4> DEFINE a == [q EXCEPT !.st = "got", !.who = e.who]
      <4>1. a.st = "got" /\ a.attempt = 0 BY <3>1 DEF IsRequest
      <4>2. Asking(i, ask) = a BY <3>2, <3>3
      <4> HIDE DEF a
      <4>3. WakeOK(a) BY <1>1, <4>1 DEF WakeOK
      <4> QED BY <4>2, <4>3
    <3>4. CASE ~Valid(e)
      <4>1. asleep > 0 => asleep + Power[0] - 1 <= WakeTime BY <1>1, <1>2
      <4>2. WakeOK(Attempt(q, 0)) BY <1>1, <3>1, <4>1, AttemptWakes
      <4> QED BY <3>2, <3>4, <4>2
    <3> QED BY <3>3, <3>4
  <2>4. WakeOK(r) BY <1>3, <2>2, <2>3
  <2> QED BY <2>1, <2>2, <2>4, WakeLocal
<1>6. ASSUME NEW c \in Call, NetworkStep(c) \/ TimerStep(c) PROVE WakeInv'
  <2> DEFINE r == req[c]
  <2>0. WakeOK(r) /\ IsRequest(r) BY <1>1
  <2>1. CASE CoreAnswers(c)
    <3>1. PICK a \in Answers(r.ask) :
            req' = [req EXCEPT ![c] = [r EXCEPT !.st = "travelling", !.who = a.who, !.next = a.next]]
      BY <2>1 DEF CoreAnswers, DecisionInv
    <3>2. r.st = "sent" /\ UNCHANGED asleep BY <2>1 DEF CoreAnswers
    <3> HIDE DEF r
    <3> DEFINE q == [r EXCEPT !.st = "travelling", !.who = a.who, !.next = a.next]
    <3>3. q.st = "travelling" /\ q.attempt = r.attempt /\ q.up = r.up BY <2>0 DEF IsRequest
    <3> HIDE DEF q
    <3>4. WakeOK(q) BY <2>0, <3>2, <3>3 DEF WakeOK
    <3> QED BY <3>1, <3>2, <3>4, WakeLocal DEF q
  <2>2. CASE Deliver(c)
    <3>1. req' = [req EXCEPT ![c] = [r EXCEPT !.st = "got"]]
      BY <2>2 DEF Deliver, DecisionInv
    <3>2. UNCHANGED asleep BY <2>2 DEF Deliver
    <3> HIDE DEF r
    <3> DEFINE q == [r EXCEPT !.st = "got"]
    <3>3. q.st = "got" /\ q.attempt = r.attempt BY <2>0 DEF IsRequest
    <3> HIDE DEF q
    <3>4. WakeOK(q) BY <2>0, <3>3 DEF WakeOK
    <3> QED BY <3>1, <3>2, <3>4, WakeLocal DEF q
  <2>3. CASE Fails(c)
    <3>1. req' = [req EXCEPT ![c] =
                    [r EXCEPT !.st = "failed", !.who = {}, !.next = 0, !.hurt = TRUE]]
      BY <2>3 DEF Fails, DecisionInv
    <3>2. UNCHANGED asleep BY <2>3 DEF Fails
    <3> HIDE DEF r
    <3> DEFINE q == [r EXCEPT !.st = "failed", !.who = {}, !.next = 0, !.hurt = TRUE]
    <3>3. q.st = "failed" /\ q.attempt = r.attempt /\ q.hurt = TRUE BY <2>0 DEF IsRequest
    <3> HIDE DEF q
    <3>4. WakeOK(q) BY <2>0, <3>3 DEF WakeOK
    <3> QED BY <3>1, <3>2, <3>4, WakeLocal DEF q
  <2>4. CASE Rejected(c) \/ TimesOut(c)
    <3>1. /\ req' = [req EXCEPT ![c] = TryAgain(r)] /\ UNCHANGED asleep
          /\ r.st \in {"sent", "travelling"}
      BY <2>4 DEF Rejected, TimesOut, Aborts
    <3> HIDE DEF r
    <3> DEFINE after == [r EXCEPT !.who = {}, !.next = 0, !.hurt = r.hurt \/ r.up]
               q == TryAgain(r)
    <3>2. /\ IsRequest(after) /\ after.attempt = r.attempt /\ after.up = r.up
          /\ after.hurt = (r.hurt \/ r.up)
      BY <2>0 DEF IsRequest
    <3>3. q = IF r.attempt < MaxRetries
                THEN [after EXCEPT !.st = "backoff", !.timer = Backoff(r.attempt)]
                ELSE [after EXCEPT !.st = "failed"]
      BY DEF TryAgain
    <3> HIDE DEF after, q
    <3>4. r.attempt \in 0..MaxRetries BY <2>0 DEF WakeOK
    <3>5. ASSUME r.attempt < MaxRetries PROVE WakeOK(q)
      <4>1. q.st = "backoff" /\ q.timer = Power[r.attempt] /\ q.attempt = r.attempt
        BY <3>2, <3>3, <3>5 DEF IsRequest, Backoff
      <4>2. Power[r.attempt] \in Nat BY <1>1, <1>2, <3>4
      <4>3. asleep > 0 => asleep + Power[r.attempt] - 1 <= WakeTime
        BY <2>0, <3>1 DEF WakeOK
      <4>4. asleep > 0 => asleep + 2 * Power[r.attempt] - 1 - q.timer <= WakeTime
        BY <1>1, <4>1, <4>2, <4>3
      <4> QED BY <3>4, <3>5, <4>1, <4>2, <4>4 DEF WakeOK
    <3>6. ASSUME ~(r.attempt < MaxRetries) PROVE WakeOK(q)
      <4>1. q.st = "failed" /\ q.attempt = r.attempt /\ q.hurt = (r.hurt \/ r.up)
        BY <3>2, <3>3, <3>6 DEF IsRequest
      <4>2. r.attempt = MaxRetries BY <1>1, <3>4, <3>6
      <4>3. r.up = TRUE BY <2>0, <3>1, <4>2 DEF WakeOK
      <4>4. q.hurt = TRUE BY <4>1, <4>3
      <4> QED BY <3>4, <4>1, <4>4 DEF WakeOK
    <3>7. WakeOK(q) BY <3>5, <3>6
    <3> QED BY <3>1, <3>7, WakeLocal DEF q
  <2>5. CASE Retry(c)
    <3>1. /\ req' = [req EXCEPT ![c] = Attempt(r, r.attempt + 1)] /\ UNCHANGED asleep
          /\ r.st = "backoff" /\ r.timer = 0
      BY <2>5 DEF Retry, BackoffOver
    <3> HIDE DEF r
    <3>2. /\ r.attempt \in 0..MaxRetries /\ r.attempt < MaxRetries
          /\ asleep > 0 => asleep + 2 * Power[r.attempt] - 1 - r.timer <= WakeTime
      BY <2>0, <3>1 DEF WakeOK
    <3>3. r.attempt \in Nat /\ r.attempt + 1 \in 0..MaxRetries BY <1>1, <3>2
    <3>4. asleep > 0 => asleep + Power[r.attempt + 1] - 1 <= WakeTime
      BY <1>1, <1>2, <3>1, <3>2, <3>3
    <3>5. WakeOK(Attempt(r, r.attempt + 1)) BY <1>1, <2>0, <3>3, <3>4, AttemptWakes
    <3> QED BY <3>1, <3>5, WakeLocal
  <2> QED BY <1>6, <2>1, <2>2, <2>3, <2>4, <2>5 DEF NetworkStep, TimerStep
<1>7. CASE Pass
  <2>1. asleep' = Less(asleep) BY <1>7 DEF Pass, Tick
  <2>2. asleep' \in 0..WakeTime /\ (asleep' > 0 => asleep' = asleep - 1)
    BY <1>1, <2>1 DEF Less
  <2>3. ASSUME NEW c \in Call PROVE WakeOK(req[c])'
    <3>1. PICK r, q : r = req[c] /\ q = req'[c] OBVIOUS
    <3>2. WakeOK(r) /\ IsRequest(r) BY <1>1, <3>1
    <3>3. q = IF r.st \in {"sent", "travelling", "backoff"}
                THEN [r EXCEPT !.timer = Less(@), !.ttl = Less(@)] ELSE r
      BY <1>7, <3>1 DEF Pass, Tick, InFlight
    <3>4. r.st = "backoff" => r.timer # 0
      BY <1>7, <3>1 DEF Pass, Tick, MayTick, BackoffOver
    <3>5. /\ q.st = r.st /\ q.attempt = r.attempt /\ q.up = r.up /\ q.hurt = r.hurt
          /\ r.st = "backoff" => q.timer = Less(r.timer)
      BY <3>2, <3>3 DEF IsRequest
    <3>6. r.attempt \in 0..MaxRetries /\ r.attempt \in Nat /\ Power[r.attempt] \in Nat
      BY <1>1, <1>2, <3>2 DEF WakeOK
    <3>7. CASE r.st \in {"sent", "travelling"}
      <4>1. asleep' > 0 => asleep' + Power[r.attempt] - 1 <= WakeTime
        BY <1>1, <2>2, <3>2, <3>6, <3>7 DEF WakeOK
      <4> QED BY <3>1, <3>2, <3>5, <3>7, <4>1 DEF WakeOK
    <3>8. CASE r.st = "backoff"
      <4>1. /\ r.attempt < MaxRetries /\ r.timer \in 0..Power[r.attempt]
            /\ asleep > 0 => asleep + 2 * Power[r.attempt] - 1 - r.timer <= WakeTime
        BY <3>2, <3>8 DEF WakeOK
      <4>2. q.timer = r.timer - 1 /\ q.timer \in 0..Power[r.attempt]
        BY <3>4, <3>5, <3>6, <3>8, <4>1 DEF Less
      <4>3. asleep' > 0 => asleep' + 2 * Power[r.attempt] - 1 - q.timer <= WakeTime
        BY <1>1, <2>2, <3>6, <4>1, <4>2
      <4> QED BY <3>1, <3>5, <3>6, <3>8, <4>1, <4>2, <4>3 DEF WakeOK
    <3>9. CASE r.st \notin {"sent", "travelling", "backoff"}
      BY <3>1, <3>2, <3>5, <3>9 DEF WakeOK
    <3> QED BY <3>7, <3>8, <3>9
  <2> QED BY <2>2, <2>3 DEF WakeInv
<1>8. ASSUME NEW c \in Call, CallStep(c) PROVE WakeInv'
  BY <1>5, <1>6, <1>8 DEF CallStep
<1>9. ASSUME NEW c \in Call, WalkStep(c) PROVE WakeInv'
  BY <1>4, <1>5, <1>9 DEF WalkStep, PageArrives, PageLost, coreVars
<1>10. ASSUME NEW c \in Call, Forget(c) PROVE WakeInv'
  BY <1>4, <1>10 DEF Forget, coreVars
<1>11. ASSUME NEW roles \in RoleSets, StartWalk(roles) PROVE WakeInv'
  BY <1>4, <1>11 DEF StartWalk, coreVars
<1>12. ASSUME NEW p \in Person, Change(p) PROVE WakeInv'
  BY <1>4, <1>12 DEF Change, Enable, Relate, Changed
<1>13. CASE UNCHANGED directoryVars BY <1>4, <1>13 DEF directoryVars, coreVars
<1> QED
  BY <1>5, <1>6, <1>7, <1>8, <1>9, <1>10, <1>11, <1>12, <1>13 DEF DirectoryNext

\* Core's sleep is over before the last attempt of any request begins, however long its
\* attempts hang.
THEOREM WakeInvariance == DirectorySpec => []WakeInv
<1>1. DirectoryInit => WakeInv
  <2> SUFFICES ASSUME DirectoryInit PROVE WakeInv OBVIOUS
  <2>1. MaxRetries \in Nat BY CoreClientAssumption
  <2>2. WakeOK(NoRequest) BY <2>1 DEF WakeOK, NoRequest
  <2> QED BY <2>2 DEF DirectoryInit, WakeInv
<1>2. DecisionInv /\ WakeInv /\ [DirectoryNext]_directoryVars => WakeInv' BY WakeStep
<1> QED BY <1>1, <1>2, DecisionInvariance, PTL DEF DirectorySpec

\* A request that fails met something else than Core waking up.
THEOREM WakeUpsAreSurvived == DirectorySpec => []SurvivesWakeUp
<1>1. WakeInv => SurvivesWakeUp BY DEF WakeInv, WakeOK, SurvivesWakeUp, Refused
<1> QED BY <1>1, WakeInvariance, PTL

-----------------------------------------------------------------------------
(* How long a request lasts.                                                *)

\* The attempts and the delays after attempt n, if each takes all its time.
ToCome(n) == (MaxRetries - n) * RequestTimeout + Power[MaxRetries] - Power[n]

\* How many Ticks a request may still take: what is left of its attempt or of its delay,
\* and what may follow.
WaitLeft(r) ==
  CASE r.st \in {"sent", "travelling"} -> r.timer + ToCome(r.attempt)
    [] r.st = "backoff" -> r.timer + ToCome(r.attempt) - Power[r.attempt]
    [] OTHER -> 0

LongestWait == RequestTimeout + ToCome(0)

WaitsAreBounded == \A c \in Call : InFlight(c) => WaitLeft(req[c]) \in 0..LongestWait

\* What one step does to a request under way that stays under way.
WaitGoesOn(c) ==
  InFlight(c) /\ InFlight(c)' =>
    /\ req'[c].ask = req[c].ask
    /\ WaitLeft(req'[c]) <= WaitLeft(req[c])
    /\ Pass => WaitLeft(req'[c]) = WaitLeft(req[c]) - 1

\* A higher power of two is not less.
LEMMA PowerGrows == \A m, n \in Nat : m <= n => Power[m] <= Power[n] /\ 1 <= Power[n]
<1> SUFFICES ASSUME NEW m \in Nat PROVE \A n \in Nat : m <= n => Power[m] <= Power[n] /\ 1 <= Power[n]
  OBVIOUS
<1>1. /\ Power[0] = 1
      /\ \A n \in Nat : Power[n] \in Nat /\ Power[n + 1] = 2 * Power[n]
  BY PowerIs
<1>2. ASSUME NEW k \in Nat PROVE \A j \in Nat : Power[k] <= Power[k + j]
  <2> DEFINE T == {j \in Nat : ~(Power[k] <= Power[k + j])}
  <2>1. ASSUME T # {} PROVE FALSE
    <3>1. PICK j \in T : \A i \in T : j <= i BY <2>1, LeastNumber
    <3>2. j \in Nat /\ ~(Power[k] <= Power[k + j]) OBVIOUS
    <3> HIDE DEF T
    <3>3. j # 0 BY <1>1, <3>2
    <3>4. PICK i \in Nat : j = i + 1
      <4>1. j - 1 \in Nat /\ j = (j - 1) + 1 BY <3>2, <3>3
      <4> QED BY <4>1
    <3>5. i \notin T BY <3>1, <3>4
    <3>6. Power[k] <= Power[k + i] BY <3>5 DEF T
    <3>7. k + j = (k + i) + 1 /\ k + i \in Nat BY <3>4
    <3>8. Power[k + j] = 2 * Power[k + i] /\ Power[k + i] \in Nat /\ Power[k] \in Nat
      BY <1>1, <3>7
    <3>9. Power[k] <= Power[k + j] BY ONLY <3>6, <3>8
    <3> QED BY <3>2, <3>9
  <2> QED BY <2>1
<1>3. ASSUME NEW n \in Nat, m <= n PROVE Power[m] <= Power[n]
  <2>1. n - m \in Nat /\ m + (n - m) = n BY <1>3
  <2>2. Power[m] <= Power[m + (n - m)] BY <1>2, <2>1
  <2> QED BY <2>1, <2>2
<1>4. ASSUME NEW n \in Nat PROVE 1 <= Power[n]
  <2>1. Power[0] <= Power[0 + n] BY <1>2
  <2> QED BY <1>1, <2>1
<1> QED BY <1>3, <1>4

\* What may follow an attempt: its delay, the next attempt, and what may follow that.
LEMMA ToComeIs ==
  /\ ToCome(0) \in Nat /\ LongestWait \in Nat
  /\ \A n \in 0..MaxRetries : ToCome(n) \in 0..ToCome(0)
  /\ \A n \in 0..(MaxRetries - 1) :
       ToCome(n) = Power[n] + RequestTimeout + ToCome(n + 1)
<1>1. PICK M \in Nat, T \in Nat : M = MaxRetries /\ T = RequestTimeout BY CoreClientAssumption
<1>2. \A n \in Nat : Power[n] \in Nat /\ 1 <= Power[n] /\ Power[n + 1] = 2 * Power[n]
  BY PowerIs, PowerGrows
<1>3. \A n \in 0..M : ToCome(n) = (M - n) * T + Power[M] - Power[n] BY <1>1 DEF ToCome
<1>4. \A n \in 0..M : ToCome(n) \in 0..ToCome(0)
  <2> TAKE n \in 0..M
  <2>1. PICK k \in Nat : M = k + n
    <3>1. M - n \in Nat /\ M = (M - n) + n OBVIOUS
    <3> QED BY <3>1
  <2>2. PICK a, b, c \in Nat : a = k * T /\ b = n * T /\ c = M * T
    <3>1. \A x, y \in Nat : x * y \in Nat OBVIOUS
    <3>2. n \in Nat OBVIOUS
    <3> QED BY <3>1, <3>2
  <2>3. c = a + b BY <2>1, <2>2
  <2>4. M - n = k /\ M - 0 = M /\ 0 \in 0..M BY <2>1
  <2>5. PICK p, q, s \in Nat : p = Power[n] /\ q = Power[M] /\ s = Power[0]
    <3>1. n \in Nat /\ 0 \in Nat OBVIOUS
    <3> QED BY <1>2, <3>1
  <2>6. s = 1 /\ s <= p /\ p <= q BY <2>5, PowerIs, PowerGrows
  <2>7. ToCome(n) = a + q - p BY <1>3, <2>2, <2>4, <2>5
  <2>8. ToCome(0) = c + q - s BY <1>3, <2>2, <2>4, <2>5
  <2> QED BY ONLY <2>3, <2>6, <2>7, <2>8, a \in Nat, b \in Nat, c \in Nat, p \in Nat, q \in Nat, s \in Nat
<1>5. ASSUME NEW n \in 0..(M - 1) PROVE ToCome(n) = Power[n] + T + ToCome(n + 1)
  <2>1. PICK k \in Nat : M = (k + 1) + n
    <3>1. M - n - 1 \in Nat /\ M = ((M - n - 1) + 1) + n OBVIOUS
    <3> QED BY <3>1
  <2>2. n \in Nat /\ n \in 0..M /\ n + 1 \in 0..M /\ M - n = k + 1 /\ M - (n + 1) = k BY <2>1
  <2>3. PICK a, b \in Nat : a = k * T /\ b = (k + 1) * T
    <3>1. \A x, y \in Nat : x * y \in Nat OBVIOUS
    <3> QED BY <3>1
  <2>4. b = a + T BY <2>3
  <2>5. PICK p, q, s \in Nat : p = Power[n] /\ q = Power[M] /\ s = Power[n + 1]
    <3>1. Power[n] \in Nat /\ Power[M] \in Nat /\ Power[n + 1] \in Nat
      <4>1. n \in Nat /\ n + 1 \in Nat BY <2>2
      <4> QED BY <1>2, <4>1
    <3> QED BY <3>1
  <2>6. s = 2 * p BY <1>2, <2>2, <2>5
  <2>7. ToCome(n) = b + q - p BY <1>3, <2>2, <2>3, <2>5
  <2>8. ToCome(n + 1) = a + q - s BY <1>3, <2>2, <2>3, <2>5
  <2>9. ToCome(n) = p + T + ToCome(n + 1)
    BY ONLY <2>4, <2>6, <2>7, <2>8, a \in Nat, b \in Nat, p \in Nat, q \in Nat, s \in Nat, T \in Nat
  <2> QED BY <2>5, <2>9
<1>6. 0 \in 0..M OBVIOUS
<1>7. ToCome(0) \in Nat BY <1>4, <1>6
<1> QED BY <1>1, <1>4, <1>5, <1>7 DEF LongestWait

\* An attempt's timer and a delay are no longer than they were made.
Timed(r) ==
  /\ r.attempt \in 0..MaxRetries
  /\ r.st \in {"sent", "travelling", "backoff"}
  /\ r.st \in {"sent", "travelling"} => r.timer \in 0..RequestTimeout
  /\ r.st = "backoff" => r.attempt < MaxRetries /\ r.timer \in 0..Power[r.attempt]

\* Of an attempt there is left its timer, of a delay what it has not slept and the next
\* attempt; together no more than all attempts and delays take.
LEMMA WaitIs ==
  ASSUME NEW r, Timed(r)
  PROVE  /\ WaitLeft(r) \in 0..LongestWait
         /\ r.st \in {"sent", "travelling"} =>
              /\ WaitLeft(r) = r.timer + ToCome(r.attempt)
              /\ ToCome(r.attempt) \in Nat
         /\ r.st = "backoff" =>
              /\ WaitLeft(r) = r.timer + RequestTimeout + ToCome(r.attempt + 1)
              /\ ToCome(r.attempt + 1) \in Nat
<1>1. /\ MaxRetries \in Nat /\ RequestTimeout \in Nat
      /\ r.attempt \in 0..MaxRetries
  BY CoreClientAssumption DEF Timed
<1>2. PICK n \in Nat, t0 \in Nat, L \in Nat : n = r.attempt /\ t0 = ToCome(0) /\ L = LongestWait
  BY <1>1, ToComeIs
<1>3. L = RequestTimeout + t0 BY <1>2 DEF LongestWait
<1>4. CASE r.st \in {"sent", "travelling"}
  <2>1. r.timer \in 0..RequestTimeout BY <1>4 DEF Timed
  <2>2. WaitLeft(r) = r.timer + ToCome(n) BY <1>2, <1>4 DEF WaitLeft
  <2>3. PICK a \in Nat : a = ToCome(n) /\ a <= t0 BY <1>1, <1>2, ToComeIs
  <2>4. WaitLeft(r) \in 0..L BY <1>1, <1>3, <2>1, <2>2, <2>3
  <2> QED BY <1>1, <1>2, <1>4, <2>1, <2>2, <2>3, <2>4
<1>5. CASE r.st = "backoff"
  <2>1. n < MaxRetries /\ r.timer \in 0..Power[n] BY <1>2, <1>5 DEF Timed
  <2>2. n \in 0..(MaxRetries - 1) /\ n + 1 \in 0..MaxRetries /\ n \in 0..MaxRetries
    BY <1>1, <2>1
  <2>3. PICK a, b \in Nat : a = ToCome(n) /\ b = ToCome(n + 1) /\ a <= t0
    BY <1>2, <2>2, ToComeIs
  <2>4. PICK p \in Nat : p = Power[n] BY PowerIs
  <2>5. a = p + RequestTimeout + b BY <2>2, <2>3, <2>4, ToComeIs
  <2>6. WaitLeft(r) = r.timer + a - p BY <1>2, <1>5, <2>3, <2>4 DEF WaitLeft
  <2>7. PICK t \in Nat : t = r.timer /\ t <= p BY <2>1, <2>4
  <2>8. WaitLeft(r) = t + RequestTimeout + b /\ WaitLeft(r) \in 0..L
    BY ONLY <1>1, <1>3, <2>3, <2>5, <2>6, <2>7, t0 \in Nat, L \in Nat, a \in Nat, b \in Nat, p \in Nat
  <2> QED BY <1>2, <1>5, <2>2, <2>3, <2>7, <2>8
<1> QED BY <1>4, <1>5 DEF Timed

\* The request of a call under way is timed.
LEMMA UnderWay ==
  ASSUME DecisionInv, WakeInv, NEW c \in Call, InFlight(c)
  PROVE  Timed(req[c])
<1>1. PICK r : r = req[c] OBVIOUS
<1>2. RequestOK(r) /\ WakeOK(r) /\ r.st \in {"sent", "travelling", "backoff"}
  BY <1>1 DEF DecisionInv, WakeInv, CallOK, InFlight
<1>3. Timed(r) BY <1>2 DEF RequestOK, WakeOK, Timed
<1> QED BY <1>1, <1>3

\* A call is answered, or fails, within the time of all attempts and of the delays between
\* them: the timer, the bounded attempts and the doubling delays of request.
THEOREM WaitsBounded == DirectorySpec => []WaitsAreBounded
<1>1. DecisionInv /\ WakeInv => WaitsAreBounded BY UnderWay, WaitIs DEF WaitsAreBounded
<1> QED BY <1>1, DecisionInvariance, WakeInvariance, PTL

\* A step that takes no time leaves a request under way no more of it.
LEMMA WaitStays ==
  ASSUME DecisionInv, WakeInv, NEW c \in Call, NetworkStep(c) \/ TimerStep(c)
  PROVE  LET r == req[c]
             q == req'[c]
         IN /\ \A d \in Call \ {c} : req'[d] = req[d]
            /\ InFlight(c) /\ q.st \in {"sent", "travelling", "backoff"} =>
                 q.ask = r.ask /\ WaitLeft(q) <= WaitLeft(r)
<1> DEFINE r == req[c]
           Goal == /\ \A d \in Call \ {c} : req'[d] = req[d]
                   /\ InFlight(c) /\ req'[c].st \in {"sent", "travelling", "backoff"} =>
                        req'[c].ask = r.ask /\ WaitLeft(req'[c]) <= WaitLeft(r)
<1> SUFFICES Goal OBVIOUS
<1>1. IsRequest(r) /\ req = [d \in Call |-> req[d]] BY DEF DecisionInv, CallOK, RequestOK
<1>2. MaxRetries \in Nat /\ RequestTimeout \in Nat BY CoreClientAssumption
<1>3. ASSUME NEW q, req' = [req EXCEPT ![c] = q],
             q.st \in {"sent", "travelling", "backoff"} /\ InFlight(c) =>
               q.ask = r.ask /\ WaitLeft(q) <= WaitLeft(r)
      PROVE  Goal
  BY <1>1, <1>3
<1> HIDE DEF Goal
<1>4. InFlight(c) => Timed(r) /\ WaitLeft(r) \in Nat
  <2>1. InFlight(c) => Timed(r) BY UnderWay
  <2>2. LongestWait \in Nat BY ToComeIs
  <2> HIDE DEF r
  <2> QED BY <2>1, <2>2, WaitIs
<1>5. CASE CoreAnswers(c)
  <2>1. PICK a \in Answers(r.ask) :
          req' = [req EXCEPT ![c] = [r EXCEPT !.st = "travelling", !.who = a.who, !.next = a.next]]
    BY <1>5 DEF CoreAnswers, DecisionInv
  <2>2. r.st = "sent" BY <1>5 DEF CoreAnswers
  <2> HIDE DEF r
  <2> DEFINE q == [r EXCEPT !.st = "travelling", !.who = a.who, !.next = a.next]
  <2>3. q.st = "travelling" /\ q.attempt = r.attempt /\ q.timer = r.timer /\ q.ask = r.ask
    BY <1>1 DEF IsRequest
  <2> HIDE DEF q
  <2>4. WaitLeft(q) = WaitLeft(r) BY <2>2, <2>3 DEF WaitLeft
  <2>5. InFlight(c) => WaitLeft(q) <= WaitLeft(r) BY <1>4, <2>4
  <2> QED BY <1>3, <2>1, <2>3, <2>5 DEF q
<1>6. CASE Deliver(c) \/ Fails(c)
  <2>1. PICK q : req' = [req EXCEPT ![c] = q] /\ q.st \in {"got", "failed"}
    <3>1. CASE Deliver(c)
      <4>1. req' = [req EXCEPT ![c] = [r EXCEPT !.st = "got"]] BY <3>1 DEF Deliver, DecisionInv
      <4> HIDE DEF r
      <4>2. [r EXCEPT !.st = "got"].st = "got" BY <1>1 DEF IsRequest
      <4> QED BY <4>1, <4>2
    <3>2. CASE Fails(c)
      <4>1. req' = [req EXCEPT ![c] =
                      [r EXCEPT !.st = "failed", !.who = {}, !.next = 0, !.hurt = TRUE]]
        BY <3>2 DEF Fails, DecisionInv
      <4> HIDE DEF r
      <4>2. [r EXCEPT !.st = "failed", !.who = {}, !.next = 0, !.hurt = TRUE].st = "failed"
        BY <1>1 DEF IsRequest
      <4> QED BY <4>1, <4>2
    <3> QED BY <1>6, <3>1, <3>2
  <2> QED BY <1>3, <2>1
<1>7. CASE Rejected(c) \/ TimesOut(c)
  <2>1. req' = [req EXCEPT ![c] = TryAgain(r)] /\ r.st \in {"sent", "travelling"}
    BY <1>7 DEF Rejected, TimesOut, Aborts
  <2>2. InFlight(c) BY <2>1 DEF InFlight
  <2>3. Timed(r) BY <1>4, <2>2
  <2> HIDE DEF r
  <2> DEFINE after == [r EXCEPT !.who = {}, !.next = 0, !.hurt = r.hurt \/ r.up]
             q == TryAgain(r)
  <2>4. IsRequest(after) /\ after.attempt = r.attempt /\ after.ask = r.ask
    BY <1>1 DEF IsRequest
  <2>5. q = IF r.attempt < MaxRetries
              THEN [after EXCEPT !.st = "backoff", !.timer = Backoff(r.attempt)]
              ELSE [after EXCEPT !.st = "failed"]
    BY DEF TryAgain
  <2> HIDE DEF after, q
  <2>6. ASSUME r.attempt < MaxRetries
        PROVE  q.ask = r.ask /\ WaitLeft(q) <= WaitLeft(r)
    <3>1. q.st = "backoff" /\ q.timer = Power[r.attempt] /\ q.attempt = r.attempt /\ q.ask = r.ask
      BY <2>4, <2>5, <2>6 DEF IsRequest, Backoff
    <3>2. r.attempt \in 0..MaxRetries /\ r.timer \in 0..RequestTimeout BY <2>1, <2>3 DEF Timed
    <3>3. PICK p, a \in Nat : p = Power[r.attempt] /\ a = ToCome(r.attempt)
      <4>1. r.attempt \in Nat /\ ToCome(r.attempt) \in Nat BY <1>2, <3>2, ToComeIs
      <4> QED BY <4>1, PowerIs
    <3>4. WaitLeft(r) = r.timer + a BY <2>1, <3>3 DEF WaitLeft
    <3>5. WaitLeft(q) = p + a - p BY <3>1, <3>3 DEF WaitLeft
    <3>6. WaitLeft(q) <= WaitLeft(r)
      BY ONLY <1>2, <3>2, <3>4, <3>5, a \in Nat, p \in Nat
    <3> QED BY <3>1, <3>6
  <2>7. ASSUME ~(r.attempt < MaxRetries) PROVE q.st = "failed"
    BY <2>4, <2>5, <2>7 DEF IsRequest
  <2>8. q.st \in {"sent", "travelling", "backoff"} /\ InFlight(c) =>
          q.ask = r.ask /\ WaitLeft(q) <= WaitLeft(r)
    BY <2>6, <2>7
  <2> QED BY <1>3, <2>1, <2>8 DEF q
<1>8. CASE Retry(c)
  <2>1. req' = [req EXCEPT ![c] = Attempt(r, r.attempt + 1)] /\ r.st = "backoff"
    BY <1>8 DEF Retry, BackoffOver
  <2>2. InFlight(c) BY <2>1 DEF InFlight
  <2>3. Timed(r) BY <1>4, <2>2
  <2> HIDE DEF r
  <2> DEFINE q == Attempt(r, r.attempt + 1)
  <2>4. q.st = "sent" /\ q.attempt = r.attempt + 1 /\ q.timer = RequestTimeout /\ q.ask = r.ask
    BY <1>1 DEF Attempt, IsRequest
  <2> HIDE DEF q
  <2>5. /\ WaitLeft(r) = r.timer + RequestTimeout + ToCome(r.attempt + 1)
        /\ ToCome(r.attempt + 1) \in Nat
    BY <2>1, <2>3, WaitIs
  <2>6. PICK a, t \in Nat : a = ToCome(r.attempt + 1) /\ t = r.timer
    <3>1. r.attempt \in Nat /\ r.timer \in 0..Power[r.attempt] BY <1>2, <2>1, <2>3 DEF Timed
    <3>2. r.timer \in Nat BY <3>1, PowerIs
    <3> QED BY <2>5, <3>2
  <2>7. WaitLeft(q) = RequestTimeout + a BY <2>4, <2>6 DEF WaitLeft
  <2>8. WaitLeft(q) <= WaitLeft(r) BY <1>2, <2>5, <2>6, <2>7
  <2> QED BY <1>3, <2>1, <2>4, <2>8 DEF q
<1> QED BY <1>5, <1>6, <1>7, <1>8 DEF NetworkStep, TimerStep

\* A Tick takes one from what every request under way has left.
LEMMA WaitTicks ==
  ASSUME DecisionInv, WakeInv, Pass, NEW c \in Call, InFlight(c)
  PROVE  req'[c].ask = req[c].ask /\ WaitLeft(req'[c]) = WaitLeft(req[c]) - 1
<1>1. PICK r, q : r = req[c] /\ q = req'[c] OBVIOUS
<1>2. IsRequest(r) /\ Timed(r) BY <1>1, UnderWay DEF DecisionInv, CallOK, RequestOK
<1>3. q = [r EXCEPT !.timer = Less(r.timer), !.ttl = Less(r.ttl)]
  BY <1>1 DEF Pass, Tick
<1>4. q.st = r.st /\ q.attempt = r.attempt /\ q.ask = r.ask /\ q.timer = Less(r.timer)
  BY <1>2, <1>3 DEF IsRequest
<1>5. r.timer # 0
  BY <1>1, <1>2 DEF Timed, Pass, Tick, MayTick, Aborts, BackoffOver
<1>6. /\ MaxRetries \in Nat /\ RequestTimeout \in Nat
      /\ r.attempt \in 0..MaxRetries /\ r.attempt \in Nat
  BY <1>2, CoreClientAssumption DEF Timed
<1>7. PICK a, p \in Nat : a = ToCome(r.attempt) /\ p = Power[r.attempt]
  BY <1>6, ToComeIs, PowerIs
<1>8. r.timer \in Nat BY <1>2, <1>6, <1>7 DEF Timed
<1>9. q.timer = r.timer - 1 BY <1>4, <1>5, <1>8 DEF Less
<1>10. CASE r.st \in {"sent", "travelling"}
  <2>1. WaitLeft(r) = r.timer + a /\ WaitLeft(q) = q.timer + a
    BY <1>4, <1>7, <1>10 DEF WaitLeft
  <2> QED BY <1>1, <1>4, <1>8, <1>9, <2>1
<1>11. CASE r.st = "backoff"
  <2>1. WaitLeft(r) = r.timer + a - p /\ WaitLeft(q) = q.timer + a - p
    BY <1>4, <1>7, <1>11 DEF WaitLeft
  <2> QED BY <1>1, <1>4, <1>8, <1>9, <2>1
<1> QED BY <1>2, <1>10, <1>11 DEF Timed

\* What a step leaves a request to wait.
LEMMA WaitStep ==
  ASSUME DecisionInv, WakeInv, [DirectoryNext]_directoryVars, NEW c \in Call
  PROVE  WaitGoesOn(c)
<1> SUFFICES ASSUME InFlight(c), InFlight(c)' PROVE WaitGoesOn(c) BY DEF WaitGoesOn
<1>1. PICK r, q : r = req[c] /\ q = req'[c] OBVIOUS
<1>2. /\ r.st \in {"sent", "travelling", "backoff"}
      /\ q.st \in {"sent", "travelling", "backoff"}
  BY <1>1 DEF InFlight
<1>3. WaitLeft(r) \in Nat
  <2>1. LongestWait \in Nat /\ Timed(r) BY <1>1, ToComeIs, UnderWay
  <2> QED BY <2>1, WaitIs
<1>4. ASSUME ~Pass, q.ask = r.ask, WaitLeft(q) <= WaitLeft(r) PROVE WaitGoesOn(c)
  BY <1>1, <1>4 DEF WaitGoesOn
<1>5. CASE Pass BY <1>1, <1>3, <1>5, WaitTicks DEF WaitGoesOn
<1>6. ASSUME ~Pass, q = r PROVE WaitGoesOn(c) BY <1>3, <1>4, <1>6
<1>7. ASSUME ~Pass, NEW d \in Call, NetworkStep(d) \/ TimerStep(d) PROVE WaitGoesOn(c)
  <2>1. CASE d = c BY <1>1, <1>2, <1>4, <1>7, <2>1, WaitStays
  <2>2. CASE d # c BY <1>1, <1>6, <1>7, <2>2, WaitStays
  <2> QED BY <2>1, <2>2
<1>8. ASSUME ~Pass, NEW d \in Call,
             \/ HandlerStep(d)
             \/ \E i \in Instance : NextPage(d, i)
             \/ \E i \in Instance, roles \in RoleSets, p \in Person : Authorize(d, i, roles, p)
      PROVE  WaitGoesOn(c)
  <2>1. d # c
    <3>1. task[c].pc \notin {"idle", "done"} BY <1>1, <1>2 DEF DecisionInv, CallOK
    <3>2. ~Answered(c) /\ ~Refused(c) BY <1>1, <1>2 DEF Answered, Refused
    <3> QED BY <1>8, <3>1, <3>2
      DEF HandlerStep, UserRead, RelationshipsRead, ProjectionsRead, PageRead, Unavailable,
          HasRead, NextPage, Authorize, Idle
  <2>2. PICK s : req' = [req EXCEPT ![d] = s] BY <1>8, Handled
  <2>3. q = r BY <1>1, <2>1, <2>2 DEF DecisionInv
  <2> QED BY <1>6, <1>8, <2>3
<1>9. ASSUME ~Pass, UNCHANGED req PROVE WaitGoesOn(c) BY <1>1, <1>6, <1>9
<1>10. ASSUME ~Pass, NEW d \in Call, CallStep(d) PROVE WaitGoesOn(c)
  BY <1>7, <1>8, <1>10 DEF CallStep
<1>11. ASSUME ~Pass, NEW d \in Call, WalkStep(d) PROVE WaitGoesOn(c)
  BY <1>8, <1>9, <1>11 DEF WalkStep, PageArrives, PageLost, coreVars
<1>12. ASSUME ~Pass, NEW d \in Call, Forget(d) PROVE WaitGoesOn(c)
  BY <1>9, <1>12 DEF Forget, coreVars
<1>13. ASSUME ~Pass, NEW roles \in RoleSets, StartWalk(roles) PROVE WaitGoesOn(c)
  BY <1>9, <1>13 DEF StartWalk, coreVars
<1>14. ASSUME ~Pass, NEW p \in Person, Change(p) PROVE WaitGoesOn(c)
  BY <1>9, <1>14 DEF Change, Enable, Relate, Changed
<1>15. ASSUME ~Pass, UNCHANGED directoryVars PROVE WaitGoesOn(c)
  BY <1>9, <1>15 DEF directoryVars, coreVars
<1> QED
  BY <1>5, <1>7, <1>8, <1>10, <1>11, <1>12, <1>13, <1>14, <1>15 DEF DirectoryNext

\* No step gives a request that is under way more time than it had, and time that passes is
\* taken from it: no answer, rejection, timeout or retry starts the wait again (request).
THEOREM WaitsRunOut == DirectorySpec => [][\A c \in Call : WaitGoesOn(c)]_directoryVars
<1>1. DecisionInv /\ WakeInv /\ [DirectoryNext]_directoryVars =>
        [\A c \in Call : WaitGoesOn(c)]_directoryVars
  BY WaitStep
<1> QED BY <1>1, DecisionInvariance, WakeInvariance, PTL DEF DirectorySpec

-----------------------------------------------------------------------------
(* Pages.                                                                   *)

\* Sets of people are finite sets of numbers.
LEMMA PeopleAreNumbers ==
  ASSUME NEW S, S \subseteq Person
  PROVE  IsFiniteSet(S) /\ \A p \in S : p \in Nat /\ p # 0
<1>1. Person \subseteq Nat \ {0} /\ IsFiniteSet(Person) BY CoreClientAssumption
<1>2. IsFiniteSet(S) BY <1>1, FS_Subset
<1> QED BY <1>1, <1>2

\* A finite set of people has a last one.
LEMMA LastOf ==
  ASSUME NEW T, T \subseteq Person, T # {}
  PROVE  Max(T) \in T /\ \A p \in T : p <= Max(T)
<1> DEFINE Above(x) == {y \in T : y > x}
           N == {Cardinality(Above(x)) : x \in T}
<1>0. \A x, y : y \in Above(x) <=> y \in T /\ y > x OBVIOUS
<1>1. IsFiniteSet(T) /\ \A y \in T : y \in Nat BY PeopleAreNumbers
<1>2. \A x \in T : /\ Above(x) \subseteq T /\ IsFiniteSet(Above(x))
                   /\ Cardinality(Above(x)) \in Nat
  BY <1>1, FS_Subset, FS_CardinalityType
<1>3. PICK n \in N : \A k \in N : n <= k
  <2>1. N \subseteq Nat /\ N # {} BY <1>2
  <2> HIDE DEF N
  <2> QED BY <2>1, LeastNumber
<1>4. PICK x \in T : n = Cardinality(Above(x)) OBVIOUS
<1> HIDE DEF Above
<1>5. ASSUME NEW y \in T, ~(y <= x) PROVE FALSE
  <2>1. y > x /\ y \in Nat /\ x \in Nat BY <1>1, <1>5
  <2>2. Above(y) \subseteq Above(x) /\ y \in Above(x) /\ y \notin Above(y)
    <3>1. ASSUME NEW z \in Above(y) PROVE z \in Above(x)
      <4>1. z \in T /\ z > y /\ z \in Nat BY <1>0, <1>1
      <4>2. z > x BY <2>1, <4>1
      <4> QED BY <1>0, <4>1, <4>2
    <3>2. y \in Above(x) BY <1>0, <2>1
    <3>3. ~(y > y) BY <2>1
    <3> QED BY <1>0, <3>1, <3>2, <3>3
  <2>3. Cardinality(Above(x)) <= Cardinality(Above(y)) BY <1>3, <1>4
  <2>4. Cardinality(Above(y)) <= Cardinality(Above(x)) BY <1>2, <2>2, FS_Subset
  <2>5. Cardinality(Above(y)) = Cardinality(Above(x)) BY <1>2, <2>3, <2>4
  <2>6. Above(y) = Above(x) BY <1>2, <2>2, <2>5, FS_Subset
  <2> QED BY <2>2, <2>6
<1>6. \A y \in T : x >= y BY <1>1, <1>5
<1>7. Max(T) \in T /\ \A y \in T : Max(T) >= y BY <1>6 DEF Max
<1> QED BY <1>1, <1>7

\* A page is the beginning of what it is a page of, and not empty for nothing.
LEMMA PageIsBeginning ==
  ASSUME NEW S, S \subseteq Person, NEW n \in Nat
  PROVE  /\ FirstOf(n, S) \subseteq S
         /\ \A q \in FirstOf(n, S), p \in S : p <= q => p \in FirstOf(n, S)
         /\ n # 0 /\ S # {} => FirstOf(n, S) # {}
         /\ IsFiniteSet(FirstOf(n, S)) /\ Cardinality(FirstOf(n, S)) \in Nat
         /\ Cardinality(FirstOf(n, S)) = n /\ n # 0 => FirstOf(n, S) # {}
<1> DEFINE Below(p) == {q \in S : q < p}
<1>0. \A p, q : q \in Below(p) <=> q \in S /\ q < p OBVIOUS
<1>1. IsFiniteSet(S) /\ \A p \in S : p \in Nat BY PeopleAreNumbers
<1>2. \A p \in S : Below(p) \subseteq S /\ IsFiniteSet(Below(p))
                   /\ Cardinality(Below(p)) \in Nat
  BY <1>1, FS_Subset, FS_CardinalityType
<1>3. FirstOf(n, S) = {p \in S : Cardinality(Below(p)) < n} BY DEF FirstOf
<1> HIDE DEF Below
<1>4. ASSUME NEW q \in FirstOf(n, S), NEW p \in S, p <= q PROVE p \in FirstOf(n, S)
  <2>0. q \in S /\ Cardinality(Below(q)) < n BY <1>3
  <2>1. Below(p) \subseteq Below(q) BY <1>0, <1>1, <1>4, <2>0
  <2>2. Cardinality(Below(p)) <= Cardinality(Below(q)) BY <1>2, <2>0, <2>1, FS_Subset
  <2>3. Cardinality(Below(p)) < n BY <1>2, <2>0, <2>2
  <2> QED BY <1>3, <2>3
<1>5. ASSUME n # 0, S # {} PROVE FirstOf(n, S) # {}
  <2>1. PICK p \in S : \A q \in S : p <= q BY <1>1, <1>5, LeastNumber
  <2>2. Below(p) = {} BY <1>0, <1>1, <2>1
  <2>3. Cardinality(Below(p)) = 0 BY <2>2, FS_EmptySet
  <2> QED BY <1>3, <1>5, <2>3
<1>6. FirstOf(n, S) \subseteq S BY <1>3
<1>7. IsFiniteSet(FirstOf(n, S)) /\ Cardinality(FirstOf(n, S)) \in Nat
  BY <1>1, <1>6, FS_Subset, FS_CardinalityType
<1>8. FirstOf(n, S) = {} => Cardinality(FirstOf(n, S)) = 0 BY FS_EmptySet
<1> QED BY <1>4, <1>5, <1>6, <1>7, <1>8

-----------------------------------------------------------------------------
(* Steps of one call, which leave the walk alone.                           *)

Still == UNCHANGED <<related, enabled, news, walk>>

\* What is true of the walk and of a page does not change unless Core or the walk does.
LEMMA SameWalk ==
  ASSUME Still, NEW r, NEW t
  PROVE  (WalkOK' <=> WalkOK) /\ (DiscoverOK(r, t)' <=> DiscoverOK(r, t))
<1>1. \A p : InScope(p)' <=> InScope(p) BY DEF InScope, Still
<1>2. \A cursor, p : Passed(cursor, p)' <=> Passed(cursor, p) BY <1>1 DEF Passed
<1>3. \A cursor, shown : Shows(cursor, shown)' <=> Shows(cursor, shown)
  BY <1>1, <1>2 DEF Shows, Still
<1>4. WalkOK' <=> WalkOK BY <1>3 DEF WalkOK, Still, Steady
<1>5. \A unread : ScopeIs(t, unread)' <=> ScopeIs(t, unread)
  BY <1>1 DEF ScopeIs, Still
<1>6. ReadsScope(r, t)' <=> ReadsScope(r, t) BY <1>5 DEF ReadsScope
<1>7. ReadsUsers(r, t)' <=> ReadsUsers(r, t) BY <1>5 DEF ReadsUsers
<1>8. ReadsPage(r, t)' <=> ReadsPage(r, t) BY <1>1 DEF ReadsPage, PageIsRight, Still
<1>9. WithPage(t)' = WithPage(t) BY DEF WithPage, Still
<1>10. BringsPage(t)' <=> BringsPage(t) BY <1>3, <1>9 DEF BringsPage, Onward, Still
<1>11. OnWalk(t)' <=> OnWalk(t) BY DEF OnWalk, Still
<1> QED BY <1>4, <1>6, <1>7, <1>8, <1>10, <1>11 DEF DiscoverOK

\* A step of one call keeps the invariant if what it makes of that call is sound.
LEMMA WalkLocal ==
  ASSUME DecisionInv, WalkInv, Still, NEW c \in Call, NEW r, NEW t, DiscoverOK(r, t),
         t.op = "discover" => task[c].op = "discover" \/ ~Walking,
         req' = [req EXCEPT ![c] = r], task' = [task EXCEPT ![c] = t]
  PROVE  WalkInv'
<1>1. \A d \in Call : \/ d # c /\ req'[d] = req[d] /\ task'[d] = task[d]
                      \/ d = c /\ req'[d] = r /\ task'[d] = t
  BY DEF DecisionInv
<1>2. WalkOK' BY SameWalk DEF WalkInv
<1>3. ASSUME NEW d \in Call PROVE DiscoverOK(req[d], task[d])'
  <2>1. PICK x, y : x = req'[d] /\ y = task'[d] OBVIOUS
  <2>2. DiscoverOK(x, y) BY <1>1, <2>1 DEF WalkInv
  <2>3. DiscoverOK(x, y)' BY <2>2, SameWalk
  <2> QED BY <2>1, <2>3
<1>4. ASSUME NEW d \in Call, NEW e \in Call,
             task'[d].op = "discover", task'[e].op = "discover"
      PROVE  d = e
  BY <1>1, <1>4 DEF WalkInv, Walking
<1> QED BY <1>2, <1>3, <1>4 DEF WalkInv

\* A handler of the walk asks the next question.
LEMMA WalkAwaits ==
  ASSUME DecisionInv, WalkInv, NEW c \in Call, NEW t, NEW ask, Await(c, t, ask),
         UNCHANGED walk, OnWalk(t), t.roles \cap MessagingRoles # {},
         task[c].op = "discover" \/ ~Walking,
         \A r : r.ask = ask /\ (ask.kind = "list" => r.st = "sent") =>
           ReadsScope(r, t) \/ ReadsUsers(r, t) \/ ReadsPage(r, t)
  PROVE  WalkInv'
<1>1. PICK r : r = Asking(t.at, ask) OBVIOUS
<1>2. r.ask = ask /\ (ask.kind = "list" => r.st = "sent")
  <2> DEFINE e == Cached(t.at, ask)
             q == [NoRequest EXCEPT !.ask = ask, !.at = t.at,
                                    !.ttl = IF Keeps(ask) THEN CacheTtl ELSE 0]
  <2>1. q.ask = ask /\ IsRequest(q) BY DEF NoRequest, IsRequest
  <2>2. r = IF Valid(e) THEN [q EXCEPT !.st = "got", !.who = e.who] ELSE Attempt(q, 0)
    BY <1>1 DEF Asking
  <2>3. ask.kind = "list" => ~Valid(e) BY DEF Cached, NothingCached, Valid
  <2> HIDE DEF e, q
  <2> QED BY <2>1, <2>2, <2>3 DEF Attempt, IsRequest
<1>3. DiscoverOK(r, t) BY <1>2 DEF DiscoverOK
<1>4. req' = [req EXCEPT ![c] = r] /\ task' = [task EXCEPT ![c] = t] /\ Still
  BY <1>1 DEF Await, Still
<1> QED BY <1>3, <1>4, WalkLocal

\* A handler of the walk returns a page, or that it has none.
LEMMA WalkReturns ==
  ASSUME DecisionInv, WalkInv, NEW c \in Call, NEW t, Return(c, t), IsTask(t),
         UNCHANGED walk, OnWalk(t), task[c].op = "discover" \/ ~Walking,
         t.roles \cap MessagingRoles # {} /\ t.result # "UNAVAILABLE" =>
           Shows(t.next, WithPage(t)) /\ Onward(t.cursor, t.next),
         t.roles \cap MessagingRoles = {} => t.next = End
  PROVE  WalkInv'
<1> DEFINE h == [t EXCEPT !.pc = "done", !.lists = {}, !.scope = {}]
<1>1. /\ h.pc = "done" /\ h.op = t.op /\ h.roles = t.roles /\ h.cursor = t.cursor
      /\ h.steady = t.steady /\ h.result = t.result /\ h.next = t.next /\ h.shown = t.shown
  BY DEF IsTask
<1>2. req' = [req EXCEPT ![c] = NoRequest] /\ task' = [task EXCEPT ![c] = h] /\ Still
  BY DEF Return, Still
<1> HIDE DEF h
<1>3. WithPage(h) = WithPage(t) BY <1>1 DEF WithPage
<1>4. BringsPage(h) BY <1>1, <1>3 DEF BringsPage
<1>5. DiscoverOK(NoRequest, h) BY <1>1, <1>4 DEF DiscoverOK, OnWalk
<1>6. PICK r : r = NoRequest OBVIOUS
<1> QED BY <1>2, <1>5, <1>6, WalkLocal

\* What a page adds to what was shown.
LEMMA WithPageIs ==
  ASSUME NEW t, walk.shown \in [Person -> Nat]
  PROVE  /\ WithPage(t) \in [Person -> Nat]
         /\ \A p \in Person :
              /\ p \in t.shown \/ walk.shown[p] > 0 => WithPage(t)[p] > 0
              /\ p \in t.shown /\ walk.shown[p] = 0 => WithPage(t)[p] = 1
              /\ p \notin t.shown => WithPage(t)[p] = walk.shown[p]
  BY DEF WithPage

\* What the first part of discover shows of the scope, if the walk is still in it: nobody of
\* the page was shown before, and everybody of the scope that is neither on the page nor after
\* it was.
LEMMA ScopePage ==
  ASSUME DecisionInv, WalkInv, walk.st = "on", walk.roles \cap MessagingRoles # {},
         walk.cursor.phase \in {"start", "S"},
         NEW users, users \subseteq Person,
         \A p \in walk.steady : p \in users <=> p \in enabled /\ InScope(p)
  PROVE  LET rest == After(walk.cursor.at, users)
             page == FirstOf(PageLimit, rest)
         IN
         /\ page \subseteq rest /\ rest \subseteq Person
         /\ \A p \in walk.steady \cap enabled :
              InScope(p) /\ (p \in page \/ p \notin rest) => p \in page \/ walk.shown[p] > 0
         /\ walk.cursor.phase = "S" /\ walk.cursor.at \in walk.steady =>
              \A p \in page : p > walk.cursor.at
         /\ walk.steady = Person =>
              \A p \in page : p \in enabled /\ InScope(p) /\ walk.shown[p] = 0
<1> DEFINE cur == walk.cursor
           rest == After(cur.at, users)
           page == FirstOf(PageLimit, rest)
<1>1. /\ Shows(cur, walk.shown) /\ walk.steady \subseteq Person
      /\ enabled \subseteq Person
  BY DEF WalkInv, WalkOK, Steady, DecisionInv, CoreTypeOK
<1>2. /\ cur.at \in Nat /\ (cur.phase = "start" => cur.at = 0)
      /\ \A p \in walk.steady \cap enabled : Passed(cur, p) => walk.shown[p] > 0
      /\ walk.steady = Person =>
           \A p \in Person : walk.shown[p] = IF p \in enabled /\ Passed(cur, p) THEN 1 ELSE 0
      /\ cur.phase = "S" /\ cur.at \in walk.steady => cur.at \in enabled /\ InScope(cur.at)
      /\ cur.phase = "S" => cur.at \in Person
  BY <1>1 DEF Shows
<1> HIDE DEF cur
<1>3. /\ rest \subseteq users
      /\ \A p \in users : p \notin rest => cur.at \in users /\ ~(p > cur.at)
      /\ cur.at \in users => \A p \in rest : p > cur.at
  BY DEF After
<1>4. \A p \in Person : p \in Nat /\ p # 0 BY PeopleAreNumbers
<1> HIDE DEF rest
<1>5. page \subseteq rest /\ rest \subseteq Person
  BY <1>3, PageIsBeginning, DirectoryAssumption
<1> HIDE DEF page
<1>6. ASSUME NEW p \in walk.steady \cap enabled, InScope(p), p \in page \/ p \notin rest
      PROVE  p \in page \/ walk.shown[p] > 0
  <2> SUFFICES ASSUME p \notin rest PROVE walk.shown[p] > 0 BY <1>6
  <2>1. p \in users /\ p \in Nat BY <1>1, <1>4, <1>6
  <2>2. cur.at \in users /\ p <= cur.at BY <1>2, <1>3, <2>1
  <2>3. cur.at # 0 BY <1>4, <2>2
  <2>4. cur.phase = "S" BY <1>2, <2>3 DEF cur
  <2> QED BY <1>2, <1>6, <2>2, <2>4 DEF Passed
<1>7. ASSUME cur.phase = "S", cur.at \in walk.steady, NEW p \in page PROVE p > cur.at
  <2>1. cur.at \in users BY <1>1, <1>2, <1>7
  <2> QED BY <1>3, <1>5, <1>7, <2>1
<1>8. ASSUME walk.steady = Person, NEW p \in page
      PROVE  p \in enabled /\ InScope(p) /\ walk.shown[p] = 0
  <2>1. p \in Person /\ p \in rest /\ p \in users BY <1>3, <1>5
  <2>2. p \in enabled /\ InScope(p) BY <1>8, <2>1
  <2>3. cur.phase = "S" => p > cur.at BY <1>2, <1>7, <1>8
  <2>4. ~Passed(cur, p)
    <3>1. CASE cur.phase = "start" BY <3>1 DEF Passed
    <3>2. CASE cur.phase = "S"
      <4>1. ~(p <= cur.at) BY <1>2, <1>4, <2>1, <2>3, <3>2
      <4> QED BY <3>2, <4>1 DEF Passed
    <3> QED BY <3>1, <3>2 DEF cur
  <2> QED BY <1>2, <1>8, <2>1, <2>2, <2>4
<1> QED BY <1>5, <1>6, <1>7, <1>8 DEF cur, rest, page

\* discover's page, when the scope and who of it may use messaging are known.
LEMMA WalkPageOf ==
  ASSUME DecisionInv, WalkInv, NEW c \in Call, NEW t, NEW users, PageOf(c, t, users),
         UNCHANGED walk, IsTask(t), OnWalk(t), t.roles \cap MessagingRoles # {},
         task[c].op = "discover" \/ ~Walking, users \subseteq Person,
         \A p \in walk.steady : /\ p \in t.scope <=> InScope(p)
                                /\ p \in users <=> p \in enabled /\ InScope(p)
  PROVE  WalkInv'
<1> DEFINE cur == walk.cursor
           rest == After(cur.at, users)
           page == FirstOf(PageLimit, rest)
           budget == PageLimit - Cardinality(page)
           inScope == cur.phase = "S" \/ (cur.phase = "start" /\ users # {})
           m == Max(page)
           g == [t EXCEPT !.pc = "list", !.shown = IF inScope THEN page ELSE {}]
           h == [t EXCEPT !.shown = page, !.next = Scoped(m)]
           k == [t EXCEPT !.shown = page, !.next = FromCore(0)]
<1>1. /\ Shows(cur, walk.shown) /\ cur # End /\ walk.shown \in [Person -> Nat]
      /\ walk.steady \subseteq Person /\ enabled \subseteq Person
      /\ walk.st = "on" /\ walk.roles = t.roles /\ t.cursor = cur
      /\ \A p \in Person : p \in Nat /\ p # 0
  BY PeopleAreNumbers DEF WalkInv, WalkOK, Steady, OnWalk, DecisionInv, CoreTypeOK
<1>2. /\ cur.at \in Nat /\ cur.phase \in {"start", "S", "C"}
      /\ \A p \in walk.steady \cap enabled : Passed(cur, p) => walk.shown[p] > 0
      /\ walk.steady = Person =>
           \A p \in Person : walk.shown[p] = IF p \in enabled /\ Passed(cur, p) THEN 1 ELSE 0
      /\ cur.phase = "S" => cur.at \in Person
  BY <1>1 DEF Shows
<1>3. inScope =>
        /\ page \subseteq rest /\ rest \subseteq Person /\ cur.phase \in {"start", "S"}
        /\ \A p \in walk.steady \cap enabled :
             InScope(p) /\ (p \in page \/ p \notin rest) => p \in page \/ walk.shown[p] > 0
        /\ cur.phase = "S" /\ cur.at \in walk.steady => \A p \in page : p > cur.at
        /\ walk.steady = Person =>
             \A p \in page : p \in enabled /\ InScope(p) /\ walk.shown[p] = 0
  BY <1>1, ScopePage
<1>4. \/ inScope /\ page # rest /\ Return(c, h)
      \/ inScope /\ page = rest /\ Return(c, k)
      \/ inScope /\ page = rest /\ budget > 0 /\ Await(c, g, Page(0, budget))
      \/ ~inScope /\ Await(c, g, Page(CoreCursor(cur), PageLimit))
  BY <1>1 DEF PageOf
<1>5. /\ IsTask(h) /\ h.shown = page /\ h.next = Scoped(m) /\ OnWalk(h) /\ h.roles = t.roles
      /\ IsTask(k) /\ k.shown = page /\ k.next = FromCore(0) /\ OnWalk(k) /\ k.roles = t.roles
      /\ h.cursor = cur /\ k.cursor = cur
      /\ g.shown = (IF inScope THEN page ELSE {}) /\ g.pc = "list" /\ OnWalk(g)
      /\ g.roles = t.roles /\ g.scope = t.scope /\ g.cursor = cur
  BY <1>1 DEF IsTask, OnWalk
<1> HIDE DEF g, h, k
<1>6. /\ rest \subseteq users /\ rest \subseteq Person
      /\ \A q \in page, p \in rest : p <= q => p \in page
      /\ rest # {} => page # {}
      /\ budget \in Int
  <2>1. rest \subseteq users BY DEF After
  <2> HIDE DEF rest
  <2>2. PageLimit \in Nat /\ PageLimit # 0 BY DirectoryAssumption
  <2> QED BY <2>1, <2>2, PageIsBeginning
<1>7. \A p \in walk.steady \cap enabled : InScope(p) => p \in users OBVIOUS
<1> HIDE DEF rest, page, budget
<1>8. CASE inScope /\ page # rest /\ Return(c, h)
  <2>1. page # {} /\ page \subseteq Person BY <1>3, <1>6, <1>8
  <2>2. m \in page /\ m \in Nat /\ \A p \in page : p <= m BY <1>1, <2>1, LastOf
  <2> HIDE DEF m
  <2>3. h.next.phase = "S" /\ h.next.at = m BY <1>5 DEF Scoped
  <2>4. \A p : Passed(h.next, p) <=> InScope(p) /\ p <= m BY <2>3 DEF Passed
  <2>5. ASSUME NEW p \in walk.steady \cap enabled, InScope(p), p <= m
        PROVE  p \in page \/ walk.shown[p] > 0
    <3>1. p \in rest => p \in page BY <1>6, <2>2, <2>5
    <3> QED BY <1>3, <1>8, <2>5, <3>1
  <2>6. \A p \in walk.steady \cap enabled : Passed(h.next, p) => WithPage(h)[p] > 0
    BY <1>1, <1>5, <2>4, <2>5, WithPageIs
  <2>7. ASSUME walk.steady = Person, NEW p \in Person
        PROVE  WithPage(h)[p] = IF p \in enabled /\ Passed(h.next, p) THEN 1 ELSE 0
    <3>1. CASE p \in page
      <4>1. p \in enabled /\ InScope(p) /\ walk.shown[p] = 0 BY <1>3, <1>8, <2>7, <3>1
      <4>2. p <= m BY <2>2, <3>1
      <4> QED BY <1>1, <1>5, <2>4, <3>1, <4>1, <4>2, WithPageIs
    <3>2. CASE p \notin page
      <4>1. WithPage(h)[p] = walk.shown[p] BY <1>1, <1>5, <3>2, WithPageIs
      <4>2. walk.shown[p] = IF p \in enabled /\ Passed(cur, p) THEN 1 ELSE 0
        BY <1>2, <2>7
      <4>3. p \in enabled /\ Passed(h.next, p) => walk.shown[p] > 0
        BY <2>4, <2>5, <2>7, <3>2
      <4>4. p \in enabled /\ Passed(cur, p) => Passed(h.next, p)
        <5>1. Passed(cur, p) => cur.phase = "S" /\ InScope(p) /\ p <= cur.at
          BY <1>3, <1>8 DEF Passed
        <5>2. cur.phase = "S" => m > cur.at BY <1>2, <1>3, <1>8, <2>2, <2>7
        <5>3. p \in Nat BY <1>1
        <5> QED BY <1>2, <2>2, <2>4, <5>1, <5>2, <5>3
      <4> QED BY <4>1, <4>2, <4>3, <4>4
    <3> QED BY <3>1, <3>2
  <2>8. m \in Person /\ (m \in walk.steady => m \in enabled /\ InScope(m))
    BY <1>3, <1>6, <1>8, <2>1, <2>2
  <2>9. Shows(h.next, WithPage(h)) BY <2>2, <2>3, <2>6, <2>7, <2>8 DEF Shows
  <2>10. Onward(cur, h.next) BY <1>3, <1>8, <2>2, <2>3 DEF Onward, Later
  <2> QED BY <1>1, <1>5, <1>8, <2>9, <2>10, WalkReturns
<1>9. CASE inScope /\ page = rest /\ Return(c, k)
  <2>1. k.next.phase = "C" /\ k.next.at = 0 BY <1>5 DEF FromCore
  <2>2. \A p \in Person : Passed(k.next, p) <=> InScope(p) BY <1>1, <2>1 DEF Passed
  <2>3. \A p \in walk.steady \cap enabled : InScope(p) => p \in page \/ walk.shown[p] > 0
    BY <1>3, <1>9
  <2>4. \A p \in walk.steady \cap enabled : Passed(k.next, p) => WithPage(k)[p] > 0
    BY <1>1, <1>5, <2>2, <2>3, WithPageIs
  <2>5. ASSUME walk.steady = Person, NEW p \in Person
        PROVE  WithPage(k)[p] = IF p \in enabled /\ Passed(k.next, p) THEN 1 ELSE 0
    <3>1. CASE p \in page
      <4>1. p \in enabled /\ InScope(p) /\ walk.shown[p] = 0 BY <1>3, <1>9, <2>5, <3>1
      <4> QED BY <1>1, <1>5, <2>2, <3>1, <4>1, WithPageIs
    <3>2. CASE p \notin page
      <4>1. WithPage(k)[p] = walk.shown[p] BY <1>1, <1>5, <3>2, WithPageIs
      <4>2. walk.shown[p] = IF p \in enabled /\ Passed(cur, p) THEN 1 ELSE 0
        BY <1>2, <2>5
      <4>3. p \in enabled /\ InScope(p) => walk.shown[p] > 0 BY <2>3, <2>5, <3>2
      <4>4. Passed(cur, p) => InScope(p) BY <1>3, <1>9 DEF Passed
      <4> QED BY <2>2, <4>1, <4>2, <4>3, <4>4
    <3> QED BY <3>1, <3>2
  <2>6. Shows(k.next, WithPage(k)) BY <2>1, <2>4, <2>5 DEF Shows
  <2>7. Onward(cur, k.next) BY <1>3, <1>9, <2>1 DEF Onward, Later
  <2> QED BY <1>1, <1>5, <1>9, <2>6, <2>7, WalkReturns
<1>10. CASE inScope /\ page = rest /\ budget > 0 /\ Await(c, g, Page(0, budget))
  <2>1. CoreCursor(cur) = 0 BY <1>3, <1>10 DEF CoreCursor
  <2>2. budget \in Nat \ {0} BY <1>6, <1>10
  <2>3. \A p \in walk.steady \cap enabled : InScope(p) => p \in page \/ walk.shown[p] > 0
    BY <1>3, <1>10
  <2>4. ASSUME NEW r, r.ask = Page(0, budget), r.st = "sent" PROVE ReadsPage(r, g)
    <3>1. r.ask.kind = "list" /\ r.ask.limit = budget /\ r.ask.after = 0
      BY <2>4 DEF Page
    <3>2. g.shown = page BY <1>5, <1>10
    <3>3. \A p \in walk.steady : p \in g.scope <=> InScope(p) BY <1>5
    <3> QED BY <1>3, <1>5, <1>10, <2>1, <2>2, <2>3, <2>4, <3>1, <3>2, <3>3 DEF ReadsPage
  <2>5. Page(0, budget).kind = "list" BY DEF Page
  <2> QED BY <1>5, <1>10, <2>4, <2>5, WalkAwaits
<1>11. CASE ~inScope /\ Await(c, g, Page(CoreCursor(cur), PageLimit))
  <2>1. ASSUME NEW p \in walk.steady \cap enabled, InScope(p) PROVE walk.shown[p] > 0
    <3>1. cur.phase = "C" BY <1>2, <1>7, <1>11, <2>1
    <3> QED BY <1>2, <2>1, <3>1 DEF Passed
  <2>2. ASSUME NEW r, r.ask = Page(CoreCursor(cur), PageLimit), r.st = "sent"
        PROVE  ReadsPage(r, g)
    <3>1. r.ask.kind = "list" /\ r.ask.limit = PageLimit /\ r.ask.after = CoreCursor(cur)
      BY <2>2 DEF Page
    <3>2. g.shown = {} BY <1>5, <1>11
    <3>3. \A p \in walk.steady : p \in g.scope <=> InScope(p) BY <1>5
    <3>4. PageLimit \in Nat \ {0} BY DirectoryAssumption
    <3> QED BY <1>5, <2>1, <2>2, <3>1, <3>2, <3>3, <3>4 DEF ReadsPage
  <2>3. Page(CoreCursor(cur), PageLimit).kind = "list" BY DEF Page
  <2> QED BY <1>5, <1>11, <2>2, <2>3, WalkAwaits
<1> QED BY <1>4, <1>8, <1>9, <1>10, <1>11

\* discover reads the lists of the actor's roles one after another, and then its page.
LEMMA WalkScope ==
  ASSUME DecisionInv, WalkInv, NEW c \in Call, NEW t, GetDirectScope(c, t),
         UNCHANGED walk, IsTask(t), OnWalk(t), t.roles \cap MessagingRoles # {},
         t.roles \cap Unbounded = {}, t.lists \subseteq t.roles, t.shown = {},
         ScopeIs(t, t.lists), task[c].op = "discover" \/ ~Walking
  PROVE  WalkInv'
<1>1. t.op = "discover" BY DEF OnWalk
<1>2. CASE t.lists = {}
  <2>1. ReadProjections(c, t) BY <1>1, <1>2 DEF GetDirectScope, HasScope
  <2>2. ScopeIs(t, {}) BY <1>2
  <2>3. CASE t.scope = {}
    <3>1. PageOf(c, t, {}) BY <2>1, <2>3 DEF ReadProjections
    <3>2. \A p \in walk.steady : /\ p \in t.scope <=> InScope(p)
                                 /\ p \in {} <=> p \in enabled /\ InScope(p)
      BY <2>2, <2>3 DEF ScopeIs, InScope, OnWalk
    <3> QED BY <3>1, <3>2, WalkPageOf
  <2>4. CASE t.scope # {}
    <3> DEFINE h == [t EXCEPT !.pc = "batch"]
    <3>1. Await(c, h, Batch(t.scope)) BY <2>1, <2>4 DEF ReadProjections
    <3>2. /\ h.pc = "batch" /\ h.op = t.op /\ h.roles = t.roles /\ h.cursor = t.cursor
          /\ h.steady = t.steady /\ h.scope = t.scope /\ h.shown = t.shown
      BY DEF IsTask
    <3> HIDE DEF h
    <3>3. OnWalk(h) /\ ScopeIs(h, {}) BY <2>2, <3>2 DEF OnWalk, ScopeIs
    <3>4. \A r : r.ask = Batch(t.scope) => ReadsUsers(r, h) BY <3>2, <3>3 DEF ReadsUsers
    <3> QED BY <3>1, <3>2, <3>3, <3>4, WalkAwaits
  <2> QED BY <2>3, <2>4
<1>3. CASE t.lists # {}
  <2>1. PICK r \in t.lists :
          Await(c, [t EXCEPT !.pc = "scope", !.lists = @ \ {r}], Relationships(r))
    BY <1>3 DEF GetDirectScope
  <2> DEFINE h == [t EXCEPT !.pc = "scope", !.lists = @ \ {r}]
  <2>2. /\ h.pc = "scope" /\ h.op = t.op /\ h.roles = t.roles /\ h.cursor = t.cursor
        /\ h.steady = t.steady /\ h.scope = t.scope /\ h.shown = t.shown
        /\ h.lists = t.lists \ {r}
    BY DEF IsTask
  <2>3. Await(c, h, Relationships(r)) BY <2>1
  <2> HIDE DEF h
  <2>4. Relationships(r).kind = "relationships" /\ Relationships(r).role = r
    BY DEF Relationships
  <2>5. h.lists \cup {r} = t.lists BY <2>2
  <2>6. OnWalk(h) /\ ScopeIs(h, h.lists \cup {r}) BY <2>2, <2>5 DEF OnWalk, ScopeIs
  <2>7. \A q : q.ask = Relationships(r) => ReadsScope(q, h)
    BY <2>2, <2>4, <2>6 DEF ReadsScope
  <2> QED BY <2>2, <2>3, <2>6, <2>7, WalkAwaits
<1> QED BY <1>2, <1>3

-----------------------------------------------------------------------------
(* The steps of a handler.                                                  *)

\* What a handler of the walk waits for.
LEMMA WalkCall ==
  ASSUME DecisionInv, WalkInv, NEW c \in Call, task[c].op = "discover"
  PROVE  LET r == req[c]
             t == task[c]
         IN
         /\ CallOK(r, t) /\ RequestOK(r) /\ IsTask(t)
         /\ OnWalk(t) /\ walk.steady \subseteq t.steady /\ walk.steady \subseteq Person
         /\ t.pc # "done" => t.roles \cap MessagingRoles # {}
         /\ t.pc = "scope" => ReadsScope(r, t)
         /\ t.pc = "batch" => ReadsUsers(r, t)
         /\ t.pc = "list" => ReadsPage(r, t)
         /\ t.pc = "done" => BringsPage(t)
<1>1. PICK r, t : r = req[c] /\ t = task[c] OBVIOUS
<1>2. CallOK(r, t) /\ RequestOK(r) /\ IsTask(t)
  BY <1>1, CallFacts DEF TaskOK
<1>3. DiscoverOK(r, t) /\ t.op = "discover" BY <1>1 DEF WalkInv
<1>4. walk.steady \subseteq Person BY DEF WalkInv, WalkOK, Steady
<1>5. OnWalk(t) /\ walk.steady \subseteq t.steady /\ (t.pc # "done" => t.roles \cap MessagingRoles # {})
  BY <1>3 DEF DiscoverOK, OnWalk
<1>6. ReadsScope(r, t) \/ ReadsUsers(r, t) \/ ReadsPage(r, t) \/ BringsPage(t)
  BY <1>3 DEF DiscoverOK
<1>7. /\ ReadsScope(r, t) => t.pc = "scope"
      /\ ReadsUsers(r, t) => t.pc = "batch"
      /\ ReadsPage(r, t) => t.pc = "list"
      /\ BringsPage(t) => t.pc = "done"
  BY DEF ReadsScope, ReadsUsers, ReadsPage, BringsPage
<1> QED BY <1>1, <1>2, <1>4, <1>5, <1>6, <1>7

\* A step of a handler that is none of the walk.
LEMMA OtherHandler ==
  ASSUME DecisionInv, WalkInv, NEW c \in Call, NEW t, UNCHANGED walk,
         IsTask(t), t.op # "discover",
         Return(c, t) \/ \E ask : Await(c, t, ask)
  PROVE  WalkInv'
<1>1. [t EXCEPT !.pc = "done", !.lists = {}, !.scope = {}].op # "discover"
  BY DEF IsTask
<1>2. \E r, u : /\ req' = [req EXCEPT ![c] = r] /\ task' = [task EXCEPT ![c] = u]
                /\ u.op # "discover" /\ Still
  BY <1>1 DEF Return, Await, Still
<1>3. PICK r, u : /\ req' = [req EXCEPT ![c] = r] /\ task' = [task EXCEPT ![c] = u]
                  /\ u.op # "discover" /\ Still
  BY <1>2
<1>4. DiscoverOK(r, u) BY <1>3 DEF DiscoverOK
<1> QED BY <1>3, <1>4, WalkLocal

\* A decision ends a handler that is none of the walk, or nothing does.
LEMMA OtherDecides ==
  ASSUME DecisionInv, WalkInv, NEW c \in Call, NEW t, UNCHANGED walk,
         IsTask(t), t.op # "discover", NEW d, Decide(c, t, d)
  PROVE  WalkInv'
<1> DEFINE h == [t EXCEPT !.result = d]
<1>1. IsTask(h) /\ h.op = t.op BY DEF IsTask
<1>2. Return(c, h) BY DEF Decide
<1> HIDE DEF h
<1> QED BY <1>1, <1>2, OtherHandler

\* authorizeMessaging reads a list, or decides.
LEMMA OtherScope ==
  ASSUME DecisionInv, WalkInv, NEW c \in Call, NEW t, UNCHANGED walk,
         IsTask(t), t.op = "authorize", GetDirectScope(c, t)
  PROVE  WalkInv'
<1>1. CASE t.lists = {}
  <2>1. \E d : Decide(c, t, d) BY <1>1 DEF GetDirectScope, HasScope
  <2> QED BY <2>1, OtherDecides
<1>2. CASE t.lists # {}
  <2>1. PICK r \in t.lists :
          Await(c, [t EXCEPT !.pc = "scope", !.lists = @ \ {r}], Relationships(r))
    BY <1>2 DEF GetDirectScope
  <2> DEFINE h == [t EXCEPT !.pc = "scope", !.lists = @ \ {r}]
  <2>2. IsTask(h) /\ h.op = t.op BY DEF IsTask
  <2>3. Await(c, h, Relationships(r)) BY <2>1
  <2> HIDE DEF h
  <2> QED BY <2>2, <2>3, OtherHandler
<1> QED BY <1>1, <1>2

\* A list that discover has read says of the steady people who of them is in the scope.
LEMMA WalkRelationshipsRead ==
  ASSUME DecisionInv, WalkInv, NEW c \in Call, RelationshipsRead(c)
  PROVE  WalkInv'
<1> DEFINE r == req[c]
           t == task[c]
           u == [t EXCEPT !.scope = @ \cup r.who]
<1>1. /\ CallOK(r, t) /\ RequestOK(r) /\ Works(t)
      /\ t.pc = "scope" /\ r.st = "got"
  BY CallFacts DEF RelationshipsRead, HasRead, Answered
<1>2. GetDirectScope(c, u) /\ UNCHANGED walk BY DEF RelationshipsRead
<1>3. t.op = "discover" =>
        OnWalk(t) /\ t.roles \cap MessagingRoles # {} /\ ReadsScope(r, t)
    /\ walk.steady \subseteq t.steady /\ walk.steady \subseteq Person
  BY <1>1, WalkCall
<1>4. t.op = "discover" => task[c].op = "discover" OBVIOUS
<1> HIDE DEF r, t
<1>5. /\ IsTask(u) /\ u.op = t.op /\ u.roles = t.roles /\ u.cursor = t.cursor
      /\ u.lists = t.lists /\ u.scope = t.scope \cup r.who /\ u.steady = t.steady
      /\ u.shown = t.shown
  BY <1>1 DEF Works, TaskOK, IsTask
<1> HIDE DEF u
<1>6. CASE t.op = "discover"
  <2>1. /\ r.ask.kind = "relationships" /\ r.ask.role \in t.roles \cap Role
        /\ t.roles \cap Unbounded = {} /\ t.shown = {} /\ t.lists \subseteq t.roles
        /\ ScopeIs(t, t.lists \cup {r.ask.role}) /\ t.roles = walk.roles
    BY <1>1, <1>3, <1>6 DEF ReadsScope, RequestOK, IsQuestion, OnWalk
  <2>2. \A p \in walk.steady : p \in r.who <=> p \in related[r.ask.role]
    <3>1. \A p \in walk.steady : p \in Person /\ p \notin Wrong(r.ask, r.who)
      BY <1>1, <1>3, <1>6 DEF CallOK
    <3> QED BY <2>1, <3>1 DEF Wrong
  <2>3. ScopeIs(u, u.lists) BY <1>5, <2>1, <2>2 DEF ScopeIs, InScope
  <2>4. OnWalk(u) BY <1>3, <1>5, <1>6 DEF OnWalk
  <2> QED BY <1>2, <1>3, <1>4, <1>5, <1>6, <2>1, <2>3, <2>4, WalkScope
<1>7. CASE t.op = "authorize" BY <1>2, <1>5, <1>7, OtherScope
<1> QED BY <1>1, <1>6, <1>7 DEF Works, TaskOK

\* The batch says which of the scope may use messaging.
LEMMA WalkProjectionsRead ==
  ASSUME DecisionInv, WalkInv, NEW c \in Call, ProjectionsRead(c)
  PROVE  WalkInv'
<1> DEFINE r == req[c]
           t == task[c]
<1>1. t.pc = "batch" /\ r.st = "got" /\ PageOf(c, t, r.who) /\ UNCHANGED walk
  BY DEF ProjectionsRead, HasRead, Answered
<1>2. t.op = "discover" BY <1>1, OfDiscover
<1>3. /\ CallOK(r, t) /\ RequestOK(r) /\ IsTask(t)
      /\ OnWalk(t) /\ walk.steady \subseteq t.steady /\ walk.steady \subseteq Person
      /\ t.roles \cap MessagingRoles # {} /\ ReadsUsers(r, t)
  BY <1>1, <1>2, WalkCall
<1>4. task[c].op = "discover" BY <1>2
<1> HIDE DEF r, t
<1>5. r.ask.kind = "batch" /\ r.ask.ids = t.scope /\ ScopeIs(t, {})
  BY <1>3 DEF ReadsUsers, Batch
<1>6. \A p \in walk.steady : p \in t.scope <=> InScope(p)
  BY <1>3, <1>5 DEF ScopeIs, InScope, OnWalk, ReadsUsers
<1>7. r.who \subseteq t.scope /\ r.who \subseteq Person BY <1>3, <1>5 DEF RequestOK
<1>8. \A p \in walk.steady : p \in t.scope => (p \in r.who <=> p \in enabled)
  <2>1. \A p \in walk.steady : p \in Person /\ p \notin Wrong(r.ask, r.who)
    BY <1>1, <1>3 DEF CallOK
  <2> QED BY <1>5, <2>1 DEF Wrong
<1> QED BY <1>1, <1>3, <1>4, <1>6, <1>7, <1>8, WalkPageOf

\* A page of Core's list adds everybody up to its cursor who is not of the scope.
LEMMA WalkPageRead ==
  ASSUME DecisionInv, WalkInv, NEW c \in Call, PageRead(c)
  PROVE  WalkInv'
<1> DEFINE r == req[c]
           t == task[c]
           shown == t.shown \cup (r.who \ t.scope)
           n == NextAfter(r.next, shown)
           h == [t EXCEPT !.shown = shown, !.next = n]
           cur == walk.cursor
<1>1. t.pc = "list" /\ r.st = "got" /\ Return(c, h) /\ UNCHANGED walk
  BY DEF PageRead, HasRead, Answered
<1>2. t.op = "discover" BY <1>1, OfDiscover
<1>3. /\ CallOK(r, t) /\ RequestOK(r) /\ IsTask(t)
      /\ OnWalk(t) /\ walk.steady \subseteq t.steady /\ walk.steady \subseteq Person
      /\ t.roles \cap MessagingRoles # {} /\ ReadsPage(r, t)
  BY <1>1, <1>2, WalkCall
<1>4. task[c].op = "discover" BY <1>2
<1> HIDE DEF r, t
<1>5. /\ IsTask(h) /\ h.op = t.op /\ h.roles = t.roles /\ h.cursor = t.cursor
      /\ h.steady = t.steady /\ h.shown = shown /\ h.next = n /\ h.result = t.result
  BY <1>3 DEF IsTask
<1> HIDE DEF h
<1>6. /\ Shows(cur, walk.shown) /\ cur # End /\ walk.shown \in [Person -> Nat]
      /\ enabled \subseteq Person /\ t.cursor = cur
      /\ \A p \in Person : p \in Nat /\ p # 0
  BY <1>3, PeopleAreNumbers DEF WalkInv, WalkOK, OnWalk, DecisionInv, CoreTypeOK
<1>7. /\ cur.at \in Nat /\ cur.phase \in {"start", "S", "C"}
      /\ \A p \in walk.steady \cap enabled : Passed(cur, p) => walk.shown[p] > 0
      /\ walk.steady = Person =>
           \A p \in Person : walk.shown[p] = IF p \in enabled /\ Passed(cur, p) THEN 1 ELSE 0
  BY <1>6 DEF Shows
<1>8. PICK a \in Nat : a = CoreCursor(cur) /\ a = r.ask.after
  BY <1>3, <1>6, <1>7 DEF ReadsPage, CoreCursor
<1>9. /\ \A p \in walk.steady : p \in t.scope <=> InScope(p)
      /\ \A p \in walk.steady \cap enabled : InScope(p) => p \in t.shown \/ walk.shown[p] > 0
      /\ walk.steady = Person =>
           \A p \in t.shown : p \in enabled /\ InScope(p) /\ walk.shown[p] = 0
      /\ t.shown \subseteq Person
      /\ r.next \in Nat /\ (r.next # 0 => r.next \in Person /\ r.next > a)
      /\ \A p \in walk.steady : p \in r.who <=> /\ p \in enabled /\ p > a
                                                /\ r.next = 0 \/ p <= r.next
  BY <1>1, <1>3, <1>8 DEF ReadsPage, PageIsRight
<1>10. /\ n.phase \in {"C", "end"} /\ n.at \in Nat /\ (n.phase = "end" => n = End)
       /\ n.at \in Person \cup {0} /\ (n.phase = "C" => n.at > a)
       /\ \A p \in Person : Passed(n, p) <=> r.next = 0 \/ InScope(p) \/ p <= r.next
  BY <1>9 DEF NextAfter, End, FromCore, Passed
<1>11. \A p \in Person : ~InScope(p) => (Passed(cur, p) <=> p <= a)
  <2>1. cur.phase = "C" => a = cur.at BY <1>8 DEF CoreCursor
  <2>2. cur.phase # "C" => a = 0 BY <1>8 DEF CoreCursor
  <2> HIDE DEF cur
  <2>3. ASSUME NEW p \in Person, ~InScope(p) PROVE Passed(cur, p) <=> p <= a
    <3>1. p \in Nat /\ ~(p <= 0) BY <1>6
    <3>2. CASE cur.phase = "start" BY <2>2, <3>1, <3>2 DEF Passed
    <3>3. CASE cur.phase = "S" BY <2>2, <2>3, <3>1, <3>3 DEF Passed
    <3>4. CASE cur.phase = "C" BY <2>1, <2>3, <3>4 DEF Passed
    <3> QED BY <1>7, <3>2, <3>3, <3>4
  <2> QED BY <2>3
<1>12. \A p : p \in shown <=> p \in t.shown \/ (p \in r.who /\ p \notin t.scope) OBVIOUS
<1> HIDE DEF n, shown, cur
<1>13. ASSUME NEW p \in walk.steady \cap enabled, Passed(n, p)
       PROVE  p \in shown \/ walk.shown[p] > 0
  <2>1. p \in Person /\ p \in Nat BY <1>3, <1>6
  <2>2. CASE InScope(p) BY <1>9, <1>12, <2>2
  <2>3. CASE ~InScope(p) /\ p <= a BY <1>7, <1>11, <2>1, <2>3
  <2>4. CASE ~InScope(p) /\ ~(p <= a)
    <3>1. p > a /\ (r.next = 0 \/ p <= r.next) BY <1>10, <1>13, <2>1, <2>4
    <3> QED BY <1>9, <1>12, <2>4, <3>1
  <2> QED BY <2>2, <2>3, <2>4
<1>14. \A p \in walk.steady \cap enabled : Passed(n, p) => WithPage(h)[p] > 0
  BY <1>3, <1>5, <1>6, <1>13, WithPageIs
<1>15. ASSUME walk.steady = Person, NEW p \in Person
       PROVE  WithPage(h)[p] = IF p \in enabled /\ Passed(n, p) THEN 1 ELSE 0
  <2>0. walk.shown[p] = IF p \in enabled /\ Passed(cur, p) THEN 1 ELSE 0 BY <1>7, <1>15
  <2>1. CASE p \in shown
    <3>1. p \in enabled /\ walk.shown[p] = 0 /\ Passed(n, p)
      <4>1. CASE p \in t.shown BY <1>9, <1>10, <1>15, <4>1
      <4>2. CASE p \notin t.shown
        <5>1. p \in r.who /\ ~InScope(p) BY <1>9, <1>12, <1>15, <2>1, <4>2
        <5>2. p \in enabled /\ p > a /\ (r.next = 0 \/ p <= r.next)
          BY <1>9, <1>15, <5>1
        <5>3. ~(p <= a) BY <1>6, <5>2
        <5> QED BY <1>10, <1>11, <2>0, <5>1, <5>2, <5>3
      <4> QED BY <4>1, <4>2
    <3> QED BY <1>5, <1>6, <2>1, <3>1, WithPageIs
  <2>2. CASE p \notin shown
    <3>1. WithPage(h)[p] = walk.shown[p] BY <1>5, <1>6, <2>2, WithPageIs
    <3>2. p \in enabled /\ Passed(n, p) => walk.shown[p] > 0
      BY <1>13, <1>15, <2>2
    <3>3. p \in enabled /\ Passed(cur, p) => Passed(n, p)
      <4>1. p \in Nat BY <1>6
      <4> QED BY <1>9, <1>10, <1>11, <4>1
    <3> QED BY <2>0, <3>1, <3>2, <3>3
  <2> QED BY <2>1, <2>2
<1>16. Shows(n, WithPage(h)) BY <1>10, <1>14, <1>15 DEF Shows
<1>17. OnWalk(h) BY <1>3, <1>5 DEF OnWalk
<1>18. Onward(cur, n)
  <2>1. cur.phase = "C" => a = cur.at BY <1>8 DEF CoreCursor
  <2> QED BY <1>7, <1>10, <2>1 DEF Onward, Later
<1> QED BY <1>1, <1>3, <1>4, <1>5, <1>6, <1>16, <1>17, <1>18, WalkReturns

\* A handler whose question failed shows nothing.
LEMMA WalkUnavailable ==
  ASSUME DecisionInv, WalkInv, NEW c \in Call, Unavailable(c)
  PROVE  WalkInv'
<1> DEFINE t == task[c]
           h == [t EXCEPT !.result = "UNAVAILABLE"]
<1>1. Decide(c, t, "UNAVAILABLE") /\ Return(c, h) /\ UNCHANGED walk
  BY DEF Unavailable, Decide
<1>2. IsTask(t) /\ t.pc # "done" BY CallFacts DEF TaskOK, CallOK, Unavailable, Refused
<1>3. CASE t.op = "discover"
  <2>1. OnWalk(t) /\ t.roles \cap MessagingRoles # {} BY <1>2, <1>3, WalkCall
  <2>2. task[c].op = "discover" BY <1>3
  <2> HIDE DEF t
  <2>3. /\ IsTask(h) /\ h.op = t.op /\ h.roles = t.roles /\ h.cursor = t.cursor
        /\ h.steady = t.steady /\ h.result = "UNAVAILABLE"
    BY <1>2 DEF IsTask
  <2> HIDE DEF h
  <2>4. OnWalk(h) BY <2>1, <2>3 DEF OnWalk
  <2> QED BY <1>1, <2>1, <2>2, <2>3, <2>4, WalkReturns
<1>4. CASE t.op # "discover" BY <1>1, <1>2, <1>4, OtherDecides
<1> QED BY <1>3, <1>4

\* authorizeMessaging has nothing to do with the walk.
LEMMA WalkAuthorizes ==
  ASSUME DecisionInv, WalkInv, NEW c \in Call,
         \/ UserRead(c)
         \/ \E i \in Instance, roles \in RoleSets, p \in Person : Authorize(c, i, roles, p)
  PROVE  WalkInv'
<1>1. CASE UserRead(c)
  <2> DEFINE t == task[c]
  <2>1. CallOK(req[c], t) /\ Works(t) /\ t.pc = "user" BY <1>1, CallFacts DEF UserRead, HasRead
  <2>2. t.op = "authorize" /\ IsTask(t) BY <2>1 DEF Works, TaskOK
  <2>3. (\E d : Decide(c, t, d)) \/ GetDirectScope(c, t) BY <1>1 DEF UserRead
  <2>4. UNCHANGED walk BY <1>1 DEF UserRead
  <2> HIDE DEF t
  <2> QED BY <2>2, <2>3, <2>4, OtherDecides, OtherScope
<1>2. ASSUME NEW i \in Instance, NEW roles \in RoleSets, NEW p \in Person,
             Authorize(c, i, roles, p)
      PROVE  WalkInv'
  <2> DEFINE n == NewTask("authorize", i, roles)
             t == [n EXCEPT !.target = p]
             u == [t EXCEPT !.pc = "user"]
  <2>1. Works(n) /\ n.op = "authorize" BY Begun
  <2>2. Decide(c, t, "DENY") \/ Await(c, u, User(p)) BY <1>2 DEF Authorize
  <2>3. UNCHANGED walk BY <1>2 DEF Authorize
  <2> HIDE DEF n
  <2>4. IsTask(t) /\ t.op = "authorize" BY <2>1 DEF Works, TaskOK, IsTask
  <2> HIDE DEF t
  <2>5. IsTask(u) /\ u.op = "authorize" BY <2>4 DEF IsTask
  <2> HIDE DEF u
  <2> QED BY <2>2, <2>3, <2>4, <2>5, OtherDecides, OtherHandler
<1> QED BY <1>1, <1>2

\* discover is called with the cursor of the walk.
LEMMA WalkNextPage ==
  ASSUME DecisionInv, WalkInv, NEW c \in Call, NEW i \in Instance, NextPage(c, i)
  PROVE  WalkInv'
<1> DEFINE n == NewTask("discover", i, walk.roles)
           t == [n EXCEPT !.cursor = walk.cursor]
           u == [t EXCEPT !.lists = {}]
<1>1. /\ IsTask(n) /\ n.op = "discover" /\ n.roles = walk.roles /\ n.scope = {} /\ n.shown = {}
      /\ n.lists = walk.roles \cap Role /\ n.steady = Steady /\ n.next = End
  BY DEF NewTask, NoTask, IsTask
<1>2. /\ walk.st = "on" /\ ~Walking /\ UNCHANGED walk
      /\ \/ walk.roles \cap MessagingRoles = {} /\ Return(c, t)
         \/ /\ walk.roles \cap MessagingRoles # {}
            /\ walk.roles \cap Unbounded # {} /\ PageOf(c, u, {})
         \/ /\ walk.roles \cap MessagingRoles # {}
            /\ walk.roles \cap Unbounded = {} /\ GetDirectScope(c, t)
  <2>1. walk.roles \cap MessagingRoles = {} => walk.roles \cap Unbounded = {}
    BY DEF MessagingRoles
  <2> QED BY <2>1 DEF NextPage
<1>3. walk.steady \subseteq Steady BY DEF WalkInv, WalkOK
<1> HIDE DEF n
<1>4. /\ IsTask(t) /\ t.op = "discover" /\ t.roles = walk.roles /\ t.cursor = walk.cursor
      /\ t.scope = {} /\ t.shown = {} /\ t.lists = walk.roles \cap Role /\ t.steady = Steady
      /\ t.next = End
  BY <1>1 DEF IsTask
<1> HIDE DEF t
<1>5. /\ IsTask(u) /\ u.op = "discover" /\ u.roles = walk.roles /\ u.cursor = walk.cursor
      /\ u.scope = {} /\ u.steady = Steady
  BY <1>4 DEF IsTask
<1> HIDE DEF u
<1>6. OnWalk(t) /\ OnWalk(u) BY <1>2, <1>3, <1>4, <1>5 DEF OnWalk
<1>7. CASE walk.roles \cap MessagingRoles = {} /\ Return(c, t)
  BY <1>2, <1>4, <1>6, <1>7, WalkReturns
<1>8. CASE /\ walk.roles \cap MessagingRoles # {}
           /\ walk.roles \cap Unbounded # {} /\ PageOf(c, u, {})
  <2>1. \A p : ~InScope(p) BY <1>8 DEF InScope
  <2> QED BY <1>2, <1>5, <1>6, <1>8, <2>1, WalkPageOf
<1>9. CASE /\ walk.roles \cap MessagingRoles # {}
           /\ walk.roles \cap Unbounded = {} /\ GetDirectScope(c, t)
  <2>1. ScopeIs(t, t.lists) BY <1>4 DEF ScopeIs
  <2> QED BY <1>2, <1>4, <1>6, <1>9, <2>1, WalkScope
<1> QED BY <1>2, <1>7, <1>8, <1>9

-----------------------------------------------------------------------------
(* The network, Core, and time, seen by the walk.                           *)

\* A page is what it was while its request has the same answer, or none.
LEMMA DiscoverKept ==
  ASSUME NEW r, NEW t, NEW q, DiscoverOK(r, t), q.ask = r.ask,
         q.st \in {"travelling", "got"} =>
           r.st \in {"travelling", "got"} /\ q.who = r.who /\ q.next = r.next
  PROVE  DiscoverOK(q, t)
<1>1. ReadsScope(r, t) => ReadsScope(q, t) BY DEF ReadsScope
<1>2. ReadsUsers(r, t) => ReadsUsers(q, t) BY DEF ReadsUsers
<1>3. ReadsPage(r, t) => ReadsPage(q, t) BY DEF ReadsPage, PageIsRight
<1> QED BY <1>1, <1>2, <1>3 DEF DiscoverOK

\* A step of a request that brings its handler no other answer.
LEMMA WalkRequest ==
  ASSUME DecisionInv, WalkInv, Still, UNCHANGED task, NEW c \in Call, NEW q,
         req' = [req EXCEPT ![c] = q], q.ask = req[c].ask,
         q.st \in {"travelling", "got"} =>
           /\ req[c].st \in {"travelling", "got"}
           /\ q.who = req[c].who /\ q.next = req[c].next
  PROVE  WalkInv'
<1> DEFINE t == task[c]
<1>1. DiscoverOK(req[c], t) BY DEF WalkInv
<1>2. task' = [task EXCEPT ![c] = t] /\ (t.op = "discover" => task[c].op = "discover")
  BY DEF DecisionInv
<1> HIDE DEF t
<1>3. DiscoverOK(q, t) BY <1>1, DiscoverKept
<1> QED BY <1>2, <1>3, WalkLocal

\* The page Core answers with is all of its list between the two cursors.
LEMMA AnswersPage ==
  ASSUME DecisionInv, NEW ask, ask.kind = "list", ask.limit \in Nat \ {0}, ask.after \in Nat,
         NEW a \in Answers(ask)
  PROVE  /\ a.next \in Nat /\ (a.next # 0 => a.next \in Person /\ a.next > ask.after)
         /\ \A p : p \in a.who <=> /\ p \in enabled /\ p > ask.after
                                   /\ a.next = 0 \/ p <= a.next
<1> DEFINE S == {p \in enabled : p > ask.after}
           page == FirstOf(ask.limit, S)
<1>1. /\ a.who = page
      /\ \/ a.next = 0 /\ page = S
         \/ a.next = Max(page) /\ (page # S \/ Cardinality(page) = ask.limit)
  BY DEF Answers
<1>2. S \subseteq Person /\ \A p \in Person : p \in Nat /\ p # 0
  BY PeopleAreNumbers DEF DecisionInv, CoreTypeOK
<1>3. \A p : p \in S <=> p \in enabled /\ p > ask.after OBVIOUS
<1> HIDE DEF S
<1>4. /\ page \subseteq S
      /\ \A q \in page, p \in S : p <= q => p \in page
      /\ S # {} => page # {}
      /\ Cardinality(page) = ask.limit => page # {}
  BY <1>2, PageIsBeginning
<1> HIDE DEF page
<1>5. CASE a.next = 0 /\ page = S BY <1>1, <1>3, <1>5
<1>6. CASE a.next = Max(page) /\ (page # S \/ Cardinality(page) = ask.limit)
  <2>1. page # {} /\ page \subseteq Person BY <1>2, <1>4, <1>6
  <2>2. a.next \in page /\ \A p \in page : p <= a.next BY <1>6, <2>1, LastOf
  <2>3. /\ a.next \in Nat /\ a.next \in Person
        /\ a.next # 0 /\ a.next > ask.after
    BY <1>2, <1>3, <1>4, <2>1, <2>2
  <2>4. ASSUME NEW p
        PROVE  p \in page <=> p \in enabled /\ p > ask.after /\ p <= a.next
    BY <1>3, <1>4, <2>2
  <2> QED BY <1>1, <2>3, <2>4
<1> QED BY <1>1, <1>5, <1>6

\* Core answers a page with what is right when it is given.
LEMMA WalkCoreAnswers ==
  ASSUME DecisionInv, WalkInv, NEW c \in Call, CoreAnswers(c), UNCHANGED <<task, walk>>
  PROVE  WalkInv'
<1> DEFINE r == req[c]
           t == task[c]
<1>1. RequestOK(r) /\ r.st = "sent" /\ Still BY CallFacts DEF CoreAnswers, Still
<1>2. PICK a \in Answers(r.ask) :
        req' = [req EXCEPT ![c] = [r EXCEPT !.st = "travelling", !.who = a.who, !.next = a.next]]
  BY DEF CoreAnswers, DecisionInv
<1> DEFINE q == [r EXCEPT !.st = "travelling", !.who = a.who, !.next = a.next]
<1>3. req' = [req EXCEPT ![c] = q] /\ task' = [task EXCEPT ![c] = t]
  BY <1>2 DEF DecisionInv
<1>4. DiscoverOK(r, t) /\ (t.op = "discover" => task[c].op = "discover")
  BY DEF WalkInv
<1>5. t.op = "discover" /\ t.pc = "list" =>
        ReadsPage(r, t) /\ t.cursor = walk.cursor /\ walk.cursor.at \in Nat
  <2>1. t.op = "discover" /\ t.pc = "list" =>
          ReadsPage(r, t) /\ OnWalk(t) /\ t.roles \cap MessagingRoles # {}
    BY WalkCall
  <2> HIDE DEF r, t
  <2> QED BY <2>1 DEF OnWalk, WalkInv, WalkOK, Shows
<1> HIDE DEF r, t
<1>6. q.st = "travelling" /\ q.ask = r.ask /\ q.who = a.who /\ q.next = a.next
  BY <1>1 DEF RequestOK, IsRequest
<1> HIDE DEF q
<1>7. ReadsScope(r, t) => ReadsScope(q, t) BY <1>6 DEF ReadsScope
<1>8. ReadsUsers(r, t) => ReadsUsers(q, t) BY <1>6 DEF ReadsUsers
<1>9. t.op = "discover" /\ ReadsPage(r, t) => ReadsPage(q, t)
  <2> SUFFICES ASSUME t.op = "discover", ReadsPage(r, t) PROVE ReadsPage(q, t) OBVIOUS
  <2>1. t.pc = "list" /\ r.ask.kind = "list" /\ r.ask.limit \in Nat \ {0}
        /\ r.ask.after = CoreCursor(t.cursor)
    BY DEF ReadsPage
  <2>2. r.ask.after \in Nat BY <1>5, <2>1 DEF CoreCursor
  <2>3. PICK ask : ask = r.ask OBVIOUS
  <2>4. /\ a.next \in Nat /\ (a.next # 0 => a.next \in Person /\ a.next > ask.after)
        /\ \A p : p \in a.who <=> /\ p \in enabled /\ p > ask.after
                                  /\ a.next = 0 \/ p <= a.next
    BY <2>1, <2>2, <2>3, AnswersPage
  <2>5. PageIsRight(q, t) BY <1>6, <2>3, <2>4 DEF PageIsRight
  <2> QED BY <1>6, <2>5 DEF ReadsPage
<1>10. DiscoverOK(q, t) BY <1>4, <1>7, <1>8, <1>9 DEF DiscoverOK
<1> QED BY <1>1, <1>3, <1>4, <1>10, WalkLocal

\* An attempt that ends, or begins, and an answer that is handed over.
LEMMA WalkTravels ==
  ASSUME DecisionInv, WalkInv, NEW c \in Call, UNCHANGED <<task, walk>>,
         Deliver(c) \/ Rejected(c) \/ TimesOut(c) \/ Fails(c) \/ Retry(c)
  PROVE  WalkInv'
<1> DEFINE r == req[c]
<1>1. RequestOK(r) BY CallFacts
<1>2. Still BY DEF Deliver, Rejected, TimesOut, Fails, Retry, Still
<1>3. CASE Deliver(c)
  <2> DEFINE q == [r EXCEPT !.st = "got"]
  <2>1. req' = [req EXCEPT ![c] = q] /\ r.st = "travelling"
    BY <1>3 DEF Deliver, DecisionInv
  <2>2. q.ask = r.ask /\ q.who = r.who /\ q.next = r.next
    BY <1>1 DEF RequestOK, IsRequest
  <2> HIDE DEF q
  <2> QED BY <1>2, <2>1, <2>2, WalkRequest
<1>4. CASE Rejected(c) \/ TimesOut(c)
  <2> DEFINE q == TryAgain(r)
  <2>1. req' = [req EXCEPT ![c] = q] /\ r.st # "off"
    BY <1>4 DEF Rejected, TimesOut, Aborts
  <2> HIDE DEF r
  <2>2. q.ask = r.ask /\ q.st \in {"backoff", "failed"} BY <1>1, <2>1, TriedAgain
  <2> HIDE DEF q
  <2> QED BY <1>2, <2>1, <2>2, WalkRequest DEF r
<1>5. CASE Fails(c)
  <2> DEFINE q == [r EXCEPT !.st = "failed", !.who = {}, !.next = 0, !.hurt = TRUE]
  <2>1. req' = [req EXCEPT ![c] = q] BY <1>5 DEF Fails, DecisionInv
  <2>2. q.ask = r.ask /\ q.st = "failed" BY <1>1 DEF RequestOK, IsRequest
  <2> HIDE DEF q
  <2> QED BY <1>2, <2>1, <2>2, WalkRequest
<1>6. CASE Retry(c)
  <2> DEFINE q == Attempt(r, r.attempt + 1)
  <2>1. req' = [req EXCEPT ![c] = q] BY <1>6 DEF Retry
  <2>2. q.ask = r.ask /\ q.st = "sent" BY <1>1 DEF RequestOK, IsRequest, Attempt
  <2> HIDE DEF q
  <2> QED BY <1>2, <2>1, <2>2, WalkRequest
<1> QED BY <1>3, <1>4, <1>5, <1>6

\* Time makes steady people of others at most, and no answer of a request.
LEMMA WalkTick ==
  ASSUME DecisionInv, WalkInv, Pass
  PROVE  WalkInv'
<1>1. UNCHANGED <<related, enabled, task, walk>> /\ news' = [p \in Person |-> Less(news[p])]
  BY DEF Pass, Tick
<1>2. Steady \subseteq Steady' BY <1>1 DEF Steady, Less
<1>3. \A p : InScope(p)' <=> InScope(p) BY <1>1 DEF InScope
<1>4. \A cursor, p : Passed(cursor, p)' <=> Passed(cursor, p) BY <1>3 DEF Passed
<1>5. \A cursor, shown : Shows(cursor, shown)' <=> Shows(cursor, shown)
  BY <1>1, <1>3, <1>4 DEF Shows
<1>6. WalkOK' BY <1>1, <1>2, <1>5 DEF WalkInv, WalkOK
<1>7. ASSUME NEW r, NEW t PROVE DiscoverOK(r, t)' <=> DiscoverOK(r, t)
  <2>1. \A unread : ScopeIs(t, unread)' <=> ScopeIs(t, unread)
    BY <1>1, <1>3 DEF ScopeIs
  <2>2. ReadsScope(r, t)' <=> ReadsScope(r, t) BY <2>1 DEF ReadsScope
  <2>3. ReadsUsers(r, t)' <=> ReadsUsers(r, t) BY <2>1 DEF ReadsUsers
  <2>4. ReadsPage(r, t)' <=> ReadsPage(r, t) BY <1>1, <1>3 DEF ReadsPage, PageIsRight
  <2>5. WithPage(t)' = WithPage(t) BY <1>1 DEF WithPage
  <2>6. BringsPage(t)' <=> BringsPage(t) BY <1>1, <1>5, <2>5 DEF BringsPage, Onward
  <2>7. OnWalk(t)' <=> OnWalk(t) BY <1>1 DEF OnWalk
  <2> QED BY <2>2, <2>3, <2>4, <2>6, <2>7 DEF DiscoverOK
<1>8. ASSUME NEW c \in Call PROVE DiscoverOK(req[c], task[c])'
  <2>1. PICK r, t, q : r = req[c] /\ t = task[c] /\ q = req'[c] OBVIOUS
  <2>2. DiscoverOK(r, t) /\ RequestOK(r) BY <2>1, CallFacts DEF WalkInv
  <2>3. q = IF r.st \in {"sent", "travelling", "backoff"}
              THEN [r EXCEPT !.timer = Less(@), !.ttl = Less(@)] ELSE r
    BY <2>1 DEF Pass, Tick, InFlight
  <2>4. q.ask = r.ask /\ q.st = r.st /\ q.who = r.who /\ q.next = r.next
    BY <2>2, <2>3 DEF RequestOK, IsRequest
  <2>5. DiscoverOK(q, t) BY <2>2, <2>4, DiscoverKept
  <2>6. DiscoverOK(q, t)' BY <1>7, <2>5
  <2> QED BY <1>1, <2>1, <2>6
<1> QED BY <1>1, <1>6, <1>8 DEF WalkInv

\* Who changes is no longer among those the walk answers for; about the others nothing does.
LEMMA WalkChange ==
  ASSUME DecisionInv, WalkInv, NEW p \in Person, Change(p)
  PROVE  WalkInv'
<1>1. /\ UNCHANGED req
      /\ \A x \in Person : x # p => news'[x] = news[x]
      /\ \A x \in Person : x # p => /\ x \in enabled' <=> x \in enabled
                                    /\ \A r \in Role : x \in related'[r] <=> x \in related[r]
  BY NewsOfChange DEF DecisionInv
<1>2. WalkOK BY DEF WalkInv
<1>3. /\ IsWalk(walk') /\ walk'.st = walk.st /\ walk'.roles = walk.roles
      /\ walk'.cursor = walk.cursor /\ walk'.shown = walk.shown
      /\ walk'.steady = walk.steady \ {p}
  <2>1. walk' = [walk EXCEPT !.steady = @ \ {p}] BY DEF Change
  <2> QED BY <1>2, <2>1 DEF WalkOK, IsWalk
<1>4. walk.steady \subseteq Person BY <1>2 DEF WalkOK, Steady
<1>5. \A x \in walk'.steady : x \in walk.steady /\ x \in Person /\ x # p BY <1>3, <1>4
<1>6. walk'.steady # Person BY <1>3
<1>7. \A x \in walk'.steady : (x \in enabled' <=> x \in enabled) /\ (InScope(x)' <=> InScope(x))
  <2>1. \A x \in walk'.steady : InScope(x)' <=> InScope(x)
    BY <1>1, <1>3, <1>5 DEF InScope
  <2> QED BY <1>1, <1>5, <2>1
<1>8. \A cursor, x : x \in walk'.steady => (Passed(cursor, x)' <=> Passed(cursor, x))
  BY <1>7 DEF Passed
<1>9. \A cursor, shown : Shows(cursor, shown) => Shows(cursor, shown)'
  BY <1>5, <1>6, <1>7, <1>8 DEF Shows
<1>10. WalkOK'
  <2>1. walk'.steady \subseteq Steady' BY <1>1, <1>2, <1>5 DEF WalkOK, Steady
  <2> QED BY <1>2, <1>3, <1>9, <2>1 DEF WalkOK
<1>11. \A c \in Call : /\ TaskOK(task[c])
                       /\ task'[c].op = task[c].op /\ task'[c].pc = task[c].pc
                       /\ task'[c].roles = task[c].roles /\ task'[c].cursor = task[c].cursor
                       /\ task'[c].lists = task[c].lists /\ task'[c].scope = task[c].scope
                       /\ task'[c].shown = task[c].shown /\ task'[c].result = task[c].result
                       /\ task'[c].next = task[c].next
                       /\ task'[c].steady = task[c].steady \ {p}
  <2>1. ASSUME NEW c \in Call PROVE TaskOK(task[c]) BY CallFacts
  <2>2. \A c \in Call : task'[c] = [task[c] EXCEPT !.steady = @ \ {p}] BY DEF Change
  <2> QED BY <2>1, <2>2 DEF TaskOK, IsTask
<1>12. ASSUME NEW c \in Call, task[c].op = "discover" PROVE DiscoverOK(req[c], task[c])'
  <2>1. PICK r, t, u : r = req[c] /\ t = task[c] /\ u = task'[c] OBVIOUS
  <2>2. DiscoverOK(r, t) /\ TaskOK(t) /\ t.op = "discover" BY <1>11, <1>12, <2>1 DEF WalkInv
  <2>3. /\ u.op = t.op /\ u.pc = t.pc /\ u.roles = t.roles /\ u.cursor = t.cursor
        /\ u.lists = t.lists /\ u.scope = t.scope /\ u.shown = t.shown
        /\ u.result = t.result /\ u.next = t.next /\ u.steady = t.steady \ {p}
    BY <1>11, <2>1
  <2>4. OnWalk(u)'
    <3>1. OnWalk(t) BY <2>2 DEF DiscoverOK
    <3> QED BY <1>3, <2>3, <3>1 DEF OnWalk
  <2>5. \A unread : ScopeIs(t, unread) => ScopeIs(u, unread)'
    <3>1. \A x \in walk'.steady : \A q \in Role : x \in related'[q] <=> x \in related[q]
      BY <1>1, <1>5
    <3> QED BY <1>5, <1>7, <2>3, <3>1 DEF ScopeIs
  <2>6. ReadsScope(r, t) => ReadsScope(r, u)' BY <2>3, <2>5 DEF ReadsScope
  <2>7. ReadsUsers(r, t) => ReadsUsers(r, u)' BY <2>3, <2>5 DEF ReadsUsers
  <2>8. PageIsRight(r, t) => PageIsRight(r, u)'
    <3>1. \A x \in u.steady : x \in t.steady /\ (x \in enabled' <=> x \in enabled)
      BY <1>1, <2>2, <2>3 DEF TaskOK
    <3> QED BY <3>1 DEF PageIsRight
  <2>9. ReadsPage(r, t) => ReadsPage(r, u)'
    BY <1>3, <1>5, <1>6, <1>7, <2>3, <2>8 DEF ReadsPage
  <2>10. WithPage(u)' = WithPage(t) BY <1>3, <2>3 DEF WithPage
  <2>11. BringsPage(t) => BringsPage(u)'
    <3>1. Onward(t.cursor, t.next) => Onward(u.cursor, u.next)'
      BY <1>5, <2>3 DEF Onward
    <3> QED BY <1>9, <2>3, <2>10, <3>1 DEF BringsPage
  <2>12. DiscoverOK(r, u)' BY <2>2, <2>3, <2>4, <2>6, <2>7, <2>9, <2>11 DEF DiscoverOK
  <2> QED BY <1>1, <2>1, <2>12
<1>13. \A c \in Call : DiscoverOK(req[c], task[c])'
  BY <1>11, <1>12 DEF DiscoverOK
<1> QED BY <1>10, <1>11, <1>13 DEF WalkInv

-----------------------------------------------------------------------------
(* The client.                                                              *)

\* A walk begins when no page of another is awaited, and has shown nobody.
LEMMA WalkStarts ==
  ASSUME DecisionInv, WalkInv, NEW roles, StartWalk(roles)
  PROVE  WalkInv'
<1>1. /\ walk.st # "on" /\ UNCHANGED <<enabled, related, news, req, task>>
      /\ walk' = [NoWalk EXCEPT !.st = "on", !.roles = roles, !.steady = Steady]
  BY DEF StartWalk, coreVars
<1>2. /\ IsWalk(walk') /\ walk'.st = "on" /\ walk'.cursor = Start /\ walk'.steady = Steady
      /\ walk'.shown = [p \in Person |-> 0]
  BY <1>1 DEF NoWalk, IsWalk
<1>3. ASSUME NEW c \in Call PROVE task[c].op # "discover"
  BY <1>1 DEF WalkInv, DiscoverOK, OnWalk
<1>4. Start.phase = "start" /\ Start.at = 0 /\ Start # End
  <2>1. Start.phase = "start" /\ End.phase = "end" /\ Start.at = 0 BY DEF Start, End
  <2>2. "start" # "end" OBVIOUS
  <2> QED BY <2>1, <2>2
<1>5. \A p : ~Passed(Start, p)' BY <1>4 DEF Passed
<1>6. \A p \in Person : walk'.shown[p] = 0 BY <1>2
<1>7. Shows(walk.cursor, walk.shown)' BY <1>2, <1>4, <1>5, <1>6 DEF Shows
<1>8. WalkOK'
  <2>1. Steady' = Steady BY <1>1 DEF Steady
  <2>2. walk'.shown \in [Person -> Nat] BY <1>2
  <2> QED BY <1>2, <1>4, <1>7, <2>1, <2>2 DEF WalkOK
<1>9. \A c \in Call : DiscoverOK(req[c], task[c])' BY <1>1, <1>3 DEF DiscoverOK
<1> QED BY <1>1, <1>3, <1>8, <1>9 DEF WalkInv

\* A page arrives at the client, or does not; another may be asked for.
LEMMA WalkPageEnds ==
  ASSUME DecisionInv, WalkInv, NEW c \in Call, PageArrives(c) \/ PageLost(c)
  PROVE  WalkInv'
<1> DEFINE t == task[c]
<1>1. /\ t.op = "discover" /\ t.pc = "done" /\ task' = [task EXCEPT ![c] = NoTask]
      /\ UNCHANGED <<enabled, related, news, req>>
  BY DEF PageArrives, PageLost, HasPage, Done, coreVars
<1>2. OnWalk(t) /\ BringsPage(t) BY <1>1, WalkCall
<1>3. WalkOK BY DEF WalkInv
<1>4. PageArrives(c) =>
        /\ t.result # "UNAVAILABLE"
        /\ walk' = [walk EXCEPT !.cursor = t.next,
                                !.st = IF t.next = End THEN "ended" ELSE "on",
                                !.shown = WithPage(t)]
  BY DEF PageArrives, WithPage
<1>5. \A d \in Call : task'[d].op # "discover"
  <2>1. \A d \in Call : task'[d] = IF d = c THEN NoTask ELSE task[d]
    BY <1>1 DEF DecisionInv
  <2>2. NoTask.op # "discover" BY DEF NoTask
  <2>3. \A d \in Call : d # c => task[d].op # "discover" BY <1>1 DEF WalkInv
  <2> QED BY <2>1, <2>2, <2>3
<1> HIDE DEF t
<1>6. walk'.steady = walk.steady /\ walk'.roles = walk.roles /\ IsWalk(walk')
  BY <1>3, <1>4 DEF PageLost, WalkOK, IsWalk
<1>7. \A p : InScope(p)' <=> InScope(p) BY <1>1, <1>6 DEF InScope
<1>8. \A cursor, p : Passed(cursor, p)' <=> Passed(cursor, p) BY <1>7 DEF Passed
<1>9. \A cursor, shown : Shows(cursor, shown) => Shows(cursor, shown)'
  BY <1>1, <1>6, <1>7, <1>8 DEF Shows
<1>10. Steady' = Steady BY <1>1 DEF Steady
<1>11. WalkOK'
  <2>1. CASE PageArrives(c)
    <3>1. /\ walk'.cursor = t.next /\ walk'.shown = WithPage(t)
          /\ walk'.st = IF t.next = End THEN "ended" ELSE "on"
      BY <1>3, <1>4, <2>1 DEF WalkOK, IsWalk
    <3>2. walk'.shown \in [Person -> Nat] BY <1>3, <3>1, WithPageIs DEF WalkOK
    <3>3. walk.roles \cap MessagingRoles # {} => Shows(t.next, WithPage(t))
      BY <1>1, <1>2, <1>4, <2>1 DEF BringsPage, OnWalk
    <3>4. walk.roles \cap MessagingRoles # {} => Shows(walk.cursor, walk.shown)'
      <4>1. PICK x, y : x = t.next /\ y = WithPage(t) OBVIOUS
      <4>2. walk.roles \cap MessagingRoles # {} => Shows(x, y)' BY <1>9, <3>3, <4>1
      <4> QED BY <3>1, <4>1, <4>2
    <3>5. walk.roles \cap MessagingRoles = {} => walk'.st = "ended"
      BY <1>1, <1>2, <3>1 DEF BringsPage, OnWalk
    <3> QED BY <1>3, <1>6, <1>10, <3>1, <3>2, <3>4, <3>5 DEF WalkOK
  <2>2. CASE PageLost(c)
    <3>1. /\ walk'.cursor = walk.cursor /\ walk'.shown = walk.shown
          /\ walk'.st \in {"given up", "on"}
      BY <1>3, <2>2 DEF PageLost, WalkOK, IsWalk
    <3>2. walk.st = "on" BY <1>2 DEF OnWalk
    <3>3. walk.roles \cap MessagingRoles # {} => Shows(walk.cursor, walk.shown)'
      <4>1. PICK x, y : x = walk.cursor /\ y = walk.shown OBVIOUS
      <4>2. walk.roles \cap MessagingRoles # {} => Shows(x, y)'
        BY <1>3, <1>9, <3>2, <4>1 DEF WalkOK
      <4> QED BY <3>1, <4>1, <4>2
    <3> QED BY <1>3, <1>6, <1>10, <3>1, <3>2, <3>3 DEF WalkOK
  <2> QED BY <2>1, <2>2
<1>12. \A d \in Call : DiscoverOK(req[d], task[d])' BY <1>5 DEF DiscoverOK
<1> QED BY <1>5, <1>11, <1>12 DEF WalkInv

\* A decision that has been used was none of the walk.
LEMMA WalkForgets ==
  ASSUME DecisionInv, WalkInv, NEW c \in Call, Forget(c)
  PROVE  WalkInv'
<1>1. PICK r, t : r = req[c] /\ t = NoTask OBVIOUS
<1>2. /\ req' = [req EXCEPT ![c] = r] /\ task' = [task EXCEPT ![c] = t] /\ Still
  BY <1>1 DEF Forget, coreVars, Still, DecisionInv
<1>3. t.op # "discover" BY <1>1 DEF NoTask
<1>4. DiscoverOK(r, t) BY <1>3 DEF DiscoverOK
<1> QED BY <1>2, <1>3, <1>4, WalkLocal

\* Every action keeps the invariant.
LEMMA WalkInvStep ==
  ASSUME DecisionInv, WalkInv, [DirectoryNext]_directoryVars
  PROVE  WalkInv'
<1>1. ASSUME NEW c \in Call, CallStep(c) PROVE WalkInv'
  BY <1>1, WalkAuthorizes, WalkRelationshipsRead, WalkProjectionsRead, WalkPageRead,
     WalkUnavailable, WalkTravels DEF CallStep, HandlerStep, TimerStep
<1>2. ASSUME NEW c \in Call, NetworkStep(c) PROVE WalkInv'
  BY <1>2, WalkCoreAnswers, WalkTravels DEF NetworkStep
<1>3. ASSUME NEW c \in Call, WalkStep(c) PROVE WalkInv'
  BY <1>3, WalkNextPage, WalkPageEnds DEF WalkStep
<1>4. ASSUME NEW c \in Call, Forget(c) PROVE WalkInv' BY <1>4, WalkForgets
<1>5. ASSUME NEW c \in Call, NEW i \in Instance, NEW roles \in RoleSets, NEW p \in Person,
             Authorize(c, i, roles, p)
      PROVE  WalkInv'
  BY <1>5, WalkAuthorizes
<1>6. ASSUME NEW roles \in RoleSets, StartWalk(roles) PROVE WalkInv' BY <1>6, WalkStarts
<1>7. ASSUME NEW p \in Person, Change(p) PROVE WalkInv' BY <1>7, WalkChange
<1>8. CASE Pass BY <1>8, WalkTick
<1>9. CASE UNCHANGED directoryVars
  <2>1. Still /\ UNCHANGED <<req, task>> BY <1>9 DEF directoryVars, coreVars, Still
  <2>2. WalkOK' BY <2>1, SameWalk DEF WalkInv
  <2>3. ASSUME NEW c \in Call PROVE DiscoverOK(req[c], task[c])'
    <3>1. PICK r, t : r = req[c] /\ t = task[c] OBVIOUS
    <3>2. DiscoverOK(r, t)' BY <2>1, <3>1, SameWalk DEF WalkInv
    <3> QED BY <2>1, <3>1, <3>2
  <2> QED BY <2>1, <2>2, <2>3 DEF WalkInv
<1> QED BY <1>1, <1>2, <1>3, <1>4, <1>5, <1>6, <1>7, <1>8, <1>9 DEF DirectoryNext

\* What the walk has shown is what its cursor has passed, whatever the handlers of it read in
\* between, and from whichever cache.
THEOREM DiscoveryInvariance == DirectorySpec => []WalkInv
<1>1. DirectoryInit => WalkInv
  <2> SUFFICES ASSUME DirectoryInit PROVE WalkInv OBVIOUS
  <2>1. walk = NoWalk /\ \A c \in Call : task[c] = NoTask BY DEF DirectoryInit
  <2>2. NoTask.op # "discover" BY DEF NoTask
  <2>3. WalkOK BY <2>1 DEF WalkOK, NoWalk, IsWalk
  <2> QED BY <2>1, <2>2, <2>3 DEF WalkInv, DiscoverOK
<1>2. DecisionInv /\ WalkInv /\ [DirectoryNext]_directoryVars => WalkInv' BY WalkInvStep
<1> QED BY <1>1, <1>2, DecisionInvariance, PTL DEF DirectorySpec

\* A walk that has come to its end has shown everybody who may use messaging and of whom
\* nothing changed, and exactly them, once each, if nothing changed at all.
THEOREM WalksShowEverybody == DirectorySpec => []WalkShowsEverybody
<1>1. WalkInv => WalkShowsEverybody
  <2> SUFFICES ASSUME WalkInv, walk.st = "ended", walk.roles \cap MessagingRoles # {}
               PROVE  /\ \A p \in walk.steady \cap enabled : walk.shown[p] > 0
                      /\ walk.steady = Person =>
                           \A p \in Person : walk.shown[p] = IF p \in enabled THEN 1 ELSE 0
    BY DEF WalkShowsEverybody
  <2>1. Shows(walk.cursor, walk.shown) /\ walk.cursor = End BY DEF WalkInv, WalkOK
  <2>2. \A p : Passed(walk.cursor, p) BY <2>1 DEF Passed, End
  <2> QED BY <2>1, <2>2 DEF Shows
<1> QED BY <1>1, DiscoveryInvariance, PTL

\* A page that arrives takes the walk on to a later cursor, of which there are as many as there
\* are people and phases, unless something changed about the person its cursor names; and
\* nothing but a page and the start of another walk moves the cursor.
WalkGoesForward ==
  /\ \A c \in Call : PageArrives(c) => /\ Onward(walk.cursor, walk'.cursor)
                                       /\ walk'.cursor.at \in Person \cup {0}
  /\ walk'.cursor # walk.cursor => \/ \E c \in Call : PageArrives(c)
                                   \/ \E roles \in RoleSets : StartWalk(roles)

\* A page that has come brings the walk on.
LEMMA PageBringsOn ==
  ASSUME DecisionInv, WalkInv, NEW c \in Call, PageArrives(c)
  PROVE  Onward(walk.cursor, walk'.cursor) /\ walk'.cursor.at \in Person \cup {0}
<1>1. PICK t : t = task[c] OBVIOUS
<1>2. t.op = "discover" /\ t.pc = "done" /\ t.result # "UNAVAILABLE"
  BY <1>1 DEF PageArrives, HasPage, Done
<1>3. OnWalk(t) /\ BringsPage(t) BY <1>1, <1>2, WalkCall
<1>4. IsWalk(walk) /\ walk.cursor = t.cursor /\ walk.st = "on" /\ t.roles = walk.roles
  BY <1>3 DEF WalkInv, WalkOK, OnWalk
<1>5. walk'.cursor = t.next BY <1>1, <1>4 DEF PageArrives, IsWalk
<1>6. Onward(t.cursor, t.next) /\ t.next.at \in Person \cup {0}
  <2>1. CASE t.roles \cap MessagingRoles # {}
    BY <1>2, <1>3, <2>1 DEF BringsPage, Shows
  <2>2. CASE t.roles \cap MessagingRoles = {}
    <3>1. t.next = End /\ t.cursor = Start
      BY <1>3, <1>4, <2>2 DEF BringsPage, WalkInv, WalkOK
    <3>2. /\ End.phase = "end" /\ End.at = 0
          /\ Start.phase = "start"
      BY DEF End, Start
    <3> QED BY <3>1, <3>2 DEF Onward, Later
  <2> QED BY <2>1, <2>2
<1>7. PICK from, to : from = t.cursor /\ to = t.next OBVIOUS
<1> QED BY <1>4, <1>5, <1>6, <1>7

\* Nothing else moves the cursor.
LEMMA CursorMoves ==
  ASSUME WalkInv, [DirectoryNext]_directoryVars, walk'.cursor # walk.cursor
  PROVE  \/ \E c \in Call : PageArrives(c)
         \/ \E roles \in RoleSets : StartWalk(roles)
<1>0. IsWalk(walk) BY DEF WalkInv, WalkOK
<1>1. ASSUME NEW c \in Call, CallStep(c) PROVE walk' = walk
  BY <1>1 DEF CallStep, HandlerStep, TimerStep, UserRead, RelationshipsRead, ProjectionsRead,
              PageRead, Unavailable
<1>2. ASSUME NEW c \in Call, NetworkStep(c) PROVE walk' = walk BY <1>2 DEF NetworkStep
<1>3. ASSUME NEW c \in Call, WalkStep(c) PROVE PageArrives(c) \/ walk'.cursor = walk.cursor
  BY <1>0, <1>3 DEF WalkStep, NextPage, PageLost, IsWalk
<1>4. ASSUME NEW c \in Call, Forget(c) PROVE walk' = walk BY <1>4 DEF Forget
<1>5. ASSUME NEW c \in Call, NEW i \in Instance, NEW roles \in RoleSets, NEW p \in Person,
             Authorize(c, i, roles, p)
      PROVE  walk' = walk
  BY <1>5 DEF Authorize
<1>6. ASSUME NEW p \in Person, Change(p) PROVE walk'.cursor = walk.cursor
  BY <1>0, <1>6 DEF Change, IsWalk
<1>7. Pass => walk' = walk BY DEF Pass
<1>8. UNCHANGED directoryVars => walk' = walk BY DEF directoryVars
<1> QED BY <1>1, <1>2, <1>3, <1>4, <1>5, <1>6, <1>7, <1>8 DEF DirectoryNext

\* No page of the directory leads a client back or leaves it where it is, whatever cache, slow
\* answer or instance it comes from.
THEOREM WalksGoForward == DirectorySpec => [][WalkGoesForward]_directoryVars
<1>1. DecisionInv /\ WalkInv /\ [DirectoryNext]_directoryVars => [WalkGoesForward]_directoryVars
  BY PageBringsOn, CursorMoves DEF WalkGoesForward
<1> QED BY <1>1, DecisionInvariance, DiscoveryInvariance, PTL DEF DirectorySpec

=============================================================================
