------------------------------ MODULE Directory -----------------------------
(***************************************************************************)
(* What is built on Core's answers: RelationshipsService.getDirectScope,   *)
(* AuthorizationService.authorizeMessaging, DirectoryService.discover, and *)
(* a client that walks the directory page by page.  Each runs on any       *)
(* instance, with that instance's cache.                                   *)
(*                                                                         *)
(* There is one actor; a call's roles are those in the token it came with. *)
(***************************************************************************)
EXTENDS CoreClient

CONSTANTS
  RoleSets,    \* sets of roles an actor may have
  PageLimit,   \* limit, which Core's list takes too
  MaxFailures  \* failed pages after which the client gives up its walk

ASSUME DirectoryAssumption ==
  /\ Role \subseteq {"PARENT", "FACULTY", "HOSTEL_WARDEN"}
  /\ PageLimit \in Nat \ {0} /\ MaxFailures \in Nat \ {0}

VARIABLES
  task,  \* per call: the handler's progress
  walk   \* the client's walk of the directory

directoryVars == <<coreVars, task, walk>>

\* getDirectScope asks in this order.
RoleOrder == [PARENT |-> 1, FACULTY |-> 2, HOSTEL_WARDEN |-> 3]
Unbounded == {"PRINCIPAL", "VICE_PRINCIPAL"}

\* MESSAGING_ENABLED_ROLE_CODES.  To most of them Core has no list.
MessagingRoles ==
  Unbounded \cup
  {"PARENT", "FACULTY", "HOSTEL_WARDEN", "ADMIN", "CORRESPONDENT", "TRANSPORT_MANAGER",
   "LIBRARY", "FINANCE", "MEDIA_ROOM", "SPORTS_ADMIN", "COMMUNITY"}

\* The list getDirectScope reads next.
IsNext(r, lists) == \A q \in lists : RoleOrder[r] <= RoleOrder[q]

\* "S:<id>" and "C:<id>"; start is no cursor, end a null nextCursor.
Start == [phase |-> "start", at |-> 0]
End == [phase |-> "end", at |-> 0]
Scoped(p) == [phase |-> "S", at |-> p]
FromCore(p) == [phase |-> "C", at |-> p]

\* pc: what the handler waits for.  lists: those still to be read.  scope: the
\* union of those read.  shown: the people of the page.  result: the decision
\* or the page's next cursor.  steady (history): people of whom nothing that
\* somebody may still not know has changed since the call began.
NoTask ==
  [op |-> "none", pc |-> "idle", at |-> 0, roles |-> {}, target |-> 0, cursor |-> Start,
   lists |-> {}, scope |-> {}, shown |-> {}, result |-> "none", next |-> End,
   steady |-> {}]

\* A walk collects how often each person was shown.
NoWalk ==
  [st |-> "none", roles |-> {}, cursor |-> Start, failures |-> 0, steady |-> {},
   shown |-> [p \in Person |-> 0]]

Steady == {p \in Person : news[p] = 0}

DirectoryInit ==
  /\ related \in [Role -> SUBSET Person]
  /\ enabled \in SUBSET Person
  /\ asleep \in 0..WakeTime
  /\ changes = 0
  /\ cache = [i \in Instance |-> [lists |-> [r \in Role |-> NothingCached],
                                  users |-> [p \in Person |-> NothingCached]]]
  /\ req = [c \in Call |-> NoRequest]
  /\ news = [p \in Person |-> 0]
  /\ task = [c \in Call |-> NoTask]
  /\ walk = NoWalk

Idle(c) == task[c].pc = "idle"
Done(c) == task[c].pc = "done"
HasRead(c, pc) == task[c].pc = pc /\ Answered(c)

\* c's handler goes on as t and awaits the answer to ask.
Await(c, t, ask) ==
  /\ task' = [task EXCEPT ![c] = t]
  /\ req' = [req EXCEPT ![c] = Asking(t.at, ask)]
  /\ UNCHANGED <<related, enabled, asleep, changes, cache, news>>

\* c's handler is over, as t.
Return(c, t) ==
  /\ task' = [task EXCEPT ![c] = [t EXCEPT !.pc = "done", !.lists = {}, !.scope = {}]]
  /\ req' = [req EXCEPT ![c] = NoRequest]
  /\ UNCHANGED <<related, enabled, asleep, changes, cache, news>>

-----------------------------------------------------------------------------
\* discover, once it knows the scope

\* The part of the scope after the person the cursor names; all of it when they
\* are no longer there, as findIndex then gives -1.
After(at, users) == IF at \in users THEN {p \in users : p > at} ELSE users

\* (Mutant of CoreCursor: Core is asked from the beginning each time.)
CoreCursorLost(cursor) == 0

\* What discover passes on to Core of a cursor "C:<id>".
CoreCursor(cursor) == IF cursor.phase = "C" THEN cursor.at ELSE 0

\* A page of the scope, and of Core's list when the scope leaves room.
PageOf(c, t, users) ==
  LET rest == After(t.cursor.at, users)
      page == FirstOf(PageLimit, rest)
      budget == PageLimit - Cardinality(page)
      inScope == t.cursor.phase = "S" \/ (t.cursor.phase = "start" /\ users # {})
      list == [t EXCEPT !.pc = "list", !.shown = IF inScope THEN page ELSE {}]
  IN
  \/ /\ inScope /\ page # rest
     /\ Return(c, [t EXCEPT !.shown = page, !.next = Scoped(Max(page))])
  \/ /\ inScope /\ page = rest /\ budget = 0
     /\ Return(c, [t EXCEPT !.shown = page, !.next = FromCore(0)])
  \/ /\ inScope /\ page = rest /\ budget > 0
     /\ Await(c, list, Page(0, budget))
  \/ ~inScope /\ Await(c, list, Page(CoreCursor(t.cursor), PageLimit))

\* getUserProjectionsBatch asks nothing about nobody.
ReadProjections(c, t) ==
  IF t.scope = {} THEN PageOf(c, t, {})
                  ELSE Await(c, [t EXCEPT !.pc = "batch"], Batch(t.scope))

ProjectionsRead(c) ==
  /\ HasRead(c, "batch")
  /\ PageOf(c, task[c], req[c].who)
  /\ UNCHANGED walk

\* (Mutant of NextAfter: a page that is not full is the last.)
NextIfFull(next, shown) ==
  IF next = 0 \/ Cardinality(shown) < PageLimit THEN End ELSE FromCore(next)

\* The cursor after a page of Core's list is Core's, whatever was shown.
NextAfter(next, shown) == IF next = 0 THEN End ELSE FromCore(next)

PageRead(c) ==
  /\ HasRead(c, "list")
  /\ LET shown == task[c].shown \cup (req[c].who \ task[c].scope) IN
     Return(c, [task[c] EXCEPT !.shown = shown, !.next = NextAfter(req[c].next, shown)])
  /\ UNCHANGED walk

-----------------------------------------------------------------------------
\* getDirectScope, and where its two callers go from there

Decide(c, t, d) == Return(c, [t EXCEPT !.result = d])

HasScope(c, t) ==
  CASE t.op = "discover" -> ReadProjections(c, t)
    [] t.op = "authorize" /\ t.target \in t.scope -> Decide(c, t, "ALLOW_DIRECT")
    [] t.op = "authorize" /\ t.target \notin t.scope -> Decide(c, t, "REQUIRE_REQUEST")

\* The next list is read, or the scope is complete.
GetDirectScope(c, t) ==
  IF t.lists = {} THEN HasScope(c, t)
  ELSE \E r \in t.lists :
         /\ IsNext(r, t.lists)
         /\ Await(c, [t EXCEPT !.pc = "scope", !.lists = @ \ {r}], Relationships(r))

RelationshipsRead(c) ==
  /\ HasRead(c, "scope")
  /\ GetDirectScope(c, [task[c] EXCEPT !.scope = @ \cup req[c].who])
  /\ UNCHANGED walk

-----------------------------------------------------------------------------
\* authorizeMessaging

NewTask(op, i, roles) ==
  [NoTask EXCEPT !.op = op, !.at = i, !.roles = roles, !.lists = roles \cap Role,
                 !.steady = Steady]

Authorize(c, i, roles, p) ==
  LET t == [NewTask("authorize", i, roles) EXCEPT !.target = p] IN
  /\ Idle(c)
  /\ IF roles \cap MessagingRoles = {} THEN Decide(c, t, "DENY")
                                       ELSE Await(c, [t EXCEPT !.pc = "user"], User(p))
  /\ UNCHANGED walk

\* The target's projection is there.
UserRead(c) ==
  /\ HasRead(c, "user")
  /\ CASE req[c].who = {} -> Decide(c, task[c], "DENY")
       [] req[c].who # {} /\ task[c].roles \cap Unbounded # {} ->
            Decide(c, task[c], "ALLOW_DIRECT")
       [] OTHER -> GetDirectScope(c, task[c])
  /\ UNCHANGED walk

\* CoreIntegrationUnavailableError leaves the handler, whatever it was at.
Unavailable(c) ==
  /\ Refused(c)
  /\ Decide(c, task[c], "UNAVAILABLE")
  /\ UNCHANGED walk

\* The decision has been used.
Forget(c) ==
  /\ Done(c) /\ task[c].op = "authorize"
  /\ task' = [task EXCEPT ![c] = NoTask]
  /\ UNCHANGED <<coreVars, walk>>

-----------------------------------------------------------------------------
\* The client's walk: pages one after another, each answered by any instance

Walking == \E c \in Call : task[c].op = "discover"

StartWalk(roles) ==
  /\ walk.st # "on"
  /\ walk' = [NoWalk EXCEPT !.st = "on", !.roles = roles, !.steady = Steady]
  /\ UNCHANGED <<coreVars, task>>

\* discover is called with the cursor the client has.
NextPage(c, i) ==
  LET t == [NewTask("discover", i, walk.roles) EXCEPT !.cursor = walk.cursor] IN
  /\ walk.st = "on" /\ ~Walking /\ Idle(c)
  /\ CASE walk.roles \cap MessagingRoles = {} -> Return(c, t)
       [] walk.roles \cap Unbounded # {} -> PageOf(c, [t EXCEPT !.lists = {}], {})
       [] OTHER -> GetDirectScope(c, t)
  /\ UNCHANGED walk

HasPage(c) == Done(c) /\ task[c].op = "discover"

PageArrives(c) ==
  /\ HasPage(c) /\ task[c].result # "UNAVAILABLE"
  /\ walk' = [walk EXCEPT !.cursor = task[c].next,
                          !.st = IF task[c].next = End THEN "ended" ELSE "on",
                          !.shown = [p \in Person |->
                             IF p \in task[c].shown /\ @[p] < 2 THEN @[p] + 1 ELSE @[p]]]
  /\ task' = [task EXCEPT ![c] = NoTask]
  /\ UNCHANGED coreVars

\* The page failed, or its answer is lost: the client asks for it again, or
\* gives up.
PageLost(c) ==
  /\ HasPage(c)
  /\ walk' = [walk EXCEPT !.failures = @ + 1,
                          !.st = IF walk.failures + 1 = MaxFailures THEN "given up" ELSE "on"]
  /\ task' = [task EXCEPT ![c] = NoTask]
  /\ UNCHANGED coreVars

-----------------------------------------------------------------------------
\* The specification

\* Something Core says about p changes.
Change(p) ==
  /\ Enable(p) \/ \E r \in Role : Relate(p, r)
  /\ task' = [c \in Call |-> [task[c] EXCEPT !.steady = @ \ {p}]]
  /\ walk' = [walk EXCEPT !.steady = @ \ {p}]

HandlerStep(c) ==
  UserRead(c) \/ RelationshipsRead(c) \/ ProjectionsRead(c) \/ PageRead(c) \/ Unavailable(c)

\* What a request may meet on its way; nothing says that it will.
NetworkStep(c) ==
  /\ CoreAnswers(c) \/ Deliver(c) \/ Rejected(c) \/ Fails(c)
  /\ UNCHANGED <<task, walk>>

TimerStep(c) ==
  /\ TimesOut(c) \/ Retry(c)
  /\ UNCHANGED <<task, walk>>

Pass == Tick /\ UNCHANGED <<task, walk>>

CallStep(c) == HandlerStep(c) \/ TimerStep(c)
WalkStep(c) == (\E i \in Instance : NextPage(c, i)) \/ PageArrives(c) \/ PageLost(c)

DirectoryNext ==
  \/ \E c \in Call :
       \/ CallStep(c) \/ NetworkStep(c) \/ WalkStep(c) \/ Forget(c)
       \/ \E i \in Instance, roles \in RoleSets, p \in Person : Authorize(c, i, roles, p)
  \/ \E roles \in RoleSets : StartWalk(roles)
  \/ \E p \in Person : Change(p)
  \/ Pass

DirectorySpec == DirectoryInit /\ [][DirectoryNext]_directoryVars

\* Timers go off and a handler runs on once its await is over; a client that
\* walks goes on.  Time passes, however busy the processes are: every handler
\* that is ready makes Pass wait, so it takes strong fairness.  Nothing is
\* assumed of Core or of the network.
DirectoryFairness ==
  /\ SF_directoryVars(Pass)
  /\ \A c \in Call : WF_directoryVars(CallStep(c))
  /\ WF_directoryVars(\E c \in Call : WalkStep(c))

DirectoryFairSpec == DirectorySpec /\ DirectoryFairness

-----------------------------------------------------------------------------
\* Properties

\* What authorizeMessaging would say if it asked Core now.
Rightful(roles, p) ==
  IF roles \cap MessagingRoles = {} \/ p \notin enabled THEN "DENY"
  ELSE IF roles \cap Unbounded # {} \/ \E r \in roles \cap Role : p \in related[r]
    THEN "ALLOW_DIRECT" ELSE "REQUIRE_REQUEST"

\* A decision is the one Core's data call for, or none at all: once a change is
\* five seconds old (fifty for the person's own data, which a slow batch may
\* keep alive), no cache, slow answer or failure makes authorizeMessaging say
\* what was right before it (cached, getUserProjectionsBatch, request).
DecisionIsCurrent ==
  \A c \in Call :
    task[c].op = "authorize" /\ Done(c) /\ task[c].target \in task[c].steady
      => task[c].result \in {Rightful(task[c].roles, task[c].target), "UNAVAILABLE"}

\* A request that meets nothing worse than Core waking up gets its answer: the
\* attempts of request last longer than Core sleeps (MAX_RETRIES, backoff).
SurvivesWakeUp ==
  \A c \in Call : Refused(c) => req[c].hurt

\* A walk that came to its end showed everybody who may use messaging and about
\* whom nothing changed, whatever changed about others, whichever instances
\* answered and however often a page was asked for again; and nobody twice, nor
\* anybody else, if nothing changed at all (discover).
WalkShowsEverybody ==
  walk.st = "ended" /\ walk.roles \cap MessagingRoles # {} =>
    /\ \A p \in walk.steady \cap enabled : walk.shown[p] > 0
    /\ walk.steady = Person =>
         \A p \in Person : walk.shown[p] = IF p \in enabled THEN 1 ELSE 0

\* Every question to Core is over in the end, whatever Core and the network do
\* (request's timer and bounded attempts).
EveryReadEnds ==
  \A c \in Call : task[c].pc \notin {"idle", "done"} ~> task[c].pc \in {"idle", "done"}

\* A client that asks for page after page comes to the end, or gives up.
WalkEnds == walk.st = "on" ~> walk.st # "on"

=============================================================================
