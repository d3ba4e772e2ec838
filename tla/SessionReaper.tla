--------------------------- MODULE SessionReaper ----------------------------
(***************************************************************************)
(* scripts/session_reaper.py: the daemon beside `opencode serve` that      *)
(* deletes sessions idle past a TTL, for clients that died without         *)
(* aborting their own.  A pass lists the sessions once and then deletes    *)
(* them one by one; both requests may fail, or stall past their timeout.   *)
(*                                                                         *)
(* The server and the eval clients are external.  A client keeps to what   *)
(* module SendMessage shows: a message is waited for at most PostTimeout.  *)
(* Times are relative (ages and countdowns), so nothing grows without end. *)
(***************************************************************************)
EXTENDS Integers, FiniteSets

CONSTANTS
  Sessions,      \* the ids of the sessions clients may create
  LocalModel,    \* those that will run a model of LOCAL_PROVIDER_KEY
  LocalTtl,      \* LOCAL_TTL_S
  DefaultTtl,    \* TTL_S, or Unbound: no line of the module assigns it
  Unbound,
  PollInterval,  \* POLL_INTERVAL_S
  RequestTime,   \* how long one request of the daemon may take
  ListLimit,     \* LIST_LIMIT
  PostTimeout,   \* how long a client waits for the answer to a message
  SendDelay      \* how long a live client keeps a session between messages

Ttls == {LocalTtl, DefaultTtl} \ {Unbound}

ASSUME ReaperAssumption ==
  /\ IsFiniteSet(Sessions) /\ LocalModel \subseteq Sessions
  /\ Ttls \subseteq Nat /\ LocalTtl # Unbound
  /\ {PollInterval, RequestTime, ListLimit, PostTimeout, SendDelay} \subseteq Nat

VARIABLES
  daemon,   \* what the daemon is doing
  due,      \* time left of its present step
  listed,   \* the infos of this pass that are still to be looked at
  exists,   \* sessions on the server
  model,    \* sessions whose record names a model
  age,      \* time since a session's record was updated
  running,  \* sessions with a turn running
  client,   \* what the session's client is doing
  patience  \* time left of the client's present step

reaper == <<daemon, due, listed>>
server == <<exists, model, age, running>>
clients == <<client, patience>>
vars   == <<reaper, server, clients>>

-----------------------------------------------------------------------------
(* Data.                                                                   *)

\* An age past every TTL is as good as any other.
Oldest == CHOOSE n \in {t + 1 : t \in Ttls} : \A t \in Ttls : t < n

Infos == [id : Sessions, idle : 0 .. Oldest, model : BOOLEAN]

\* effective_ttl: only a session whose record names the local provider.
EffectiveTtl(info) ==
  IF info.model /\ info.id \in LocalModel THEN LocalTtl ELSE DefaultTtl

\* `idle_s <= ttl_s: continue`; (mutant) milliseconds against seconds.
ExpiredInMillis(info) == 1000 * info.idle > EffectiveTtl(info)
Expired(info) == info.idle > EffectiveTtl(info)

\* What the listing returns: the ListLimit sessions last updated.
Listings ==
  {top \in SUBSET exists :
     /\ Cardinality(top) <= ListLimit
     /\ top # exists => Cardinality(top) = ListLimit
     /\ \A s \in top, t \in exists \ top : age[s] <= age[t]}

\* The next one of the pass, which goes in the order of the listing.
Front(info) == info \in listed /\ \A other \in listed : info.idle <= other.idle

TypeOK ==
  /\ daemon \in {"start", "list", "reap", "sleep", "crashed"}
  /\ due \in Nat
  /\ listed \subseteq Infos
  /\ exists \subseteq Sessions
  /\ model \subseteq Sessions
  /\ running \subseteq exists
  /\ age \in [Sessions -> 0 .. Oldest]
  /\ client \in [Sessions -> {"absent", "ready", "waiting", "dead", "left"}]
  /\ patience \in [Sessions -> Nat]

Init ==
  /\ daemon = "start" /\ due = 0 /\ listed = {}
  /\ exists = {} /\ model = {} /\ running = {}
  /\ age = [s \in Sessions |-> 0]
  /\ client = [s \in Sessions |-> "absent"]
  /\ patience = [s \in Sessions |-> 0]

-----------------------------------------------------------------------------
(* The daemon.                                                             *)

Goto(step, limit) == daemon' = step /\ due' = limit

\* main() logs its settings, then enters the loop.
Start ==
  /\ daemon = "start"
  /\ IF DefaultTtl = Unbound THEN Goto("crashed", 0) ELSE Goto("list", RequestTime)
  /\ UNCHANGED <<listed, server, clients>>

\* list_sessions, and now_ms taken from the clock as it returns.
List ==
  /\ daemon = "list"
  /\ \E top \in Listings :
       listed' = {[id |-> s, idle |-> age[s], model |-> s \in model] : s \in top}
  /\ Goto("reap", RequestTime)
  /\ UNCHANGED <<server, clients>>

ListFails ==
  /\ daemon = "list"
  /\ Goto("sleep", PollInterval)
  /\ UNCHANGED <<listed, server, clients>>

\* A session that is not yet idle long enough; (mutant) and so are the others.
SkipRest(info) ==
  /\ daemon = "reap" /\ Front(info) /\ ~Expired(info)
  /\ listed' = {}
  /\ UNCHANGED <<daemon, due, server, clients>>
Skip(info) ==
  /\ daemon = "reap" /\ Front(info) /\ ~Expired(info)
  /\ listed' = listed \ {info}
  /\ UNCHANGED <<daemon, due, server, clients>>

\* delete_session: the server cancels what runs, and forgets the session;
\* (mutant) it forgets it without cancelling.
DeleteRecordOnly(info) ==
  /\ daemon = "reap" /\ Front(info) /\ Expired(info)
  /\ listed' = listed \ {info}
  /\ due' = RequestTime
  /\ exists' = exists \ {info.id}
  /\ UNCHANGED <<daemon, model, age, running, clients>>
Delete(info) ==
  /\ daemon = "reap" /\ Front(info) /\ Expired(info)
  /\ listed' = listed \ {info}
  /\ due' = RequestTime
  /\ exists' = exists \ {info.id}
  /\ running' = running \ {info.id}
  /\ UNCHANGED <<daemon, model, age, clients>>

\* The delete fails: the next pass will try again.
DeleteFails(info) ==
  /\ daemon = "reap" /\ Front(info) /\ Expired(info)
  /\ listed' = listed \ {info}
  /\ due' = RequestTime
  /\ UNCHANGED <<daemon, server, clients>>

\* The pass is over; time.sleep.
Rest ==
  /\ daemon = "reap" /\ listed = {}
  /\ Goto("sleep", PollInterval)
  /\ UNCHANGED <<listed, server, clients>>

Wake ==
  /\ daemon = "sleep" /\ due = 0
  /\ Goto("list", RequestTime)
  /\ UNCHANGED <<listed, server, clients>>

\* The server accepts a request and then sends nothing: the TimeoutError of
\* the read is no URLError, and nothing catches it.
ReadTimesOut ==
  /\ \/ daemon = "list"
     \/ daemon = "reap" /\ \E info \in listed : Front(info) /\ Expired(info)
  /\ due = 0
  /\ Goto("crashed", 0)
  /\ UNCHANGED <<listed, server, clients>>

Pass == List \/ Rest \/ Wake \/ \E info \in listed : Skip(info)

-----------------------------------------------------------------------------
(* The clients and the server (external).                                  *)

Create(s) ==
  /\ client[s] = "absent"
  /\ exists' = exists \cup {s}
  /\ age' = [age EXCEPT ![s] = 0]
  /\ client' = [client EXCEPT ![s] = "ready"]
  /\ patience' = [patience EXCEPT ![s] = SendDelay]
  /\ UNCHANGED <<reaper, model, running>>

\* A new message names the model and touches the record.
Send(s) ==
  /\ client[s] = "ready" /\ s \in exists
  /\ client' = [client EXCEPT ![s] = "waiting"]
  /\ patience' = [patience EXCEPT ![s] = PostTimeout]
  /\ model' = model \cup {s}
  /\ age' = [age EXCEPT ![s] = 0]
  /\ running' = running \cup {s}
  /\ UNCHANGED <<reaper, exists>>

Answer(s) ==
  /\ client[s] = "waiting" /\ s \in running
  /\ client' = [client EXCEPT ![s] = "ready"]
  /\ patience' = [patience EXCEPT ![s] = SendDelay]
  /\ running' = running \ {s}
  /\ UNCHANGED <<reaper, exists, model, age>>

\* The client is done with the session, or gives up on it, aborting it; the
\* abort may fail.
Leave(s) ==
  /\ client[s] \in {"ready", "waiting"}
  /\ client' = [client EXCEPT ![s] = "left"]
  /\ running' \in {running, running \ {s}}
  /\ UNCHANGED <<reaper, exists, model, age, patience>>

\* The client is killed.
Die(s) ==
  /\ client[s] \in {"ready", "waiting"}
  /\ client' = [client EXCEPT ![s] = "dead"]
  /\ UNCHANGED <<reaper, server, patience>>

\* A client does not let its time run out: it goes on, or it leaves.
Act(s) == patience[s] = 0 /\ (Send(s) \/ Answer(s) \/ Leave(s))

Clients == \E s \in Sessions : Create(s) \/ Send(s) \/ Answer(s) \/ Leave(s) \/ Die(s)

\* Time passes while nobody's step is overdue.
Tick ==
  /\ daemon \in {"list", "reap", "sleep"} => due > 0
  /\ daemon # "start"
  /\ \A s \in Sessions : client[s] \in {"ready", "waiting"} => patience[s] > 0
  /\ due' = IF due > 0 THEN due - 1 ELSE 0
  /\ age' = [s \in Sessions |-> IF s \in exists /\ age[s] < Oldest THEN age[s] + 1
                                                                   ELSE age[s]]
  /\ patience' = [s \in Sessions |-> IF patience[s] > 0 THEN patience[s] - 1 ELSE 0]
  /\ UNCHANGED <<daemon, listed, exists, model, running, client>>

Next ==
  \/ Start \/ Pass \/ ListFails \/ ReadTimesOut
  \/ \E info \in listed : Delete(info) \/ DeleteFails(info)
  \/ Clients \/ Tick

\* The daemon is scheduled, time passes whatever clients do, they keep to their
\* times, and a server asked again and again answers once.
Fairness ==
  /\ WF_vars(Start) /\ WF_vars(Pass) /\ SF_vars(Tick)
  /\ SF_vars(List)
  /\ \A s \in Sessions :
       /\ WF_vars(Act(s))
       /\ SF_vars(\E info \in listed : info.id = s /\ Delete(info))

Spec == Init /\ [][Next]_vars /\ Fairness

-----------------------------------------------------------------------------
(* Properties.                                                             *)

\* The reaper is for abandoned sessions: it never deletes one whose client is
\* still waiting for an answer, whatever happened between the listing and the
\* delete ("without also cutting off legitimate cloud quota-retry waits").
ReapsOnlyAbandoned ==
  [][\A s \in running : s \in exists \ exists' => client[s] # "waiting"]_vars

\* The safety net: while the daemon is up, the turn of a client that died, or
\* whose abort failed, does not run for ever, though opencode retries without
\* end.
OrphansStop ==
  \A s \in Sessions :
    s \in running /\ client[s] \in {"dead", "left"}
      ~> s \notin running \/ daemon = "crashed"

\* "never stops the rest of the pass or crashes the daemon loop" (reap_once).
DaemonStaysUp == daemon # "crashed"

=============================================================================
