------------------------------ MODULE ServerWait ------------------------------
(***************************************************************************)
(* wait_for_server of scripts/e2e_session_probe.py: which of some          *)
(* addresses has a server, for a caller who may have just started one.     *)
(*                                                                         *)
(* The servers are external.  One that has been started binds its port     *)
(* late (its entrypoint discovers models, then warms the catalogue), and   *)
(* answers later still.  Time is what the waiting itself takes.            *)
(***************************************************************************)
EXTENDS Integers, Sequences

CONSTANTS
  Addresses,
  SweepTimeout,  \* SWEEP_TIMEOUT_S
  BindPoll       \* BIND_POLL_INTERVAL_S

ASSUME WaitAssumption == {SweepTimeout, BindPoll} \subseteq Nat \ {0}

VARIABLES
  srv,         \* what is at each address
  waiting,     \* where the wait is, or how it ended
  candidates,  \* the addresses it tries, in order
  at,          \* the one it is at, or has settled on
  limit,       \* ready_timeout
  expect,      \* expect_server
  elapsed,     \* time since the wait began
  heard        \* what the last probe said

wait == <<waiting, candidates, at, limit, expect, elapsed, heard>>

States == {"none", "starting", "slow", "up"}

WaitTypeOK ==
  /\ srv \in [Addresses -> States]
  /\ waiting \in {"off", "sweep", "long", "nap", "answered", "gaveup"}
  /\ candidates \in Seq(Addresses)
  /\ at \in 1 .. Len(candidates) + 1
  /\ limit \in Nat /\ elapsed \in Nat /\ expect \in BOOLEAN
  /\ heard \in {"none", "up", "slow", "absent"}

WaitInit ==
  /\ waiting = "off" /\ candidates = <<>> /\ at = 1
  /\ limit = 0 /\ expect = FALSE /\ elapsed = 0 /\ heard = "none"

WaitFor(tried, ready, expected) ==
  /\ waiting' = "sweep" /\ candidates' = tried /\ at' = 1
  /\ limit' = ready /\ expect' = expected /\ elapsed' = 0 /\ heard' = "none"

\* probe: a refused connection is a real answer, and it comes at once.
Probe(c) == IF srv[c] \in {"up", "slow"} THEN srv[c] ELSE "absent"

After(time) == elapsed' = elapsed + time
Settle(how) == waiting' = how /\ UNCHANGED <<candidates, at, limit, expect>>

\* The sweep: a slow candidate ends it, an absent one does not.
SweepProbe ==
  /\ waiting = "sweep" /\ at <= Len(candidates) /\ heard' = Probe(candidates[at])
  /\ \/ heard' = "up" /\ Settle("answered") /\ After(0)
     \/ heard' = "slow" /\ Settle("long") /\ After(SweepTimeout)
     \/ /\ heard' = "absent"
        /\ at' = at + 1 /\ After(0) /\ UNCHANGED <<waiting, candidates, limit, expect>>
  /\ UNCHANGED srv

\* Nothing is listening: an answer, unless a server is expected; (mutant) an
\* answer all the same.
SweepOverAtOnce ==
  /\ waiting = "sweep" /\ at > Len(candidates)
  /\ Settle("gaveup") /\ UNCHANGED <<elapsed, heard, srv>>
SweepOver ==
  /\ waiting = "sweep" /\ at > Len(candidates)
  /\ Settle(IF expect /\ elapsed < limit THEN "nap" ELSE "gaveup")
  /\ UNCHANGED <<elapsed, heard, srv>>

\* time.sleep, and the next sweep; (mutant) with a deadline of its own.
NapAnew ==
  /\ waiting = "nap"
  /\ waiting' = "sweep" /\ at' = 1 /\ elapsed' = 0
  /\ UNCHANGED <<candidates, limit, expect, heard, srv>>
Nap ==
  /\ waiting = "nap"
  /\ waiting' = "sweep" /\ at' = 1 /\ After(BindPoll)
  /\ UNCHANGED <<candidates, limit, expect, heard, srv>>

\* One long request, as long as the time that is left.  A quick answer other
\* than "up" is asked again at once; it takes the least time there is.
LongProbe ==
  /\ waiting = "long" /\ elapsed < limit /\ heard' = Probe(candidates[at])
  /\ \/ heard' = "up" /\ Settle("answered") /\ After(0)
     \/ heard' = "slow" /\ Settle("long") /\ After(limit - elapsed)
     \/ heard' = "absent" /\ Settle("long") /\ After(1)
  /\ UNCHANGED srv

LongOver ==
  /\ waiting = "long" /\ elapsed >= limit
  /\ Settle("gaveup") /\ UNCHANGED <<elapsed, heard, srv>>

WaitStep == SweepProbe \/ SweepOver \/ Nap \/ LongProbe \/ LongOver

=============================================================================
