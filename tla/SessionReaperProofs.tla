------------------------- MODULE SessionReaperProofs -------------------------
(***************************************************************************)
(* Why SessionReaper never deletes the session of a client that waits: for *)
(* any number of sessions, any listing limit and any delay between the     *)
(* listing and the delete.                                                 *)
(***************************************************************************)
EXTENDS SessionReaper, TLAPS

USE DEF Goto, reaper, server, clients, vars

\* There is an age past every TTL.
LEMMA OldestExists == Oldest \in Nat
  <1>1. \E n \in {t + 1 : t \in Ttls} : \A t \in Ttls : t < n
    <2>1. CASE DefaultTtl \in Ttls /\ LocalTtl < DefaultTtl
      <3>1. \A t \in Ttls : t < DefaultTtl + 1
        BY <2>1, ReaperAssumption DEF Ttls
      <3> QED
        BY <2>1, <3>1
    <2>2. CASE ~(DefaultTtl \in Ttls /\ LocalTtl < DefaultTtl)
      <3>1. LocalTtl \in Ttls
        BY ReaperAssumption DEF Ttls
      <3>2. \A t \in Ttls : t < LocalTtl + 1
        BY <2>2, <3>1, ReaperAssumption DEF Ttls
      <3> QED
        BY <3>1, <3>2
    <2> QED
      BY <2>1, <2>2
  <1>2. \A n \in {t + 1 : t \in Ttls} : n \in Nat
    BY ReaperAssumption
  <1> QED
    BY <1>1, <1>2 DEF Oldest

LEMMA InitTypeOK == Init => TypeOK
  BY OldestExists DEF Init, TypeOK

LEMMA NextTypeOK == TypeOK /\ [Next]_vars => TypeOK'
  <1> SUFFICES ASSUME TypeOK, [Next]_vars PROVE TypeOK'
    OBVIOUS
  <1> USE ReaperAssumption, OldestExists DEF TypeOK
  <1>1. CASE UNCHANGED vars
    BY <1>1
  <1>2. CASE Start
    BY <1>2 DEF Start
  <1>3. CASE List
    <2>1. PICK top \in Listings :
            listed' = {[id |-> s, idle |-> age[s], model |-> s \in model] : s \in top}
      BY <1>3 DEF List
    <2>2. \A s \in top : [id |-> s, idle |-> age[s], model |-> s \in model] \in Infos
      BY <2>1 DEF Listings, Infos
    <2>3. listed' \subseteq Infos
      BY <2>1, <2>2
    <2> QED
      BY <1>3, <2>3 DEF List
  <1>4. CASE ListFails \/ Rest \/ Wake \/ ReadTimesOut
    BY <1>4 DEF ListFails, Rest, Wake, ReadTimesOut
  <1>5. ASSUME NEW info \in listed, Skip(info) \/ Delete(info) \/ DeleteFails(info) PROVE TypeOK'
    BY <1>5 DEF Skip, Delete, DeleteFails
  <1>6. ASSUME NEW s \in Sessions, Create(s) \/ Send(s) \/ Answer(s) PROVE TypeOK'
    BY <1>6 DEF Create, Send, Answer
  <1>7. ASSUME NEW s \in Sessions, Leave(s) \/ Die(s) PROVE TypeOK'
    BY <1>7 DEF Leave, Die
  <1>8. CASE Tick
    BY <1>8 DEF Tick
  <1> QED
    BY <1>1, <1>2, <1>3, <1>4, <1>5, <1>6, <1>7, <1>8 DEF Next, Pass, Clients

\* TypeOK: a running session exists, an age is one the TTLs tell apart.
THEOREM TypeCorrect == Spec => []TypeOK
  BY InitTypeOK, NextTypeOK, PTL DEF Spec

-----------------------------------------------------------------------------
(* What the daemon may delete.                                             *)

\* The TTLs that are there cover the longest time a live client leaves its
\* session untouched; the daemon starts only with both.
Covered == \A t \in {LocalTtl, DefaultTtl} : t \in Nat /\ PostTimeout + SendDelay <= t

Alive(s) == client[s] \in {"ready", "waiting"}

\* A live client's session is as old as what is left of its patience allows.
Young ==
  \A s \in Sessions :
    /\ client[s] = "waiting" => age[s] + patience[s] <= PostTimeout
    /\ client[s] = "ready" => age[s] + patience[s] <= PostTimeout + SendDelay

\* What is listed and expired was abandoned at the listing, and is for good.
Abandoned == \A info \in listed : Expired(info) => client[info.id] \in {"dead", "left"}

IInv ==
  /\ TypeOK /\ Young /\ Abandoned
  /\ \A s \in exists : client[s] # "absent"

LEMMA NextYoung == IInv /\ [Next]_vars => Young'
  <1> SUFFICES ASSUME IInv, [Next]_vars PROVE Young'
    OBVIOUS
  <1> USE ReaperAssumption, OldestExists DEF IInv, TypeOK, Young
  <1>1. CASE UNCHANGED <<age, client, patience>>
    BY <1>1
  <1>2. ASSUME NEW s \in Sessions, Create(s) PROVE Young'
    BY <1>2 DEF Create
  <1>3. ASSUME NEW s \in Sessions, Send(s) PROVE Young'
    BY <1>3 DEF Send
  <1>4. ASSUME NEW s \in Sessions, Answer(s) PROVE Young'
    BY <1>4 DEF Answer
  <1>5. ASSUME NEW s \in Sessions, Leave(s) \/ Die(s) PROVE Young'
    BY <1>5 DEF Leave, Die
  <1>6. CASE Tick
    BY <1>6 DEF Tick
  <1>7. ASSUME \/ Start \/ Pass \/ ListFails \/ ReadTimesOut
               \/ \E info \in listed : Delete(info) \/ DeleteFails(info)
        PROVE  UNCHANGED <<age, client, patience>>
    BY <1>7 DEF Start, Pass, List, Rest, Wake, Skip, ListFails, ReadTimesOut, Delete, DeleteFails
  <1> QED
    BY <1>1, <1>2, <1>3, <1>4, <1>5, <1>6, <1>7 DEF Next, Clients

LEMMA NextAbandoned == ASSUME Covered PROVE IInv /\ [Next]_vars => Abandoned'
  <1> SUFFICES ASSUME IInv, [Next]_vars PROVE Abandoned'
    OBVIOUS
  <1> USE ReaperAssumption DEF IInv, TypeOK, Abandoned
  <1>1. ASSUME listed' \subseteq listed, \A s \in Sessions : client[s] \in {"dead", "left"} =>
                                           client'[s] \in {"dead", "left"}
        PROVE  Abandoned'
    <2>1. \A info \in listed' : info.id \in Sessions
      BY <1>1 DEF Infos
    <2> QED
      BY <1>1, <2>1 DEF Expired, EffectiveTtl
  <1>2. CASE List
    <2>1. PICK top \in Listings :
            listed' = {[id |-> s, idle |-> age[s], model |-> s \in model] : s \in top}
      BY <1>2 DEF List
    <2>2. client' = client
      BY <1>2 DEF List
    <2>3. ASSUME NEW info \in listed', Expired(info) PROVE client'[info.id] \in {"dead", "left"}
      <3>1. PICK s \in top : info = [id |-> s, idle |-> age[s], model |-> s \in model]
        BY <2>1
      <3>2. s \in Sessions /\ client[s] # "absent"
        BY <2>1 DEF Listings
      <3>3. PICK t \in {LocalTtl, DefaultTtl} : age[s] > t
        BY <2>3, <3>1 DEF Expired, EffectiveTtl
      <3>4. age[s] > PostTimeout + SendDelay
        BY <3>2, <3>3, OldestExists DEF Covered
      <3>5. ~Alive(s)
        BY <3>2, <3>4, OldestExists DEF Young, Alive
      <3> QED
        BY <2>2, <3>1, <3>2, <3>5 DEF Alive
    <2> QED
      BY <2>3 DEF Expired, EffectiveTtl
  <1>3. ASSUME \/ Start \/ Rest \/ Wake \/ ListFails \/ ReadTimesOut \/ Tick \/ UNCHANGED vars
               \/ \E info \in listed : Skip(info) \/ Delete(info) \/ DeleteFails(info)
        PROVE  listed' \subseteq listed /\ client' = client
    BY <1>3 DEF Start, Rest, Wake, ListFails, ReadTimesOut, Tick, Skip, Delete, DeleteFails
  <1>4. ASSUME NEW s \in Sessions, Create(s) \/ Send(s) \/ Answer(s) \/ Leave(s) \/ Die(s)
        PROVE  /\ listed' = listed
               /\ \A u \in Sessions : client[u] \in {"dead", "left"} =>
                                     client'[u] \in {"dead", "left"}
    BY <1>4 DEF Create, Send, Answer, Leave, Die
  <1> QED
    BY <1>1, <1>2, <1>3, <1>4 DEF Next, Pass, Clients

LEMMA NextIInv == ASSUME Covered PROVE IInv /\ [Next]_vars => IInv'
  <1> SUFFICES ASSUME IInv, [Next]_vars PROVE (\A s \in exists : client[s] # "absent")'
    BY NextTypeOK, NextYoung, NextAbandoned DEF IInv
  <1> USE DEF IInv, TypeOK
  <1>1. ASSUME \/ Start \/ Pass \/ ListFails \/ ReadTimesOut \/ Tick \/ UNCHANGED vars
               \/ \E info \in listed : Delete(info) \/ DeleteFails(info)
        PROVE  exists' \subseteq exists /\ client' = client
    BY <1>1 DEF Start, Pass, List, Rest, Wake, Skip, ListFails, ReadTimesOut, Tick, Delete,
         DeleteFails
  <1>2. ASSUME NEW s \in Sessions, Create(s) \/ Send(s) \/ Answer(s) \/ Leave(s) \/ Die(s)
        PROVE  (\A u \in exists : client[u] # "absent")'
    BY <1>2 DEF Create, Send, Answer, Leave, Die
  <1> QED
    BY <1>1, <1>2 DEF Next, Clients

\* ReapsOnlyAbandoned: with TTLs that cover a client's longest silence, no
\* session is deleted under a client that waits, however old the listing is.
THEOREM ReapsTheAbandoned == ASSUME Covered PROVE Spec => ReapsOnlyAbandoned
  <1>1. Init => IInv
    BY InitTypeOK DEF Init, IInv, Young, Abandoned
  <1>2. ASSUME IInv, [Next]_vars, NEW s \in running, s \in exists \ exists'
        PROVE  client[s] # "waiting"
    <2>1. PICK info \in listed : Delete(info)
      BY <1>2 DEF Next, Start, Pass, List, Rest, Wake, Skip, ListFails, ReadTimesOut, Tick,
         DeleteFails, Clients, Create, Send, Answer, Leave, Die
    <2>2. info.id = s /\ Expired(info)
      BY <1>2, <2>1 DEF Delete
    <2> QED
      BY <1>2, <2>2 DEF IInv, Abandoned
  <1>3. IInv /\ [Next]_vars =>
          [\A s \in running : s \in exists \ exists' => client[s] # "waiting"]_vars
    BY <1>2
  <1> QED
    BY <1>1, NextIInv, <1>3, PTL DEF Spec, ReapsOnlyAbandoned

=============================================================================
