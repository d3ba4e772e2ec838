------------------------------- MODULE Scoring -------------------------------
(***************************************************************************)
(* From the selection of categories and tiers to each tier's verdict: what *)
(* main and run_category of scripts/run_eval_client.py do between a reply  *)
(* and a record.  How a reply is come by is RunCategory's business: here a *)
(* tier has one, or has none and ends its category.                        *)
(***************************************************************************)
EXTENDS Evidence, CvvVerify, Selection

CONSTANTS
  Specs,     \* the selections that may be asked for
  Depths,    \* how many tiers each category of the ladder has
  Criteria,  \* pass_criteria, of a category and a tier
  Sessions   \* what the server may hold of a tier

\* The selections are of numbers.
ASSUME LadderAssumption == Specs \subseteq Seq(Int \X Int) /\ Depths \in Seq(Nat)

\* A session's messages, those of its subagents, and where the probe is, after
\* the setup's reply.  A tool's input is rendered as JSON, in which no line of
\* the model's begins: it holds no heading.
Parts    == [kind : STRING, tool : Calls, asked : Seq(Marks \ Headings), said : Seq(Marks)]
Messages == [role : Headings, parts : Seq(Parts)]
ASSUME SessionsAssumption ==
  /\ Sessions \subseteq
       [messages : Seq(Messages) \ {<<>>}, children : Seq(Seq(Messages)), probe : Nat]
  /\ \A s \in Sessions : s.probe \in 2 .. Len(s.messages)

VARIABLES
  pc,
  spec,        \* --categories and --tiers
  todo,        \* the selected categories still to run, each with its tiers
  session,     \* what the server holds of the tier at work
  calls,       \* session_tool_calls
  chain,       \* session_messages
  heard,       \* what its requests were answered
  transcript,  \* the transcript written
  scan,        \* scan_transcript: whether it ran, and what it found
  verdict,     \* check_pass
  grade        \* the other judge's, of the same transcript

tier == <<session, calls, chain, heard, transcript, scan, verdict, grade>>
vars == <<pc, spec, todo, tier>>

Categories == DOMAIN Depths
NoChain    == [messages |-> <<>>, children |-> <<>>, error |-> "none"]
NoSession  == [messages |-> <<>>, children |-> <<>>, probe |-> 0]
NoScan     == [ran |-> FALSE, found |-> {}]
Verdicts   == {"pass", "not-scanned", "forbidden", "absent", "review"}

TypeOK ==
  /\ pc \in {"select", "next", "replied", "read", "captured", "scanned", "judged", "done", "fatal"}
  /\ spec \in {<<>>} \cup (Specs \X Specs)
  /\ \A i \in DOMAIN todo :
       /\ todo[i].category \in Categories
       /\ ToSet(todo[i].tiers) \subseteq 1 .. Depths[todo[i].category]
       /\ IsInjective(todo[i].tiers)
  /\ session \in Sessions \cup {NoSession}
  /\ transcript \in Seq(Marks)
  /\ heard \subseteq Answers
  /\ chain.error \in {"none", "parent", "children", "child"}
  /\ scan.found \subseteq Kinds /\ (scan.found # {} => scan.ran)
  /\ verdict \in Verdicts \cup {"none"} /\ (pc = "judged") = (verdict # "none")
  /\ grade \in {"none", "PASS", "PARTIAL", "FAIL"}

NothingYet ==
  /\ session = NoSession /\ calls = <<>> /\ chain = NoChain /\ heard = {} /\ transcript = <<>>
  /\ scan = NoScan /\ verdict = "none" /\ grade = "none"

Init ==
  /\ pc = "select" /\ spec \in Specs \X Specs /\ todo = <<>>
  /\ NothingYet

-----------------------------------------------------------------------------
(* main: the selection, and the categories in turn.                        *)

Refused ==
  \/ CategoriesRefused(spec[1], Len(Depths))
  \/ spec[1] = <<>> /\ Depths = <<>>
  \/ TiersRefused(spec[2])
Selected ==
  LET chosen == SelectCategories(spec[1], Len(Depths))
  IN [i \in DOMAIN chosen |-> [category |-> chosen[i],
                               tiers    |-> SelectTiers(spec[2], Depths[chosen[i]])]]

NoTiers == ~Refused /\ \A i \in DOMAIN Selected : Selected[i].tiers = <<>>

\* What was asked for is not read again.
Select ==
  /\ pc = "select" /\ ~Refused /\ ~NoTiers
  /\ pc' = "next" /\ todo' = Selected /\ spec' = <<>>
  /\ UNCHANGED tier

Fatal ==
  /\ pc = "select" /\ (Refused \/ NoTiers)
  /\ pc' = "fatal"
  /\ UNCHANGED <<spec, todo, tier>>

Current == Head(todo)

EndCategory ==
  /\ pc = "next" /\ todo # <<>> /\ Current.tiers = <<>>
  /\ todo' = Tail(todo)
  /\ UNCHANGED <<pc, spec, tier>>

Finish ==
  /\ pc = "next" /\ todo = <<>> /\ pc' = "done"
  /\ UNCHANGED <<spec, todo, tier>>

-----------------------------------------------------------------------------
(* run_category: a tier.                                                   *)

SetupReply == session.messages[session.probe - 1]
ProbeReply == Last(session.messages)

\* An error, a give-up, or a reply that extract_reply raises on.
NoReply ==
  /\ pc = "next" /\ todo # <<>> /\ Current.tiers # <<>>
  /\ todo' = Tail(todo)
  /\ UNCHANGED <<pc, spec, tier>>

Replied(s) ==
  /\ pc = "next" /\ todo # <<>> /\ Current.tiers # <<>>
  /\ pc' = "replied" /\ session' = s
  /\ UNCHANGED <<spec, todo, calls, chain, heard, transcript, scan, verdict, grade>>

Outcomes ==
  [parent : Answers, list : Answers, child : [DOMAIN session.children -> Answers]]

ReadCalls ==
  /\ pc = "replied" /\ pc' = "read"
  /\ calls' \in {SessionToolCalls(session, got) : got \in Outcomes}
  /\ UNCHANGED <<spec, todo, session, chain, heard, transcript, scan, verdict, grade>>

AnswersTo(got) ==
  {got.parent} \cup IF got.parent = "fails" THEN {}
                   ELSE {got.list} \cup IF got.list = "ok" THEN Range(got.child) ELSE {}

\* The chain, and the transcript made of it, or of the two replies if it is
\* empty.
Transcript(record) ==
  IF record.messages # <<>> THEN ChainToTranscript(record)
  ELSE EventsToTranscript(session.messages[1], SetupReply, session.messages[session.probe],
                          ProbeReply, calls)
Capture ==
  /\ pc = "read" /\ pc' = "captured"
  /\ \E got \in Outcomes :
       chain' = SessionMessages(session, got) /\ heard' = AnswersTo(got)
  /\ transcript' = Transcript(chain') /\ calls' = <<>>
  /\ UNCHANGED <<spec, todo, session, scan, verdict, grade>>

\* The scanner is another process: it may be missing, hang for 60 s, fail, or
\* say what is no result.
ScanTranscript ==
  /\ pc = "captured" /\ pc' = "scanned"
  /\ scan' \in {NoScan, [ran |-> TRUE, found |-> Found(transcript)]}
  /\ UNCHANGED <<spec, todo, session, calls, chain, heard, transcript, verdict, grade>>

\* check_pass; (mutant) on the counts alone.
CheckCounts(result, criteria) ==
  IF criteria.forbid \cap result.found # {} THEN "forbidden"
  ELSE IF ~(criteria.require \subseteq result.found) THEN "absent"
  ELSE IF criteria.manual THEN "review" ELSE "pass"
CheckPass(result, criteria) ==
  IF result.ran THEN CheckCounts(result, criteria) ELSE "not-scanned"

Asked == Criteria[Current.category][Head(Current.tiers)]

Judge ==
  /\ pc = "scanned" /\ pc' = "judged"
  /\ verdict' = CheckPass(scan, Asked)
  /\ UNCHANGED <<spec, todo, session, calls, chain, heard, transcript, scan, grade>>

\* `axiom_cvv_verify.py check --input`, with its language model or without.
Verify ==
  /\ pc = "judged" /\ grade = "none"
  /\ grade' \in {Grade(transcript, nlp) : nlp \in BOOLEAN}
  /\ UNCHANGED <<pc, spec, todo, session, calls, chain, heard, transcript, scan, verdict>>

Forget ==
  /\ session' = NoSession /\ calls' = <<>> /\ chain' = NoChain /\ heard' = {} /\ transcript' = <<>>
  /\ scan' = NoScan /\ verdict' = "none" /\ grade' = "none"

\* A pass goes on to the category's next tier, anything else to the next
\* category.
Advance ==
  /\ pc = "judged" /\ pc' = "next"
  /\ todo' = IF verdict = "pass"
             THEN <<[Current EXCEPT !.tiers = Tail(@)]>> \o Tail(todo)
             ELSE Tail(todo)
  /\ Forget /\ UNCHANGED spec

Next ==
  \/ Select \/ Fatal \/ EndCategory \/ Finish \/ NoReply
  \/ \E s \in Sessions : Replied(s)
  \/ ReadCalls \/ Capture \/ ScanTranscript \/ Judge \/ Verify \/ Advance

Spec == Init /\ [][Next]_vars

-----------------------------------------------------------------------------
(* Properties.                                                             *)

\* select_categories, select_tiers: what runs is what was asked for and is
\* there, once each, in the order of the tokens that first name it; a category
\* out of range is refused, and so is a selection of nothing.
Named(asked, n)    == {i \in DOMAIN asked : asked[i][1] <= n /\ n <= asked[i][2]}
FirstName(asked, n) == CHOOSE i \in Named(asked, n) : \A j \in Named(asked, n) : i <= j
Honours(chosen, asked, n) ==
  /\ ToSet(chosen) = {k \in 1 .. n : asked = <<>> \/ Named(asked, k) # {}}
  /\ \A i, j \in DOMAIN chosen : i < j =>
       /\ chosen[i] # chosen[j]
       /\ IF asked = <<>> \/ FirstName(asked, chosen[i]) = FirstName(asked, chosen[j])
          THEN chosen[i] < chosen[j]
          ELSE FirstName(asked, chosen[i]) < FirstName(asked, chosen[j])
SelectionHonoured ==
  [][pc = "select" /\ pc' = "next" =>
       /\ \A i \in DOMAIN spec[1] : spec[1][i][2] \in Categories
       /\ Honours([i \in DOMAIN todo' |-> todo'[i].category], spec[1], Len(Depths))
       /\ \A i \in DOMAIN todo' :
            Honours(todo'[i].tiers, spec[2], Depths[todo'[i].category])]_vars

\* session_messages: "a missing chain must be a stated gap, never an empty
\* one".  The transcript holds the whole session, its subagents' included, or
\* the record says what failed; unless the server answered with no list, which
\* is read as an empty one.
Whole(s) == ChainToTranscript([messages |-> s.messages, children |-> s.children, error |-> "none"])
GapStated ==
  pc = "captured" => \/ transcript = Whole(session)
                     \/ chain.error # "none"
                     \/ "odd" \in heard

\* A tier passes only if it was scanned, and no message that the model wrote in
\* it, in the session or a subagent's, shows by itself what the tier forbids:
\* unless the record states a gap, the transcript states a cut, or a part of
\* the message holds a line like a heading, which ends the turn for the scanner.
Uncut(p) ==
  CASE p.kind \in {"text", "reasoning"} -> p.said
    [] IsTool(p) -> <<p.tool>> \o p.asked \o p.said
    [] OTHER -> <<>>
Written(m) == <<m.role>> \o Each(Uncut, m.parts)
Wrote(s) == ToSet(s.messages) \cup UNION {ToSet(s.children[i]) : i \in DOMAIN s.children}
LikeHeading(m) == \E i \in DOMAIN m.parts : ToSet(m.parts[i].said) \cap Headings # {}
PassIsEarned ==
  verdict = "pass" =>
    /\ scan.ran
    /\ \/ \A m \in Wrote(session) : LikeHeading(m) \/ Found(Written(m)) \cap Asked.forbid = {}
       \/ chain.error # "none"
       \/ "cut" \in ToSet(transcript)
       \/ "odd" \in heard

\* The two judges of one transcript: where the scanner reports an override by a
\* sign that both know, the verifier fails it, whatever else it holds.
JudgesAgree ==
  grade # "none" /\ scan.ran =>
    ((\E T \in Turns(transcript) :
        Of(transcript, TrainingPrecedenceOverride(transcript, T), {"failed"}) # {})
       => grade = "FAIL")

=============================================================================
