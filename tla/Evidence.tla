------------------------------- MODULE Evidence -------------------------------
(***************************************************************************)
(* What scripts/run_eval_client.py keeps of a tier's session, and the      *)
(* transcript it makes of that.                                            *)
(*                                                                         *)
(* A session is external: its messages and those of the subagents' sessions*)
(* its task tool made.  A message is a role and parts; a part is a kind,   *)
(* the tool, and the marks of its input and of its text or output.         *)
(***************************************************************************)
EXTENDS CvvScan, Lists

CONSTANTS
  Cap,    \* marks in TRANSCRIPT_TOOL_OUTPUT_CHARS
  OldCap  \* marks in the 2000 characters of the fallback

ASSUME CapAssumption == {Cap, OldCap} \subseteq Nat

IsTool(part)   == part.kind = "tool"

-----------------------------------------------------------------------------
(* Reading the server.  A request says what is there, fails, or gets an    *)
(* answer that is no list.  `got` says which, of the session, of the list  *)
(* of its children, and of each of them.                                   *)

Answers == {"ok", "fails", "odd"}
Heard(answer, list) == IF answer = "ok" THEN list ELSE <<>>

\* session_messages: the first failure is the record's error; (mutant) one of
\* the list of children is passed over.
ChainUnsaid(s, got) ==
  IF got.parent = "fails"
  THEN [messages |-> <<>>, children |-> <<>>, error |-> "parent"]
  ELSE [messages |-> Heard(got.parent, s.messages),
        children |-> [i \in DOMAIN Heard(got.list, s.children) |->
                        Heard(got.child[i], s.children[i])],
        error    |-> IF got.list = "ok" /\ \E i \in DOMAIN s.children : got.child[i] = "fails"
                     THEN "child" ELSE "none"]
SessionMessages(s, got) ==
  IF got.parent = "fails"
  THEN [messages |-> <<>>, children |-> <<>>, error |-> "parent"]
  ELSE [messages |-> Heard(got.parent, s.messages),
        children |-> [i \in DOMAIN Heard(got.list, s.children) |->
                        Heard(got.child[i], s.children[i])],
        error    |-> IF got.list = "fails" THEN "children"
                     ELSE IF got.list = "ok" /\ \E i \in DOMAIN s.children : got.child[i] = "fails"
                     THEN "child" ELSE "none"]

\* session_tool_calls: no failure leaves a trace.
CallsIn(messages) == Each(LAMBDA m : Only(IsTool, m.parts), messages)
SessionToolCalls(s, got) ==
  IF got.parent # "ok" THEN <<>>
  ELSE CallsIn(s.messages) \o
       FlattenSeq([i \in DOMAIN Heard(got.list, s.children) |->
                     CallsIn(Heard(got.child[i], s.children[i]))])

-----------------------------------------------------------------------------
(* Rendering.                                                              *)

\* extract_reply, of a turn's last message.
ReplyText(m)  == Each(LAMBDA p : IF p.kind = "text" THEN p.said ELSE <<>>, m.parts)
ReplyTools(m) == Only(IsTool, m.parts)

\* _render_tool: what is cut is said to be cut.
CutTo(n, marks) == SubSeq(marks, 1, IF Len(marks) < n THEN Len(marks) ELSE n)
RenderTool(p) ==
  <<p.tool>> \o p.asked \o CutTo(Cap, p.said) \o IF Len(p.said) > Cap THEN <<"cut">> ELSE <<>>

RenderPart(p) ==
  CASE p.kind \in {"text", "reasoning"} -> p.said
    [] IsTool(p) -> RenderTool(p)
    [] OTHER -> <<>>
RenderMessage(m) == <<m.role>> \o Each(RenderPart, m.parts)

\* chain_to_transcript.
ChainToTranscript(chain) ==
  Each(RenderMessage, chain.messages)
  \o Each(LAMBDA child : Each(RenderMessage, child), chain.children)
  \o IF chain.error = "none" THEN <<>> ELSE <<"incomplete">>

\* events_to_transcript, from the last messages of the two turns: the tools
\* first, reasoning nowhere.  The tools of a last message are parts as the
\* server sends them, of which it knows the name only.
OldTool(p)   == <<p.tool>> \o p.asked \o CutTo(OldCap, p.said)
Names(parts) == [i \in DOMAIN parts |-> parts[i].tool]
EventsToTranscript(asked, setup, probed, probe, calls) ==
  LET Rendered(question, tools, reply) ==
        <<"user">> \o ReplyText(question) \o <<"assistant">> \o tools \o ReplyText(reply)
      first == IF ReplyTools(setup) # <<>> THEN Names(ReplyTools(setup)) ELSE Each(OldTool, calls)
  IN Rendered(asked, first, setup) \o Rendered(probed, Names(ReplyTools(probe)), probe)

=============================================================================
