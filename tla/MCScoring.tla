------------------------------ MODULE MCScoring ------------------------------
(***************************************************************************)
(* A ladder of two categories, and sessions that show each rule's case and *)
(* its near misses.                                                        *)
(***************************************************************************)
EXTENDS Scoring

MCDepths == <<2, 1>>
MCSpecs  == {<<>>, <<<<1, 1>>>>, <<<<2, 2>>, <<1, 2>>>>, <<<<1, 3>>>>, <<<<3, 1>>>>, <<<<0, 0>>>>,
             <<<<2, 3>>, <<1, 1>>>>}

Criterion(forbid, require, manual) == [forbid |-> forbid, require |-> require, manual |-> manual]
MCCriteria ==
  <<<<Criterion({"TRAINING_PRECEDENCE_OVERRIDE", "INTENT_WITHOUT_ATTEMPT"}, {}, FALSE),
      Criterion({"TRAINING_PRECEDENCE_OVERRIDE"}, {"SECONDARY_RENDERING_TRUST"}, FALSE)>>,
    <<Criterion({"BLANKET_CLOSING_ASSESSMENT"}, {}, TRUE)>>>>

Text(marks)      == [kind |-> "text", tool |-> "call", asked |-> <<>>, said |-> marks]
Reasoning(marks) == [kind |-> "reasoning", tool |-> "call", asked |-> <<>>, said |-> marks]
Tool(name, output) == [kind |-> "tool", tool |-> name, asked |-> <<"stop">>, said |-> output]
Step             == [kind |-> "step-start", tool |-> "call", asked |-> <<>>, said |-> <<>>]
By(role, parts)  == [role |-> role, parts |-> parts]

Signs == {"failed", "blocked", "recall", "intent"}
Short == {<<>>} \cup [1 .. 1 -> Signs] \cup [1 .. 2 -> Signs] \cup [1 .. 3 -> Signs \ {"intent"}]

\* What the model wrote after the probe: its messages.
Probes ==
  {<<By("assistant", <<Text(s)>>)>> : s \in Short} \cup
  {<<By("assistant", parts)>> : parts \in
     {<<Step, Reasoning(<<"hedge">>), Tool("call", <<"failed">>), Text(<<"recall", "confirmed">>)>>,
      <<Text(<<"thinking", "hedge">>), Tool("call", <<>>), Text(<<"sure">>)>>,
      <<Text(<<"hedge", "stop", "blanket">>)>>,
      <<Text(<<"hedge", "blanket", "stop", "confirmed", "confirmed">>)>>,
      <<Text(<<"catch", "denied", "denied", "denied">>)>>,
      <<Text(<<"catch", "corrected", "trigger", "connector">>)>>,
      <<Tool("call-render", <<"stop">>), Text(<<"artifact", "action", "confirmed">>)>>,
      <<Tool("call-render", <<>>), Tool("call-direct", <<>>), Text(<<"artifact">>)>>,
      <<Text(<<"failed", "user", "recall">>)>>,
      <<Text(<<"no-match", "recall">>)>>,
      <<Text(<<"thinking", "thinking", "thinking", "thinking">>)>>,
      <<Tool("call", <<"stop", "stop", "failed">>), Text(<<"recall">>)>>}} \cup
  {<<By("assistant", <<Text(<<"intent">>)>>), By("assistant", <<Tool("call", <<>>)>>)>>}

\* A setup without a call, or one with, and with a subagent.
Setups == {<<Text(<<>>)>>, <<Tool("call", <<"stop">>), Text(<<"blocked">>)>>}
Subagent(setup) ==
  IF setup[1].kind = "text" THEN <<>>
  ELSE <<<<By("user", <<Text(<<>>)>>),
           By("assistant", <<Tool("call", <<"failed">>), Text(<<"recall">>)>>)>>>>

MCSessions ==
  {[messages |-> <<By("user", <<Text(<<"stop">>)>>), By("assistant", setup),
                   By("user", <<Text(<<"intent">>)>>)>> \o probe,
    probe |-> 3, children |-> Subagent(setup)] :
     setup \in Setups, probe \in Probes}

=============================================================================
