---------------------------- MODULE MCSessionBasic ----------------------------
(***************************************************************************)
(* Instances of SessionBasic for TLC.                                       *)
(***************************************************************************)
EXTENDS SessionBasic, TLC

Config(sampler, heads, dynamic, draft, suffix) ==
    [sampler |-> sampler, heads |-> heads, dynamic |-> dynamic, draft |-> draft,
     suffix |-> suffix, increment |-> 1, chunk |-> 0]

MCConfigs ==
    { Config("internal", 2, FALSE, 0, <<>>), Config("ahead", 1, FALSE, 0, <<>>),
      Config("external", 2, FALSE, 0, <<>>), Config("draft", 1, FALSE, 1, <<>>),
      Config("internal", 1, TRUE, 0, <<1>>), Config("npu", 1, FALSE, 0, <<1>>) }

\* The dynamic executor with the sampler that a session has on the CPU.
MCDynamic == { Config("external", 1, TRUE, 0, <<>>) }

MCPrompts == {<<1, 2>>, <<-1, 1>>}
MCTargets == {<<2, 1>>}
MCLabels == Permutations(Label)
=============================================================================
