----------------------------- MODULE MCReflection -----------------------------
EXTENDS Reflection
MCTrain == << <<"hot", "fix">>, <<"fix">>, <<"log">> >>
MCReported == [t \in Range(MCTrain) |-> <<"ds">> \o t]
MCMaxGen == [gepa |-> 2, ahe |-> 3, aevolve |-> 2]
MCVectors ==
  LET v(a, b, c) == (<<"ds", "fix">> :> a) @@ (<<"ds", "hot", "fix">> :> b) @@ (<<"ds", "log">> :> c)
  IN  {v("pass", "fail", "infra"), v("fail", "pass", "pass")}
MCFirstVectors == {CHOOSE v \in MCVectors : v[<<"ds", "log">>] = "infra"}
MCManifests ==
  {[predicted |-> { <<"log">>, <<"fix">> }, risks |-> { <<"ds", "fix">> }],
   [predicted |-> { <<"ds", "hot", "fix">> }, risks |-> {}]}
=============================================================================
