------------------------ MODULE MCCompositeEmbedder ------------------------
(***************************************************************************)
(* Instances of CompositeEmbedder for TLC: three test texts and a query,   *)
(* and remote models that agree, that differ on one test text, that answer *)
(* two embeddings for three texts, and of one and two dimensions.            *)
(***************************************************************************)
EXTENDS CompositeEmbedder

CONSTANTS t1, t2, t3, q

MCTestTexts == <<t1, t2, t3>>
MCTexts == {t1, t2, t3, q}
MCKinds == {"HuggingFace", "OpenAi", "UserProvided"}

Vectors(v1, v2, v3, vq) == [x \in MCTexts |-> CASE x = t1 -> v1 [] x = t2 -> v2 [] x = t3 -> v3 [] OTHER -> vq]
(* two models of the same space, one scaled: cosine distance 0 *)
Plane == [dims |-> 2, vec |-> Vectors(<<1, 0>>, <<0, 1>>, <<1, 1>>, <<2, 1>>), count |-> 3]
Scaled == [dims |-> 2, vec |-> Vectors(<<2, 0>>, <<0, 2>>, <<2, 2>>, <<1, 2>>), count |-> 3]
(* agrees with Plane on t1 and t2 only, and answers two of three texts *)
Truncated == [dims |-> 2, vec |-> Vectors(<<1, 0>>, <<0, 1>>, <<1, -1>>, <<2, 1>>), count |-> 2]
(* a model whose test texts lie on one axis, and a one-dimensional model *)
(* whose vectors are that axis: they agree on the common prefix           *)
Axis == [dims |-> 2, vec |-> Vectors(<<1, 0>>, <<2, 0>>, <<3, 0>>, <<0, 1>>), count |-> 3]
Line == [dims |-> 1, vec |-> Vectors(<<1>>, <<2>>, <<3>>, <<1>>), count |-> 3]
MCModels == {Plane, Scaled, Truncated, Axis, Line}
=============================================================================
