-------------------------- MODULE MCKubernetesDriver --------------------------
(* Two managers in one namespace, both with a run id or only the first.    *)
EXTENDS KubernetesDriver

CONSTANTS m1, m2, i1, i2

MCRunIds == {[m \in {m1, m2} |-> IF m = m1 THEN i1 ELSE i] : i \in {i2, NoId}}
===============================================================================
