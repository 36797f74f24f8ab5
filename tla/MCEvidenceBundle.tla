-------------------------- MODULE MCEvidenceBundle --------------------------
EXTENDS EvidenceBundle

Config(id, backend, policy, build) ==
  [id |-> id, backend |-> backend, policy |-> policy, build |-> build]

MCPlans == {Config(1, "native", "semantic_and_physical", "clean"),
            Config(2, "native", "semantic", "clean"),
            Config(3, "python", "semantic_and_physical", "clean")}
MCConfigs == MCPlans \cup {Config(4, "python", "semantic", "dirty")}

Symmetric == Permutations(Runners)
=============================================================================
