------------------------ MODULE MCSignatureVerifiers ------------------------
EXTENDS SignatureVerifiers

config(b, c) == [block |-> b, kind |-> "config", ns |-> Meta, sets |-> c, signed |-> {}]
by(rule, ids) == {[rule |-> rule, ids |-> ids]}
meta(b, n, p, c) == [block |-> b, kind |-> "meta", ns |-> n, sets |-> p, signed |-> by(c, c)]
data(b, n, signed) == [block |-> b, kind |-> "data", ns |-> n, sets |-> None, signed |-> signed]

\* Two transactions of two blocks under a policy.
Policies == <<config(0, "A"), meta(1, "n", "P", "A"), data(2, "n", by("P", "A")),
              data(3, "n", by("P", "A"))>>
\* A new configuration between two transactions, the second with the old identities.
Reconfigured == <<config(0, "A"), meta(1, "n", "P", "A"), config(2, "B"),
                  data(3, "n", by("P", "B")), data(4, "n", by("P", "A"))>>
\* A namespace without a scheme under a new configuration, and a policy that the
\* configuration does not allow.
Schemeless == <<config(0, "A"), meta(1, "n", NoScheme, "A"), config(2, "B"), data(3, "n", {}),
                meta(3, "n", "Q", "A")>>

AllChains == {Policies, Reconfigured, Schemeless}
=============================================================================
