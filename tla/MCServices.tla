----------------------------- MODULE MCServices -----------------------------
(* Services with one or two of everything.                                 *)
EXTENDS Services, TLC

CONSTANTS n1, p1, i1    \* some of Nodes, Pools and Images

Value(d, uses, provider, late) ==
    [data |-> d, uses |-> uses, provider |-> provider, late |-> late]

\* The second version of X lacks one resource and has another value of the one it
\* exports; Y imports that one and makes its own with the help of X.
MCManifest == [
    x1 |-> [element |-> "X", exports |-> {"a"}, imports |-> << >>,
            resources |-> "a" :> Value("a1", {}, None, TRUE) @@ "b" :> Value("b", {}, None, FALSE)],
    x2 |-> [element |-> "X", exports |-> {"a"}, imports |-> << >>,
            resources |-> "a" :> Value("a2", {}, None, TRUE)],
    y1 |-> [element |-> "Y", exports |-> {}, imports |-> "i" :> <<"X", "a">>,
            resources |-> "s" :> Value("s", {"i"}, "X", FALSE)]]

\* No node asks for an address.
MCTarget == [n \in VmNode |-> NoIp]

\* What is not in focus has one initial state; and images and sizes are only told
\* apart, so that a machine may start with any of them.
MCInit ==
    /\ Init
    /\ focus # "sessions" => orgs = {}
    /\ node = [image |-> i1, size |-> 1]
    /\ focus # "secrets" => kind = "password"
    /\ home[n1] = p1    \* one of two pools, it does not matter which
    /\ \A n \in Nodes : focus # "volumes" => home[n] = p1

MCSpec == MCInit /\ [][Next]_vars /\ Fairness
=============================================================================
